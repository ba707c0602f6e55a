SPECIFICATION Spec
CONSTANTS
    Cycles = {c1, c2}
    Providers = {p1}
    StreamProviders = {}
    Enabled = {"split_request", "abort", "shutdown"}
    c1 = c1
    c2 = c2
    p1 = p1
SYMMETRY Symmetry
INVARIANTS
    NoStrandedChild
    WorkersAdmitted
PROPERTIES
    CancelTooLate
    FollowupServedOnce
    CyclesImplemented
