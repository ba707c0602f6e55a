SPECIFICATION Spec
CONSTANTS
    Cycles = {c1, c2}
    Providers = {p1}
    StreamProviders = {p1}
    Enabled = {"switch"}
    c1 = c1
    c2 = c2
    p1 = p1
SYMMETRY Symmetry
INVARIANTS
    DeliveryRetryable
