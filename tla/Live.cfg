SPECIFICATION LiveSpec
CONSTANTS
    Cycles = {c1, c2}
    Providers = {p1}
    StreamProviders = {}
    Enabled = {}
    Connections = {c1, c2}
    Resyncing = {c1}
    Configured = {c1}
    Owned = {}
    Titles = {t1}
    Fresh = fresh
    c1 = c1
    c2 = c2
    p1 = p1
    t1 = t1
    fresh = fresh
INVARIANTS
    CompletedReconciled
    DeliveryRetryable
PROPERTIES
    CyclesEnd
    OwedCyclesServed
    DeliveriesRetired
