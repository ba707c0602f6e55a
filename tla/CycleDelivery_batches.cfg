SPECIFICATION BatchesSpec
CONSTANTS
    Batches = {b1, b2}
    Targets = {conn, queues}
    Queues = queues
    Connections = {conn}
    Items = {i1}
    Scores = {low, high}
    Nothing = none
    MaxEdits = 1
    MaxSwitches = 1
    MayCrash = TRUE
    b1 = b1
    b2 = b2
    conn = conn
    queues = queues
    i1 = i1
    low = low
    high = high
    none = none
INVARIANTS
    AcknowledgedIsDelivered
    InFlightIsCurrent
PROPERTIES
    Settles
    OutboxImplemented
CHECK_DEADLOCK FALSE
