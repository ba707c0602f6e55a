SPECIFICATION Spec
CONSTANTS
    Batches = {b1}
    Targets = {conn, queues}
    Queues = queues
    Connections = {conn}
    Items = {i1}
    Scores = {low, high}
    Nothing = none
    MaxEdits = 1
    MaxSwitches = 0
    MayCrash = FALSE
    b1 = b1
    conn = conn
    queues = queues
    i1 = i1
    low = low
    high = high
    none = none
INVARIANTS
    LocalEditOffered
CHECK_DEADLOCK FALSE
