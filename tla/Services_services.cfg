SPECIFICATION ServicesSpec
CONSTANTS
    Schedulers = {w1}
    Repairs = {h1}
    Requests = {r1}
    NoGeneration = none
    MaxFacts = 1
    MaxShared = 1
    MaxShape = 1
    Origins = {"file", "connection"}
    Pulls = {j1, j2, j3}
    NoPull = nopull
    Streams = {s1, s2}
    Clouds = {cloud}
    Ids = {k1, k2}
    Unmarked = unmarked
    s1 = s1
    s2 = s2
    cloud = cloud
    k1 = k1
    k2 = k2
    w1 = w1
    h1 = h1
    r1 = r1
    j1 = j1
    j2 = j2
    j3 = j3
    none = none
    nopull = nopull
    unmarked = unmarked
INVARIANTS
    SettledIsCurrent
    RemovedStaysHidden
    AppliedIsCommitted
    DraftHasSession
    HandedOverWasDelivered
    MarkerServed
    AcknowledgedIsCleared
    NoticeMatchesMarker
    RestedIsDismissed
PROPERTIES
    StatisticsConverge
    CommitsSettle
    HandoffsEnd
    DeletionsSettle
    LeaseIsOwn
    GenerationsImplemented
    CancelledStaysOut
CHECK_DEADLOCK FALSE
