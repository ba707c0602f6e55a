SPECIFICATION StreamsSpec
CONSTANTS
    Cycles = {c1, c2}
    Providers = {p1}
    StreamProviders = {p1}
    Enabled = {"switch", "abort", "shutdown"}
    Titles = {t1}
    Runners = {q1, q2}
    c1 = c1
    c2 = c2
    p1 = p1
    t1 = t1
    q1 = q1
    q2 = q2
    Films = {f1, f2}
    Handlers = {d1, d2}
    Completer = completer
    Window = 1
    Runtime = 1
    LastMinute = 2
    f1 = f1
    f2 = f2
    d1 = d1
    d2 = d2
    completer = completer
SYMMETRY StreamsSymmetry
INVARIANTS
    AdmissionExclusive
    CancelHonoured
    WantedIsDelivered
    OneWatchPerViewing
PROPERTIES
    HistorySurvivesClear
