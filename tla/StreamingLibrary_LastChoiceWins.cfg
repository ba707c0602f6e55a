SPECIFICATION Spec
CONSTANTS
    Connections = {c1}
    Resyncing = {c1}
    Configured = {}
    Owned = {}
    Titles = {t1}
    Fresh = fresh
    c1 = c1
    t1 = t1
    fresh = fresh
INVARIANTS
    LastChoiceWins
