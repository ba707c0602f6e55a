SPECIFICATION DecisionsSpec
CONSTANTS
    Connections = {c1, c2}
    Resyncing = {c1}
    Configured = {c1}
    Owned = {c1, c2}
    Titles = {t1}
    Fresh = fresh
    Dated = {trakt}
    Undated = {plex}
    Pushing = {plex}
    Scores = {70, 72, 80}
    NoScore = none
    MaxTime = 3
    c1 = c1
    c2 = c2
    t1 = t1
    fresh = fresh
    trakt = trakt
    plex = plex
    none = none
INVARIANTS
    AppliedReached
    SentIsChosen
    QuietStays
PROPERTIES
    SettledStays
    ChoiceStands
