SPECIFICATION RatingsSpec
CONSTANTS
    Dated = {trakt}
    Undated = {plex}
    Pushing = {plex}
    Scores = {70, 80}
    NoScore = none
    MaxTime = 3
    trakt = trakt
    plex = plex
    none = none
PROPERTIES
    KeptScoreSent
CHECK_DEADLOCK FALSE
