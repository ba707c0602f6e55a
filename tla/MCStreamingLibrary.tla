------------------------ MODULE MCStreamingLibrary ------------------------
(* What is decided about a title from several sources, for TLC: its place  *)
(* in the library (StreamingLibrary) and its score (RatingMerge).  They    *)
(* share no row, a behaviour has one of the two in `focus`, and the other  *)
(* keeps its initial state.                                                *)
EXTENDS StreamingLibrary, RatingMerge, TLC

CONSTANTS
    trakt, plex   \* the providers of RatingMerge

VARIABLE focus

decisionVars == <<vars, ratingVars, focus>>

DecisionsInit ==
    /\ focus \in {"library", "score"}
    /\ Init /\ RatingsInit

\* push_collection changes between the syncs of a connection.
LibraryStep ==
    /\ focus = "library" /\ Next
    /\ push' # push => \A c \in Connections : session[c] = "none"
    /\ UNCHANGED <<ratingVars, focus>>

\* The owner of the media server rates in whole points, the import of the tracker
\* does not fail between its ratings and its end, and the user has no 70 to give.
ScoreStep ==
    /\ focus = "score" /\ RatingsNext
    /\ sending' = sending => held'[plex] \in {held[plex]} \cup Whole
    /\ gathered'[trakt] # NoScore => trakt \in collected'
    /\ ~UserRates(70)
    /\ UNCHANGED <<vars, focus>>

DecisionsSpec ==
    DecisionsInit /\ [][LibraryStep \/ ScoreStep]_decisionVars

=============================================================================
