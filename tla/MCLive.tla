------------------------------ MODULE MCLive ------------------------------
(* What must eventually happen, for TLC: pull cycles end and owed ones are *)
(* started (AccountSync), deliveries of the library are retired            *)
(* (StreamingLibrary).  A behaviour has one of the two in `focus`, and the *)
(* other keeps its initial state.                                          *)
EXTENDS MCAccountSync

CONSTANTS
    Connections, Resyncing, Configured, Owned, Titles, Fresh

VARIABLES
    desired, row, push, newer, remote, edited, holder, todo, loaded, outcome,
    session, want, seen, titles, foreign, quiet, strayed,
    focus

Library == INSTANCE StreamingLibrary

libraryVars ==
    <<desired, row, push, newer, remote, edited, holder, todo, loaded, outcome,
      session, want, seen, titles, foreign, quiet, strayed>>

liveVars == <<vars, libraryVars, focus>>

LiveInit == focus \in {"cycles", "library"} /\ Init /\ Library!Init

CycleStep == focus = "cycles" /\ Next /\ UNCHANGED <<libraryVars, focus>>
\* push_collection changes between the syncs of a connection.
LibraryStep ==
    /\ focus = "library" /\ Library!Next
    /\ push' # push => \A c \in Connections : session[c] = "none"
    /\ UNCHANGED <<vars, focus>>

LiveSpec == LiveInit /\ [][CycleStep \/ LibraryStep]_liveVars

(***************************************************************************)
(* The liveness properties, each under the fairness of its own module.     *)
(***************************************************************************)

\* A cycle that is admitted ends (AccountSync.CycleEnds).
CyclesEnd == focus = "cycles" /\ Fairness => CycleEnds

\* An owed cycle is started (AccountSync.OwedServed).
OwedCyclesServed == focus = "cycles" /\ Fairness => OwedServed

\* Pending deliveries are retired (StreamingLibrary.Retired).
DeliveriesRetired == focus = "library" /\ Library!Fairness => Library!Retired
=============================================================================
