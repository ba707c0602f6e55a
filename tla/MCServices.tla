---------------------------- MODULE MCServices ----------------------------
(***************************************************************************)
(* Instances of the modules around the sync core for TLC: the statistics,  *)
(* import sessions, their hand-over to a pull, and stream actions.  They   *)
(* share no variable and no row of the database in what they model, and a  *)
(* product would only multiply their states: a behaviour has one of them   *)
(* in `focus`, and the others keep an initial state.                       *)
(***************************************************************************)
EXTENDS StatisticsLease, ImportSessions, ImportHandoff, StreamActions, TLC

CONSTANTS
    s1, s2, cloud   \* the connections of StreamActions

VARIABLE focus

\* The statistics are checked with a scheduler task beside requests for a
\* refresh, repairs or overview pages, the actions with the deletion of a title
\* on a stream (another was removed) and a cloud, or playback on two streams.
Statistics == {"refreshes", "repairs", "pages"}
Focuses == Statistics \cup {"imports", "handoff", "deletions", "playback"}

servicesVars == <<statsVars, importVars, handoffVars, actionVars, focus>>

ServicesInit ==
    /\ focus \in Focuses
    /\ StatsInit /\ ImportsInit /\ HandoffInit /\ ActionsInit
    /\ focus # "imports" => origin = "file"
    /\ focus # "handoff" => handoff = "none"
    /\ ready = IF focus = "deletions" THEN {s1, cloud} ELSE Targets
    /\ pushing = IF focus = "playback" THEN Streams ELSE ready

StatisticsStep ==
    /\ focus \in Statistics /\ StatsNext
    /\ focus # "refreshes" => \A r \in Requests : worker'[r] = "idle"
    /\ focus # "repairs" => \A h \in Repairs : worker'[h] = "idle"
    /\ focus # "pages" => page' = NoGeneration
    /\ UNCHANGED <<importVars, handoffVars, actionVars, focus>>

ImportStep ==
    /\ focus = "imports" /\ ImportsNext
    /\ UNCHANGED <<statsVars, handoffVars, actionVars, focus>>

HandoffStep ==
    /\ focus = "handoff" /\ HandoffNext
    /\ UNCHANGED <<statsVars, importVars, actionVars, focus>>

\* Deletions without play rows; playback without deletions, which are all that
\* asks what a service holds, and without the cloud.  The cloud stays approved:
\* approvals come and go on the stream.
ActionStep ==
    /\ ActionsNext
    /\ cloud \in ready'
    /\ \/ /\ focus = "deletions"
          /\ entry' # "resting" /\ \A c \in Streams : queued'[c] = {}
       \/ /\ focus = "playback"
          /\ marker' = Unmarked /\ cloud \notin pushing' /\ remote' = remote
    /\ UNCHANGED <<statsVars, importVars, handoffVars, focus>>

ServicesNext == StatisticsStep \/ ImportStep \/ HandoffStep \/ ActionStep

ServicesSpec == ServicesInit /\ [][ServicesNext]_servicesVars

(***************************************************************************)
(* The liveness properties, each under the fairness of its own module.     *)
(***************************************************************************)

\* Statistics of an account become and stay current (StatisticsLease.Converges).
StatisticsConverge == focus \in Statistics /\ StatsFairness => Converges

\* An accepted commit of an import ends (ImportSessions.CommitSettles).
CommitsSettle == focus = "imports" /\ ImportsFairness => CommitSettles

\* A committed import is handed over to routine sync (ImportHandoff.HandoffEnds).
HandoffsEnd == focus = "handoff" /\ HandoffFairness => HandoffEnds

\* The marker of a deletion stops waiting (StreamActions.DeletionSettles).
DeletionsSettle == focus = "deletions" /\ ActionsFairness => DeletionSettles
=============================================================================
