---------------------------- MODULE MCStreams ----------------------------
(* A streaming connection and the watched history, for TLC: who is         *)
(* admitted (AccountSync), which history a clear leaves (ProviderClear,    *)
(* which repeats of the admission only that one job of an account is       *)
(* active), and what playback adds to it (PlaybackSessions).  A behaviour  *)
(* has one of them in `focus`, and the others keep an initial state.       *)
EXTENDS MCAccountSync, ProviderClear, PlaybackSessions

CONSTANTS
    q1, q2,    \* the runners of ProviderClear
    f1, f2,    \* the titles of PlaybackSessions
    d1, d2     \* its handlers

VARIABLE focus

streamsVars == <<vars, clearVars, playbackVars, focus>>

StreamsInit ==
    /\ focus \in {"admission", "clears", "reports", "sessions", "episodes"}
    /\ Init /\ ClearInit /\ PlaybackInit
    /\ focus # "clears" => watched = {}

\* An abort begins before the last cycle is admitted.
AdmissionStep ==
    /\ focus = "admission" /\ Next
    /\ abort = {} /\ abort' # {} => \E c \in Cycles : status[c] = "none"
    /\ UNCHANGED <<clearVars, playbackVars, focus>>

\* q1 runs pulls whose job may be cancelled under them, q2 what is admitted
\* beside such a straggler: a limited pull or a cycle.
ClearStep ==
    /\ focus = "clears" /\ ClearNext
    /\ pull'[q1].mode # "cycle" /\ pull'[q2].mode # "full"
    /\ pull'[q2].cancelled => pull'[q2].mode = "cycle"
    /\ UNCHANGED <<vars, playbackVars, focus>>

\* Everything reports the same title at once, and only paths that look add
\* watches; or two sessions run out together while one request or webhook is about
\* the first of them; or the second title is marked, which infers the first, beside
\* webhooks for the first and other writers.
WatchStep ==
    /\ focus \in {"reports", "sessions", "episodes"} /\ PlaybackNext
    /\ focus # "episodes" =>
        /\ unlooked' = {}
        /\ \A h \in Handlers : subject'[h] \subseteq {f1} /\ task'[h] # "infers"
    /\ \/ focus = "reports" /\ manual'[f2] = "none"
       \/ /\ focus = "sessions"
          /\ \A h \in Handlers : task'[h] # "mark"
          /\ \E h \in Handlers : task'[h] = "idle"
          /\ manual'[f2] # "none" => manual'[f2] = "playing" /\ due'[f2] = Runtime
          /\ \A m \in Minutes : watches[f2][m] <= watches'[f2][m]
       \/ /\ focus = "episodes"
          /\ \A t \in Films : manual'[t] = "none"
          /\ \A h \in Handlers :
              /\ f1 \in subject'[h] => task'[h] \in {"webhook", "infers"}
              /\ f2 \in subject'[h] => task'[h] = "mark"
          /\ \A m \in Minutes : <<f2, m>> \notin unlooked'
    /\ UNCHANGED <<vars, clearVars, focus>>

StreamsSpec == StreamsInit /\ [][AdmissionStep \/ ClearStep \/ WatchStep]_streamsVars

StreamsSymmetry == Symmetry \cup Permutations(Handlers)
=============================================================================
