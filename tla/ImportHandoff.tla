--------------------------- MODULE ImportHandoff ---------------------------
(***************************************************************************)
(* From the commit of an import to the end of its first delivery           *)
(* (_run_import_handoff and retry_committed_import_pulls of                *)
(* core/netflix_sessions.py, release_handoff and seed_import_delivery of   *)
(* core/connection_imports.py).                                            *)
(*                                                                         *)
(* ImportSessions ends where this module starts: the session is committed, *)
(* its result says pull_pending, and the connection, if the import is one's *)
(* first snapshot, is kept out of routine cycles until the handoff of its  *)
(* baseline is released.  The task of the commit and the retry of the      *)
(* scheduler both try to run an account pull that carries the import.      *)
(* They load the session, decide on the copy, admit a cycle in a           *)
(* transaction of its own, write the whole result back from the copy, and  *)
(* look again when the cycle has ended.  AccountSync models the cycles;    *)
(* here one is a row that is active and then has one of its outcomes.      *)
(***************************************************************************)
EXTENDS Integers

CONSTANTS
    Pulls,   \* jobs the handoff may admit
    NoPull

Hands == {"task", "retry"}

ASSUME NoPullAssumption == NoPull \notin Pulls

VARIABLES
    pending,   \* result.pull_pending
    pullJob,   \* result.pull_job_id
    handoff,   \* the baseline: "waiting", "released", or "none" for a file
    cycle,     \* the jobs
    routine,   \* another cycle of the account is active
    hand,      \* memory: position of the two coroutines
    copy,      \* memory: pull_job_id in the result they loaded
    mine,      \* memory: the job they admitted
    carried    \* history: jobs whose cycle was seeded with the import

handoffRows == <<pending, pullJob, handoff, cycle, routine>>
handoffVars == <<handoffRows, hand, copy, mine, carried>>

\* "stopped" is completed without reconciliation, as a graceful stop leaves it;
\* "owing" is reconciled with deliveries outstanding, "done" without.
Outcomes == {"failed", "stopped", "owing", "done"}

HandoffTypeOK ==
    /\ pending \in BOOLEAN /\ routine \in BOOLEAN
    /\ pullJob \in Pulls \cup {NoPull}
    /\ handoff \in {"waiting", "released", "none"}
    /\ cycle \in [Pulls -> {"none", "active"} \cup Outcomes]
    /\ hand \in [Hands -> {"idle", "loaded", "admitted", "running", "over"}]
    /\ copy \in [Hands -> Pulls \cup {NoPull}]
    /\ mine \in [Hands -> Pulls \cup {NoPull}]
    /\ carried \subseteq Pulls

\* The task of the commit goes on with the pull.
HandoffInit ==
    /\ pending = TRUE /\ pullJob = NoPull
    /\ handoff \in {"waiting", "none"}
    /\ cycle = [j \in Pulls |-> "none"] /\ routine = FALSE
    /\ hand = [a \in Hands |-> "idle"]
    /\ copy = [a \in Hands |-> NoPull]
    /\ mine = [a \in Hands |-> NoPull]
    /\ carried = {}

---------------------------------------------------------------------------
(* Helpers.                                                                *)

\* require_idle_account, under the lock of the user.
AccountIdle == ~routine /\ \A j \in Pulls : cycle[j] # "active"

\* Mutant: a cycle that has ended is one that has pulled.
HasPulledIfEnded(j) == cycle[j] \in Outcomes

\* completed or reconciled, with no delivery pending.
HasPulled(j) == cycle[j] \in {"stopped", "done"}

\* release_handoff.
ReleaseHandoff == handoff' = IF handoff = "waiting" THEN "released" ELSE handoff

\* The scheduler comes back in a minute, the task does not.
Rest == [a \in Hands |-> IF a = "task" THEN "over" ELSE "idle"]

HandRests(a) ==
    /\ hand' = [hand EXCEPT ![a] = Rest[a]]
    /\ copy' = [copy EXCEPT ![a] = NoPull]
    /\ mine' = [mine EXCEPT ![a] = NoPull]

---------------------------------------------------------------------------
(* The two coroutines.                                                     *)

LoadSession(a) ==
    /\ hand[a] = "idle" /\ pending
    /\ hand' = [hand EXCEPT ![a] = "loaded"]
    /\ copy' = [copy EXCEPT ![a] = pullJob]
    /\ UNCHANGED <<handoffRows, mine, carried>>

\* Mutant: the baseline is released and the result is left pending.
PreviousHasPulledQuietly(a) ==
    /\ hand[a] = "loaded" /\ copy[a] # NoPull /\ HasPulled(copy[a])
    /\ ReleaseHandoff
    /\ HandRests(a)
    /\ UNCHANGED <<pending, pullJob, cycle, routine, carried>>

\* The previous job has pulled: a restart or an error came before the release.
PreviousHasPulled(a) ==
    /\ hand[a] = "loaded" /\ copy[a] # NoPull /\ HasPulled(copy[a])
    /\ ReleaseHandoff
    /\ pending' = FALSE /\ pullJob' = copy[a]
    /\ HandRests(a)
    /\ UNCHANGED <<cycle, routine, carried>>

\* The previous job is active, or the durable delivery retry owns its batch.
PreviousIsBusy(a) ==
    /\ hand[a] = "loaded" /\ copy[a] # NoPull /\ cycle[copy[a]] \in {"active", "owing"}
    /\ HandRests(a)
    /\ UNCHANGED <<handoffRows, carried>>

Retryable(a) == \A j \in Pulls : copy[a] = j => cycle[j] \in {"none", "failed"}

\* queue_account_pull commits the job ...
AdmitPull(a, j) ==
    /\ hand[a] = "loaded" /\ Retryable(a) /\ AccountIdle
    /\ cycle[j] = "none"
    /\ cycle' = [cycle EXCEPT ![j] = "active"]
    /\ mine' = [mine EXCEPT ![a] = j]
    /\ hand' = [hand EXCEPT ![a] = "admitted"]
    /\ UNCHANGED <<pending, pullJob, handoff, routine, copy, carried>>

\* ... unless another cycle is active (409).
AdmissionRefused(a) ==
    /\ hand[a] = "loaded" /\ Retryable(a) /\ ~AccountIdle
    /\ HandRests(a)
    /\ UNCHANGED <<handoffRows, carried>>

\* No target, or no key (400).
NothingToPull(a) ==
    /\ hand[a] = "loaded" /\ Retryable(a)
    /\ HandRests(a)
    /\ UNCHANGED <<handoffRows, carried>>

\* The result is written back whole: the copy had pull_pending.
LinkPull(a) ==
    /\ hand[a] = "admitted"
    /\ pullJob' = mine[a] /\ pending' = TRUE
    /\ hand' = [hand EXCEPT ![a] = "running"]
    /\ UNCHANGED <<handoff, cycle, routine, copy, mine, carried>>

\* run_account_pull returns, and the outcome is read again.
PullReturns(a) ==
    /\ hand[a] = "running" /\ cycle[mine[a]] # "active"
    /\ IF HasPulled(mine[a])
       THEN ReleaseHandoff /\ pending' = FALSE
       ELSE UNCHANGED <<handoff, pending>>
    /\ HandRests(a)
    /\ UNCHANGED <<pullJob, cycle, routine, carried>>

---------------------------------------------------------------------------
(* The cycles.                                                             *)

\* Bound: no cycle is lost unless a job is left for each of the two.
JobsLeft == \E i, j \in Pulls : i # j /\ cycle[i] = "none" /\ cycle[j] = "none"

\* A cycle that reaches finalize is seeded with the import that names it, and
\* owes its deliveries in the same commit.
CycleReconciles(a) ==
    /\ hand[a] = "running" /\ cycle[mine[a]] = "active"
    /\ carried' = carried \cup (IF pending /\ pullJob = mine[a] THEN {mine[a]} ELSE {})
    /\ \E how \in {"owing", "done"} : cycle' = [cycle EXCEPT ![mine[a]] = how]
    /\ UNCHANGED <<pending, pullJob, handoff, routine, hand, copy, mine>>

CycleFails(a) ==
    /\ JobsLeft
    /\ hand[a] = "running" /\ cycle[mine[a]] = "active"
    /\ cycle' = [cycle EXCEPT ![mine[a]] = "failed"]
    /\ UNCHANGED <<pending, pullJob, handoff, routine, hand, copy, mine, carried>>

\* retry_cycle_deliveries (CycleDelivery).
DeliveryEnds(j) ==
    /\ cycle[j] = "owing"
    /\ cycle' = [cycle EXCEPT ![j] = "done"]
    /\ UNCHANGED <<pending, pullJob, handoff, routine, hand, copy, mine, carried>>

RoutineStarts ==
    /\ AccountIdle
    /\ routine' = TRUE
    /\ UNCHANGED <<pending, pullJob, handoff, cycle, hand, copy, mine, carried>>

RoutineEnds ==
    /\ routine
    /\ routine' = FALSE
    /\ UNCHANGED <<pending, pullJob, handoff, cycle, hand, copy, mine, carried>>

\* The process ends: gracefully, the active cycle completes without having
\* reconciled (AccountSync); otherwise lifespan fails its row.  Nothing resumes
\* the task, only the retry is left.
StopHandoff ==
    /\ JobsLeft
    /\ \E how \in {"failed", "stopped"} :
           cycle' = [j \in Pulls |-> IF cycle[j] = "active" THEN how ELSE cycle[j]]
    /\ routine' = FALSE
    /\ hand' = Rest
    /\ copy' = [a \in Hands |-> NoPull]
    /\ mine' = [a \in Hands |-> NoPull]
    /\ UNCHANGED <<pending, pullJob, handoff, carried>>

---------------------------------------------------------------------------
(* The specification.                                                      *)

HandWorks(a) ==
    \/ LoadSession(a) \/ PreviousHasPulled(a) \/ PreviousIsBusy(a)
    \/ \E j \in Pulls : AdmitPull(a, j)
    \/ AdmissionRefused(a) \/ LinkPull(a) \/ PullReturns(a)

HandoffCalm ==
    \/ \E a \in Hands : HandWorks(a) \/ CycleReconciles(a)
    \/ \E j \in Pulls : DeliveryEnds(j)
    \/ RoutineEnds

\* What may cost the handoff its turn.
Setback ==
    \/ \E a \in Hands : NothingToPull(a) \/ CycleFails(a)
    \/ RoutineStarts \/ StopHandoff

HandoffNext == HandoffCalm \/ Setback

HandoffSpec == HandoffInit /\ [][HandoffNext]_handoffVars

(***************************************************************************)
(* The scheduler comes back every minute, the task runs to its end, cycles *)
(* and delivery retries end.  Nothing obliges anyone to start a cycle.     *)
(***************************************************************************)
HandoffFairness ==
    /\ \A a \in Hands : WF_handoffVars(HandWorks(a)) /\ WF_handoffVars(CycleReconciles(a))
    /\ \A j \in Pulls : WF_handoffVars(DeliveryEnds(j))
    /\ WF_handoffVars(RoutineEnds)

FairHandoffSpec == HandoffSpec /\ HandoffFairness

---------------------------------------------------------------------------
(* Properties.                                                             *)

\* A cycle that was seeded with the import has reconciled and delivered, or a
\* graceful stop completed one.
Delivered == \E j \in Pulls : cycle[j] = "stopped" \/ (j \in carried /\ cycle[j] = "done")

\* "A committed onboarding import owns its first delivery cycle": the handoff
\* is over only when such a cycle exists, whatever failed, restarted or ran
\* beside it (_run_import_handoff, release_handoff).
HandedOverWasDelivered == handoff = "released" \/ ~pending => Delivered

\* Once cycles stop failing and the account is free, the import is handed over,
\* although the task may be gone, its cycle lost, or its delivery left to the
\* scheduler (retry_committed_import_pulls).
HandoffEnds == <>[][HandoffCalm]_handoffVars => <>[](~pending /\ handoff # "waiting")

---------------------------------------------------------------------------
(* The inductive invariant.                                                *)

\* One cycle of the account is active at a time, and it is that of one hand.
OneActive ==
    /\ \A i, j \in Pulls : cycle[i] = "active" /\ cycle[j] = "active" => i = j
    /\ \A a \in Hands : mine[a] # NoPull => cycle[mine[a]] # "none"
    /\ \A a, b \in Hands : mine[a] # NoPull /\ mine[a] = mine[b] => a = b
    /\ \A a \in Hands : hand[a] = "admitted" => mine[a] # NoPull /\ cycle[mine[a]] = "active"
    /\ \A a \in Hands : hand[a] = "running" => mine[a] # NoPull

\* A cycle under way is named by the result, and one that has reconciled has
\* carried the import, unless it was delivered before.
Carried ==
    /\ \A a \in Hands : hand[a] = "running" /\ cycle[mine[a]] = "active" =>
           (pending /\ pullJob = mine[a]) \/ Delivered
    /\ \A j \in Pulls : cycle[j] \in {"owing", "done"} => j \in carried \/ Delivered

HandoffInv == HandoffTypeOK /\ OneActive /\ Carried /\ HandedOverWasDelivered
=============================================================================
