---------------------------- MODULE AccountSync ----------------------------
(***************************************************************************)
(* Admission, execution and closing of one user's account pull cycles      *)
(* (core/account_sync.py), with the job primitives of core/sync_jobs.py,   *)
(* the execution lock of core/pull_cycle.py, the delivery retry of         *)
(* core/sync_delivery.py, and the routes and the process lifetime that     *)
(* interfere with them (routers/sync.py, core/connection_identity.py,      *)
(* main.py).                                                               *)
(*                                                                         *)
(* A cycle is a parent row of sync_jobs with one child row per provider it *)
(* pulls.  Durable state is what the database holds; process memory is the *)
(* position of every coroutine and the values it read and still uses.  The *)
(* stats column is one JSON value: an assignment to it writes the whole    *)
(* value, computed from whatever snapshot its writer holds.                *)
(***************************************************************************)
EXTENDS FiniteSets

CONSTANTS
    Cycles,     \* identities of pull_cycle rows
    Providers,  \* sources a cycle may pull: connections and cloud services
    StreamProviders, \* those that are Stremio or Nuvio connections
    Enabled     \* the interference an instance is exposed to, see below

(***************************************************************************)
(* "split_request"   request_automatic_pull reads the active row and       *)
(*                   writes it back, and others may commit in between, as  *)
(*                   in the code; without it nobody does.                  *)
(* "switch"          a streaming account is replaced on its connection.    *)
(* "abort"           POST /sync/abort is called.                           *)
(* "shutdown"        the process is stopped gracefully: every coroutine is *)
(*                   cancelled and still runs its finally block.           *)
(***************************************************************************)
Interference == {"split_request", "switch", "abort", "shutdown"}

ASSUME StreamAssumption == StreamProviders \subseteq Providers
ASSUME EnabledAssumption == Enabled \subseteq Interference

VARIABLES
    status,   \* sync_jobs.status of every cycle
    child,    \* sync_jobs.status of the provider jobs of every cycle
    stats,    \* sync_jobs.stats of every cycle: the flags that are set
    aborted,  \* cycles with error_message "Aborted due to server restart"
    clear,    \* sync_jobs.status of the clear of every streaming connection
    up,       \* "up", or "stopping" during a graceful shutdown
    pc,       \* position of run_account_pull for every cycle
    worker,   \* position of _run_provider for every provider job
    raised,   \* local variable failed of run_account_pull
    copy,     \* stats of the parent in run_account_pull's own session
    retrying, \* cycles whose delivery retry_cycle_deliveries is running
    request,  \* request_automatic_pull between its read and its write
    abort,    \* abort_sync between its read and its bulk update
    cancelAccepted, \* history: cycles whose cancel answered 200
    asked           \* history: cycles that accepted a follow-up request

durable == <<status, child, stats, aborted, clear>>
memory  == <<up, pc, worker, raised, copy, retrying, request, abort>>
history == <<cancelAccepted, asked>>
vars    == <<durable, memory, history>>

Active   == {"pending", "running"}
Terminal == {"completed", "failed", "cancelled"}
Status   == {"none"} \cup Active \cup Terminal

Flags == {"automatic", "cancel_requested", "reconciling", "followup_requested",
          "reconciled", "delivery_pending", "recovery_job_id"}

Positions == {"idle", "queued", "starting", "pulling", "reconciling",
              "delivering", "closing"}
WorkerPositions == {"idle", "loading", "loaded", "refreshed", "running"}

TypeOK ==
    /\ status \in [Cycles -> Status]
    /\ child \in [Cycles -> [Providers -> Status]]
    /\ stats \in [Cycles -> SUBSET Flags]
    /\ aborted \subseteq Cycles
    /\ clear \in [StreamProviders -> Status]
    /\ up \in {"up", "stopping"}
    /\ pc \in [Cycles -> Positions]
    /\ worker \in [Cycles -> [Providers -> WorkerPositions]]
    /\ raised \subseteq Cycles
    /\ copy \in [Cycles -> SUBSET Flags]
    /\ retrying \subseteq Cycles
    /\ request \subseteq [cycle : Cycles, seen : SUBSET Flags]
    /\ abort \subseteq [seen : SUBSET Cycles, todo : SUBSET Cycles]
    /\ cancelAccepted \subseteq Cycles
    /\ asked \subseteq Cycles

Init ==
    /\ status = [c \in Cycles |-> "none"]
    /\ child = [c \in Cycles |-> [p \in Providers |-> "none"]]
    /\ stats = [c \in Cycles |-> {}]
    /\ aborted = {}
    /\ clear = [p \in StreamProviders |-> "none"]
    /\ up = "up"
    /\ pc = [c \in Cycles |-> "idle"]
    /\ worker = [c \in Cycles |-> [p \in Providers |-> "idle"]]
    /\ raised = {}
    /\ copy = [c \in Cycles |-> {}]
    /\ retrying = {}
    /\ request = {}
    /\ abort = {}
    /\ cancelAccepted = {}
    /\ asked = {}

---------------------------------------------------------------------------
(* Locks and admission.                                                    *)

\* Mutant of UserLockFree: admissions do not lock the row of the user.
UserLockFreeIgnored == TRUE

\* The row of users is locked by every admission, by finalize and by the
\* finally block; only a request in flight holds it across two steps.
UserLockFree == request = {}

\* The two sides of pull_cycle._locks: the body of coordinated_pull_cycle and
\* the retry of an accepted delivery.
InCycle(c) == pc[c] \in {"pulling", "reconciling", "delivering"}
CycleLockFree == retrying = {} /\ \A c \in Cycles : ~InCycle(c)

ActiveCycles == {c \in Cycles : status[c] \in Active}

\* Mutant of Idle: clear is left out of the job types that are looked for.
IdleBesideClears ==
    /\ ActiveCycles = {}
    /\ \A c \in Cycles : \A p \in Providers : child[c][p] \notin Active

\* require_idle_account.
Idle ==
    /\ ActiveCycles = {}
    /\ \A c \in Cycles : \A p \in Providers : child[c][p] \notin Active
    /\ \A p \in StreamProviders : clear[p] \notin Active

\* The rows queue_account_pull adds, and the coroutine its caller schedules.
Admit(j, T) ==
    /\ status[j] = "none"
    /\ T # {}
    /\ status' = [status EXCEPT ![j] = "pending"]
    /\ child' = [child EXCEPT ![j] =
                    [p \in Providers |-> IF p \in T THEN "pending" ELSE "none"]]
    /\ pc' = [pc EXCEPT ![j] = "queued"]

\* A manual or scheduled pull.
QueuePull(j, T) ==
    /\ up = "up" /\ UserLockFree /\ Idle
    /\ Admit(j, T)
    /\ UNCHANGED <<stats, aborted, clear, up, worker, raised, copy, retrying,
                   request, abort, history>>

\* request_automatic_pull with nothing active: an automatic cycle.
RequestStarts(j, T) ==
    /\ up = "up" /\ UserLockFree /\ Idle
    /\ Admit(j, T)
    /\ stats' = [stats EXCEPT ![j] = {"automatic"}]
    /\ UNCHANGED <<aborted, clear, up, worker, raised, copy, retrying,
                   request, abort, history>>

\* request_automatic_pull with a cycle active: its row is read under the lock
\* of the user, not of the job.
RequestReads(c) ==
    /\ "split_request" \in Enabled
    /\ up = "up" /\ UserLockFree
    /\ status[c] \in Active
    /\ request' = {[cycle |-> c, seen |-> stats[c]]}
    /\ UNCHANGED <<durable, up, pc, worker, raised, copy, retrying, abort, history>>

\* The follow-up flag is written with the rest of the snapshot.
RequestWrites(r) ==
    /\ r \in request
    /\ stats' = [stats EXCEPT ![r.cycle] = r.seen \cup {"followup_requested"}]
    /\ asked' = asked \cup {r.cycle}
    /\ request' = {}
    /\ UNCHANGED <<status, child, aborted, clear, up, pc, worker, raised, copy,
                   retrying, abort, cancelAccepted>>

\* The same with nothing committed between the read and the write.
RequestCoalesces(c) ==
    /\ up = "up" /\ UserLockFree
    /\ status[c] \in Active
    /\ stats' = [stats EXCEPT ![c] = @ \cup {"followup_requested"}]
    /\ asked' = asked \cup {c}
    /\ UNCHANGED <<status, child, aborted, clear, memory, cancelAccepted>>

\* The requests retry_automatic_pulls consumes.
Owed(c) ==
    /\ status[c] \in Terminal
    /\ stats[c] \cap {"cancel_requested", "recovery_job_id"} = {}
    /\ \/ "followup_requested" \in stats[c]
       \/ "automatic" \in stats[c] /\ c \in aborted /\ "reconciled" \notin stats[c]

\* Mutants of RetryAutomatic: the consumption is committed on its own, before the
\* job exists; only follow-ups are looked for, not interrupted automatic cycles.
RetryAutomaticConsumes(j, T) ==
    /\ up = "up" /\ UserLockFree /\ Idle
    /\ status[j] = "none" /\ T # {}
    /\ \E c \in Cycles : Owed(c)
    /\ stats' = [c \in Cycles |->
                    IF Owed(c) THEN (stats[c] \ {"followup_requested"}) \cup {"recovery_job_id"}
                    ELSE stats[c]]
    /\ UNCHANGED <<status, child, aborted, clear, memory, history>>

RetryAutomaticFollowups(j, T) ==
    /\ up = "up" /\ UserLockFree /\ Idle
    /\ \E c \in Cycles : Owed(c) /\ "followup_requested" \in stats[c]
    /\ Admit(j, T)
    /\ stats' = [c \in Cycles |->
                    IF c = j THEN {"automatic"}
                    ELSE IF Owed(c) /\ "followup_requested" \in stats[c]
                         THEN (stats[c] \ {"followup_requested"}) \cup {"recovery_job_id"}
                         ELSE stats[c]]
    /\ UNCHANGED <<aborted, clear, up, worker, raised, copy, retrying,
                   request, abort, history>>

\* Consuming every owed request and admitting the cycle that serves them is one
\* transaction.
RetryAutomatic(j, T) ==
    /\ up = "up" /\ UserLockFree /\ Idle
    /\ \E c \in Cycles : Owed(c)
    /\ Admit(j, T)
    /\ stats' = [c \in Cycles |->
                    IF c = j THEN {"automatic"}
                    ELSE IF Owed(c)
                         THEN (stats[c] \ {"followup_requested"}) \cup {"recovery_job_id"}
                         ELSE stats[c]]
    /\ UNCHANGED <<aborted, clear, up, worker, raised, copy, retrying,
                   request, abort, history>>

\* clear_connection_data: a clear of a streaming connection is refused beside a
\* cycle or another job of the connection.  One clear per connection is the bound.
StartClear(p) ==
    /\ up = "up" /\ UserLockFree
    /\ ActiveCycles = {}
    /\ \A c \in Cycles : child[c][p] \notin Active
    /\ clear[p] = "none"
    /\ clear' = [clear EXCEPT ![p] = "pending"]
    /\ UNCHANGED <<status, child, stats, aborted, memory, history>>

\* The clear job starts only if it is still pending, and ends either way.
RunClear(p) ==
    /\ up = "up"
    /\ clear[p] = "pending"
    /\ clear' = [clear EXCEPT ![p] = "running"]
    /\ UNCHANGED <<status, child, stats, aborted, memory, history>>

EndClear(p) ==
    /\ up = "up"
    /\ clear[p] = "running"
    /\ \E s \in {"completed", "failed"} : clear' = [clear EXCEPT ![p] = s]
    /\ UNCHANGED <<status, child, stats, aborted, memory, history>>

\* cancel_sync_job on a clear: one that has started finishes.
CancelClear(p) ==
    /\ up = "up"
    /\ clear[p] = "pending"
    /\ clear' = [clear EXCEPT ![p] = "cancelled"]
    /\ UNCHANGED <<status, child, stats, aborted, memory, history>>

---------------------------------------------------------------------------
(* run_account_pull and its workers.                                       *)

\* Mutant of MarkRunning: a cancelled cycle is left alone before it is started,
\* and nothing settles its row.
MarkRunningUnlessAsked(c) ==
    /\ up = "up" /\ pc[c] = "queued"
    /\ IF status[c] = "pending" /\ "cancel_requested" \notin stats[c]
       THEN /\ status' = [status EXCEPT ![c] = "running"]
            /\ pc' = [pc EXCEPT ![c] = "starting"]
       ELSE /\ pc' = [pc EXCEPT ![c] = "idle"]
            /\ UNCHANGED status
    /\ UNCHANGED <<child, stats, aborted, clear, up, worker, raised, copy,
                   retrying, request, abort, history>>

\* mark_job_running_unless_cancelled on the parent.
MarkRunning(c) ==
    /\ up = "up" /\ pc[c] = "queued"
    /\ IF status[c] = "pending"
       THEN /\ status' = [status EXCEPT ![c] = "running"]
            /\ pc' = [pc EXCEPT ![c] = "starting"]
       ELSE /\ pc' = [pc EXCEPT ![c] = "idle"]
            /\ UNCHANGED status
    /\ UNCHANGED <<child, stats, aborted, clear, up, worker, raised, copy,
                   retrying, request, abort, history>>

Children(c) == {p \in Providers : child[c][p] # "none"}

\* The cycle lock is taken, initialize succeeds and every worker is started.
EnterCycle(c) ==
    /\ up = "up" /\ pc[c] = "starting" /\ CycleLockFree
    /\ pc' = [pc EXCEPT ![c] = "pulling"]
    /\ worker' = [worker EXCEPT ![c] =
                    [p \in Providers |-> IF p \in Children(c) THEN "loading" ELSE "idle"]]
    /\ UNCHANGED <<durable, up, raised, copy, retrying, request, abort, history>>

\* initialize raises.
EnterFails(c) ==
    /\ up = "up" /\ pc[c] = "starting" /\ CycleLockFree
    /\ pc' = [pc EXCEPT ![c] = "closing"]
    /\ raised' = raised \cup {c}
    /\ UNCHANGED <<durable, up, worker, copy, retrying, request, abort, history>>

At(c, p, w) == up = "up" /\ pc[c] = "pulling" /\ worker[c][p] = w
Goto(c, p, w) == worker' = [worker EXCEPT ![c][p] = w]
Settle(c, p, s) == child' = [child EXCEPT ![c][p] = s]

\* _run_provider loads its job and returns unless it is pending.
WorkerLoads(c, p) ==
    /\ At(c, p, "loading")
    /\ Goto(c, p, IF child[c][p] = "pending" THEN "loaded" ELSE "idle")
    /\ UNCHANGED <<durable, up, pc, raised, copy, retrying, request, abort, history>>

\* The connection is gone or unconfirmed (failed), or waits for its first
\* import (completed).  The write is not guarded by the status.
WorkerSettles(c, p) ==
    /\ At(c, p, "loaded")
    /\ \E s \in {"failed", "completed"} : Settle(c, p, s)
    /\ Goto(c, p, "idle")
    /\ UNCHANGED <<status, stats, aborted, clear, up, pc, raised, copy, retrying,
                   request, abort, history>>

\* check_provider_changes has answered and the job is refreshed.
WorkerRefreshes(c, p) ==
    /\ At(c, p, "loaded")
    /\ Goto(c, p, IF child[c][p] = "pending" THEN "refreshed" ELSE "idle")
    /\ UNCHANGED <<durable, up, pc, raised, copy, retrying, request, abort, history>>

\* The provider reports no change.
WorkerUnchanged(c, p) ==
    /\ At(c, p, "refreshed")
    /\ Settle(c, p, "completed")
    /\ Goto(c, p, "idle")
    /\ UNCHANGED <<status, stats, aborted, clear, up, pc, raised, copy, retrying,
                   request, abort, history>>

\* An exception outside the provider's runner: gather returns it.
WorkerRaises(c, p) ==
    /\ \E w \in {"loading", "loaded", "refreshed"} : At(c, p, w)
    /\ Goto(c, p, "idle")
    /\ raised' = raised \cup {c}
    /\ UNCHANGED <<durable, up, pc, copy, retrying, request, abort, history>>

\* The runner's mark_job_running_unless_cancelled.
RunnerStarts(c, p) ==
    /\ At(c, p, "refreshed")
    /\ IF child[c][p] = "pending"
       THEN Settle(c, p, "running") /\ Goto(c, p, "running")
       ELSE Goto(c, p, "idle") /\ UNCHANGED child
    /\ UNCHANGED <<status, stats, aborted, clear, up, pc, raised, copy, retrying,
                   request, abort, history>>

\* The runner's own completion or failure, written without reading the status.
RunnerEnds(c, p) ==
    /\ At(c, p, "running")
    /\ \E s \in {"failed", "completed"} : Settle(c, p, s)
    /\ Goto(c, p, "idle")
    /\ UNCHANGED <<status, stats, aborted, clear, up, pc, raised, copy, retrying,
                   request, abort, history>>

\* raise_if_cancelled found the job cancelled.
RunnerCancelled(c, p) ==
    /\ At(c, p, "running")
    /\ child[c][p] = "cancelled"
    /\ Goto(c, p, "idle")
    /\ UNCHANGED <<durable, up, pc, raised, copy, retrying, request, abort, history>>

\* The runner raises: the job is failed only if it is still active.
RunnerRaises(c, p) ==
    /\ At(c, p, "running")
    /\ IF child[c][p] \in Active THEN Settle(c, p, "failed") ELSE UNCHANGED child
    /\ Goto(c, p, "idle")
    /\ UNCHANGED <<status, stats, aborted, clear, up, pc, raised, copy, retrying,
                   request, abort, history>>

Worker(c, p) ==
    \/ WorkerLoads(c, p) \/ WorkerSettles(c, p) \/ WorkerRefreshes(c, p)
    \/ WorkerUnchanged(c, p) \/ WorkerRaises(c, p) \/ RunnerStarts(c, p)
    \/ RunnerEnds(c, p) \/ RunnerCancelled(c, p) \/ RunnerRaises(c, p)

\* Mutant of CloseWindow: the window closes whether a cancel was accepted or not.
CloseWindowAlways(c) ==
    /\ up = "up" /\ pc[c] = "pulling"
    /\ \A p \in Providers : worker[c][p] = "idle"
    /\ pc' = [pc EXCEPT ![c] = "reconciling"]
    /\ stats' = [stats EXCEPT ![c] = @ \cup {"reconciling"}]
    /\ copy' = [copy EXCEPT ![c] = stats[c] \cup {"reconciling"}]
    /\ UNCHANGED <<status, child, aborted, clear, up, worker, raised, retrying,
                   request, abort, history>>

\* Every worker has settled: the parent row is locked and either its cancel is
\* seen or the window for one is closed.  The session keeps what it wrote.
CloseWindow(c) ==
    /\ up = "up" /\ pc[c] = "pulling"
    /\ \A p \in Providers : worker[c][p] = "idle"
    /\ IF "cancel_requested" \in stats[c]
       THEN /\ pc' = [pc EXCEPT ![c] = "closing"]
            /\ UNCHANGED <<stats, copy>>
       ELSE /\ pc' = [pc EXCEPT ![c] = "reconciling"]
            /\ stats' = [stats EXCEPT ![c] = @ \cup {"reconciling"}]
            /\ copy' = [copy EXCEPT ![c] = stats[c] \cup {"reconciling"}]
    /\ UNCHANGED <<status, child, aborted, clear, up, worker, raised, retrying,
                   request, abort, history>>

\* finalize: canonical changes and the accepted delivery commit together, the
\* delivery on top of the session's copy of the parent.
Finalize(c) ==
    /\ up = "up" /\ pc[c] = "reconciling" /\ UserLockFree
    /\ stats' = [stats EXCEPT ![c] = copy[c] \cup {"reconciled", "delivery_pending"}]
    /\ pc' = [pc EXCEPT ![c] = "delivering"]
    /\ copy' = [copy EXCEPT ![c] = {}]
    /\ UNCHANGED <<status, child, aborted, clear, up, worker, raised,
                   retrying, request, abort, history>>

\* finalize raises and rolls back.
FinalizeFails(c) ==
    /\ up = "up" /\ pc[c] = "reconciling" /\ UserLockFree
    /\ pc' = [pc EXCEPT ![c] = "closing"]
    /\ raised' = raised \cup {c}
    /\ copy' = [copy EXCEPT ![c] = {}]
    /\ UNCHANGED <<durable, up, worker, retrying, request, abort, history>>

\* _deliver_cycle acknowledges the last target.
Acknowledge(c) ==
    /\ up = "up"
    /\ pc[c] = "delivering" \/ c \in retrying
    /\ "delivery_pending" \in stats[c]
    /\ stats' = [stats EXCEPT ![c] = @ \ {"delivery_pending"}]
    /\ UNCHANGED <<status, child, aborted, clear, memory, history>>

\* deliver_cycle returns, or raises because a target is left.
EndDelivery(c) ==
    /\ up = "up" /\ pc[c] = "delivering"
    /\ pc' = [pc EXCEPT ![c] = "closing"]
    /\ raised' = IF "delivery_pending" \in stats[c] THEN raised \cup {c} ELSE raised
    /\ UNCHANGED <<durable, up, worker, copy, retrying, request, abort, history>>

\* Mutants of Close: the bulk update of the children is missing; the outcome is
\* computed from the children alone.
CloseKeepsChildren(c) ==
    LET cancelled == "cancel_requested" \in stats[c]
                        \/ \E p \in Providers : child[c][p] = "cancelled"
        failed == c \in raised \/ \E p \in Providers : child[c][p] = "failed"
    IN  /\ pc[c] = "closing" /\ UserLockFree
        /\ status' = [status EXCEPT ![c] = IF cancelled THEN "cancelled"
                                          ELSE IF failed THEN "failed" ELSE "completed"]
        /\ stats' = [stats EXCEPT ![c] = IF cancelled THEN @ \ {"followup_requested"} ELSE @]
        /\ pc' = [pc EXCEPT ![c] = "idle"]
        /\ raised' = raised \ {c}
        /\ UNCHANGED <<child, aborted, clear, up, worker, copy, retrying, request,
                       abort, history>>

CloseForgetsRaised(c) ==
    LET left == [p \in Providers |->
                    IF child[c][p] \in Active THEN "failed" ELSE child[c][p]]
        cancelled == "cancel_requested" \in stats[c]
                        \/ \E p \in Providers : left[p] = "cancelled"
        failed == \E p \in Providers : left[p] = "failed"
    IN  /\ pc[c] = "closing" /\ UserLockFree
        /\ child' = [child EXCEPT ![c] = left]
        /\ status' = [status EXCEPT ![c] = IF cancelled THEN "cancelled"
                                          ELSE IF failed THEN "failed" ELSE "completed"]
        /\ stats' = [stats EXCEPT ![c] = IF cancelled THEN @ \ {"followup_requested"} ELSE @]
        /\ pc' = [pc EXCEPT ![c] = "idle"]
        /\ raised' = raised \ {c}
        /\ UNCHANGED <<aborted, clear, up, worker, copy, retrying, request, abort, history>>

\* The finally block.
Close(c) ==
    LET left == [p \in Providers |->
                    IF child[c][p] \in Active THEN "failed" ELSE child[c][p]]
        cancelled == "cancel_requested" \in stats[c]
                        \/ \E p \in Providers : left[p] = "cancelled"
        failed == c \in raised \/ \E p \in Providers : left[p] = "failed"
    IN  /\ pc[c] = "closing" /\ UserLockFree
        /\ child' = [child EXCEPT ![c] = left]
        /\ status' = [status EXCEPT ![c] = IF cancelled THEN "cancelled"
                                          ELSE IF failed THEN "failed" ELSE "completed"]
        /\ stats' = [stats EXCEPT ![c] = IF cancelled THEN @ \ {"followup_requested"} ELSE @]
        /\ pc' = [pc EXCEPT ![c] = "idle"]
        /\ raised' = raised \ {c}
        /\ UNCHANGED <<aborted, clear, up, worker, copy, retrying, request, abort, history>>

Cycle(c) ==
    \/ MarkRunning(c) \/ EnterCycle(c) \/ EnterFails(c) \/ CloseWindow(c)
    \/ Finalize(c) \/ FinalizeFails(c) \/ EndDelivery(c) \/ Close(c)

---------------------------------------------------------------------------
(* The scheduler's delivery retry, the routes, and the process.            *)

\* retry_cycle_deliveries takes the cycle lock for a batch left pending.
BeginRetry(c) ==
    /\ up = "up" /\ CycleLockFree
    /\ status[c] \in {"failed", "completed"}
    /\ "delivery_pending" \in stats[c]
    /\ retrying' = {c}
    /\ UNCHANGED <<durable, up, pc, worker, raised, copy, request, abort, history>>

EndRetry(c) ==
    /\ up = "up" /\ c \in retrying
    /\ retrying' = retrying \ {c}
    /\ UNCHANGED <<durable, up, pc, worker, raised, copy, request, abort, history>>

\* Mutants: the window for a cancel never closes; the parent is cancelled at once
\* instead of when its workers have stopped.
CancellableAlways(c) == status[c] \in Active

\* request_cycle_cancel: the row is locked and read again; the parent stays
\* active, its children are cancelled.
Cancellable(c) == status[c] \in Active /\ "reconciling" \notin stats[c]

CancelCycle(c) ==
    /\ stats' = [stats EXCEPT ![c] = @ \cup {"cancel_requested"}]
    /\ child' = [child EXCEPT ![c] =
                    [p \in Providers |->
                        IF child[c][p] \in Active THEN "cancelled" ELSE child[c][p]]]
    /\ cancelAccepted' = cancelAccepted \cup {c}

CancelAtOnce(c) ==
    /\ up = "up" /\ Cancellable(c)
    /\ CancelCycle(c)
    /\ status' = [status EXCEPT ![c] = "cancelled"]
    /\ UNCHANGED <<aborted, clear, memory, asked>>

Cancel(c) ==
    /\ up = "up" /\ Cancellable(c)
    /\ CancelCycle(c)
    /\ UNCHANGED <<status, aborted, clear, memory, asked>>

\* abort_sync reads the active parents and the children it will leave to them.
AbortBegins ==
    /\ "abort" \in Enabled /\ up = "up" /\ abort = {}
    /\ abort' = {[seen |-> ActiveCycles, todo |-> ActiveCycles]}
    /\ UNCHANGED <<durable, up, pc, worker, raised, copy, retrying, request, history>>

\* Each parent is cancelled, or answers 409 and is skipped.
AbortCancels(a, c) ==
    /\ a \in abort /\ c \in a.todo
    /\ IF Cancellable(c) THEN CancelCycle(c) ELSE UNCHANGED <<stats, child, cancelAccepted>>
    /\ abort' = {[seen |-> a.seen, todo |-> a.todo \ {c}]}
    /\ UNCHANGED <<status, aborted, clear, up, pc, worker, raised, copy, retrying,
                   request, asked>>

\* The bulk update cancels every other active job but a running clear.
AbortEnds(a) ==
    /\ a \in abort /\ a.todo = {}
    /\ child' = [c \in Cycles |->
                    [p \in Providers |->
                        IF c \notin a.seen /\ child[c][p] \in Active
                        THEN "cancelled" ELSE child[c][p]]]
    /\ clear' = [p \in StreamProviders |->
                    IF clear[p] = "pending" THEN "cancelled" ELSE clear[p]]
    /\ abort' = {}
    /\ UNCHANGED <<status, stats, aborted, up, pc, worker, raised, copy, retrying,
                   request, history>>

\* reset_stream_connection_state refuses while a job of the connection runs and
\* cancels the queued ones.
SwitchConnection(p) ==
    /\ "switch" \in Enabled /\ up = "up"
    /\ \A c \in Cycles : child[c][p] # "running"
    /\ clear[p] # "running"
    /\ child' = [c \in Cycles |->
                    IF child[c][p] = "pending"
                    THEN [child[c] EXCEPT ![p] = "cancelled"] ELSE child[c]]
    /\ clear' = [clear EXCEPT ![p] = IF @ = "pending" THEN "cancelled" ELSE @]
    /\ UNCHANGED <<status, stats, aborted, memory, history>>

\* A graceful stop cancels every coroutine.  CancelledError passes the except
\* clauses of run_account_pull; the finally block still runs.
Shutdown ==
    /\ "shutdown" \in Enabled /\ up = "up"
    /\ request = {} /\ abort = {}
    /\ up' = "stopping"
    /\ pc' = [c \in Cycles |-> IF pc[c] \in {"starting", "pulling", "reconciling",
                                            "delivering", "closing"}
                               THEN "closing" ELSE "idle"]
    /\ worker' = [c \in Cycles |-> [p \in Providers |-> "idle"]]
    /\ copy' = [c \in Cycles |-> {}]
    /\ retrying' = {}
    /\ UNCHANGED <<durable, raised, request, abort, history>>

\* The process dies and starts again: memory is lost and lifespan fails every
\* job it finds active.
Restart ==
    LET Fail(s) == IF s \in Active THEN "failed" ELSE s
    IN  /\ status' = [c \in Cycles |-> Fail(status[c])]
        /\ child' = [c \in Cycles |-> [p \in Providers |-> Fail(child[c][p])]]
        /\ clear' = [p \in StreamProviders |-> Fail(clear[p])]
        /\ aborted' = aborted \cup ActiveCycles
        /\ up' = "up"
        /\ pc' = [c \in Cycles |-> "idle"]
        /\ worker' = [c \in Cycles |-> [p \in Providers |-> "idle"]]
        /\ raised' = {}
        /\ copy' = [c \in Cycles |-> {}]
        /\ retrying' = {}
        /\ request' = {}
        /\ abort' = {}
        /\ UNCHANGED <<stats, history>>

---------------------------------------------------------------------------
Admission ==
    \E j \in Cycles, T \in SUBSET Providers :
        QueuePull(j, T) \/ RequestStarts(j, T) \/ RetryAutomatic(j, T)

Next ==
    \/ Admission
    \/ \E c \in Cycles :
          \/ RequestReads(c) \/ RequestCoalesces(c)
          \/ Cycle(c) \/ Acknowledge(c)
          \/ BeginRetry(c) \/ EndRetry(c) \/ Cancel(c)
          \/ \E p \in Providers : Worker(c, p)
    \/ \E r \in request : RequestWrites(r)
    \/ \E p \in StreamProviders :
          \/ StartClear(p) \/ RunClear(p) \/ EndClear(p) \/ CancelClear(p)
          \/ SwitchConnection(p)
    \/ AbortBegins
    \/ \E a \in abort : AbortEnds(a) \/ \E c \in Cycles : AbortCancels(a, c)
    \/ Shutdown
    \/ Restart

Spec == Init /\ [][Next]_vars

(***************************************************************************)
(* Fairness: the event loop runs every coroutine that is ready, so each    *)
(* step of a worker, a request, an abort, a retry or a clear that stays    *)
(* possible is taken; the scheduler's 60 second tick calls                 *)
(* retry_automatic_pulls.  A cycle waits for the row of the user and for   *)
(* the cycle lock, both of which queue their waiters first come, first     *)
(* served: it needs strong fairness and gets it.  Nothing is assumed of    *)
(* users, of the restart or of acknowledgements by providers.              *)
(***************************************************************************)
Fairness ==
    /\ \A c \in Cycles :
          /\ SF_vars(Cycle(c))
          /\ WF_vars(EndRetry(c))
          /\ \A p \in Providers : WF_vars(Worker(c, p))
    /\ WF_vars(\E r \in request : RequestWrites(r))
    /\ WF_vars(\E a \in abort : AbortEnds(a) \/ \E c \in Cycles : AbortCancels(a, c))
    /\ WF_vars(\E j \in Cycles, T \in SUBSET Providers : RetryAutomatic(j, T))
    /\ \A p \in StreamProviders : WF_vars(RunClear(p)) /\ WF_vars(EndClear(p))

FairSpec == Spec /\ Fairness

---------------------------------------------------------------------------
(* Safety, under every interference.                                       *)

\* At most one cycle of the account is admitted at a time, and never beside a
\* provider clear: require_idle_account, the clear route and request consumption
\* agree although each reads the jobs on its own.
AdmissionExclusive ==
    /\ \A c, d \in ActiveCycles : c = d
    /\ ActiveCycles # {} => \A p \in StreamProviders : clear[p] \notin Active

\* "No worker may leave a pending child stranded after the cycle ends": whichever
\* way a cycle ends, none of its provider jobs is left pending or running.
NoStrandedChild ==
    \A c \in Cycles : status[c] \notin Active =>
        \A p \in Providers : child[c][p] \notin Active

\* "Keep admission locked until cancelled children have actually stopped": a worker
\* that still runs, cancelled or not, belongs to the one admitted cycle.
WorkersAdmitted ==
    \A c \in Cycles, p \in Providers : worker[c][p] # "idle" => status[c] = "running"

\* "Cancellation and closing its window serialize on this row": once the accepted
\* changes of a cycle are committed, no cancel of it is accepted any more, although
\* the whole stats value was rewritten by others in between.
CancelTooLate ==
    [][\A c \in Cycles : "reconciled" \in stats[c] /\ c \in cancelAccepted'
                            => c \in cancelAccepted]_vars

\* "Request consumption and the new job survive together": the follow-up of a cycle
\* that has ended is cleared only in a step that admits the cycle serving it, and
\* each ended cycle is served at most once.
FollowupServedOnce ==
    [][\A c \in Cycles :
          /\ status[c] \in Terminal /\ "followup_requested" \in stats[c] \ stats[c]'
                => \E j \in Cycles : status[j] = "none" /\ status'[j] = "pending"
          /\ "recovery_job_id" \in stats[c] =>
                "recovery_job_id" \in stats[c]' /\ "followup_requested" \notin stats[c]']_vars

(* The abstract specification that every run of cycles implements.           *)
Phase(c) ==
    IF status[c] = "none" THEN "none" ELSE IF status[c] \in Active THEN "open" ELSE "ended"

Abstract == INSTANCE PullCycles WITH
    phase    <- [c \in Cycles |-> Phase(c)],
    accepted <- {c \in Cycles : "reconciled" \in stats[c]}

\* Cycles are open one at a time, and what a cycle committed is never taken back,
\* whoever rewrites the row of the job.
CyclesImplemented == Abstract!Spec

(* Safety that holds only while some interference is absent; what happens    *)
(* when it is present is shown by the runs that expect a violation.          *)

\* A cancel that was accepted is honoured: the cycle neither commits canonical
\* changes nor ends as completed.  Needs the request not to be split.
CancelHonoured ==
    \A c \in cancelAccepted : "reconciled" \notin stats[c] /\ status[c] # "completed"

\* "A failure leaves the committed batch recoverable": the batch of a cycle that has
\* ended is one retry_cycle_deliveries selects.  Needs no job of the cycle to be
\* cancelled behind its back by a switch or by an abort, and the request not to be split.
DeliveryRetryable ==
    \A c \in Cycles : status[c] \in Terminal /\ "delivery_pending" \in stats[c] =>
        status[c] \in {"failed", "completed"}

\* A completed cycle did commit its accepted changes.  Needs no graceful stop and the
\* request not to be split.
CompletedReconciled ==
    \A c \in Cycles : status[c] = "completed" => "reconciled" \in stats[c]

\* "One follow-up includes all subsequent additions": a follow-up that was accepted
\* stands until it is served, unless the user cancels the cycle.
FollowupKept ==
    \A c \in asked \ cancelAccepted :
        stats[c] \cap {"followup_requested", "recovery_job_id"} # {}

(* Liveness under FairSpec.                                                  *)

\* A cycle that is admitted ends.
CycleEnds == \A c \in Cycles : status[c] \in Active ~> status[c] \in Terminal

\* A follow-up or an interrupted automatic cycle that is owed gets its cycle, as long
\* as an identity for one is left within the bound.
OwedServed ==
    \A c \in Cycles : Owed(c) ~>
        ("recovery_job_id" \in stats[c] \/ \A j \in Cycles : status[j] # "none")
=============================================================================
