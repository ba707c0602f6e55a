------------------------- MODULE AccountSync_proofs ------------------------
(***************************************************************************)
(* Proofs about AccountSync, for any sets of cycles and providers and any  *)
(* interference.                                                           *)
(***************************************************************************)
EXTENDS AccountSync, TLAPS

\* What a step of a worker may change: its position, its provider job and raised.
LEMMA WorkerFrame ==
    ASSUME NEW c \in Cycles, NEW p \in Providers, Worker(c, p)
    PROVE  /\ pc[c] = "pulling" /\ worker[c][p] # "idle"
           /\ \E w \in WorkerPositions : Goto(c, p, w)
           /\ \/ UNCHANGED child
              \/ child[c][p] = "pending" /\ Settle(c, p, "running")
              \/ \E s \in {"failed", "completed"} : Settle(c, p, s)
           /\ raised' \in {raised, raised \cup {c}}
           /\ UNCHANGED <<status, stats, aborted, clear, up, pc, copy, retrying,
                          request, abort, cancelAccepted, asked>>
<1> USE DEF At, WorkerPositions, durable, history
<1>1. CASE WorkerLoads(c, p)
  BY <1>1 DEF WorkerLoads
<1>2. CASE WorkerSettles(c, p)
  BY <1>2 DEF WorkerSettles
<1>3. CASE WorkerRefreshes(c, p)
  BY <1>3 DEF WorkerRefreshes
<1>4. CASE WorkerUnchanged(c, p)
  BY <1>4 DEF WorkerUnchanged
<1>5. CASE WorkerRaises(c, p)
  BY <1>5 DEF WorkerRaises
<1>6. CASE RunnerStarts(c, p)
  BY <1>6 DEF RunnerStarts
<1>7. CASE RunnerEnds(c, p)
  BY <1>7 DEF RunnerEnds
<1>8. CASE RunnerCancelled(c, p)
  BY <1>8 DEF RunnerCancelled
<1>9. CASE RunnerRaises(c, p)
  BY <1>9 DEF RunnerRaises
<1> QED
  BY <1>1, <1>2, <1>3, <1>4, <1>5, <1>6, <1>7, <1>8, <1>9 DEF Worker

\* The types are preserved by every step.
LEMMA TypeStep == TypeOK /\ [Next]_vars => TypeOK'
<1> SUFFICES ASSUME TypeOK, [Next]_vars PROVE TypeOK'
  OBVIOUS
<1> USE DEF TypeOK, Status, Active, Terminal, Flags, Positions, WorkerPositions,
            durable, memory, history
<1>1. ASSUME NEW j \in Cycles, NEW T \in SUBSET Providers, QueuePull(j, T) PROVE TypeOK'
  BY <1>1 DEF QueuePull, Admit
<1>2. ASSUME NEW j \in Cycles, NEW T \in SUBSET Providers, RequestStarts(j, T) PROVE TypeOK'
  BY <1>2 DEF RequestStarts, Admit
<1>3. ASSUME NEW j \in Cycles, NEW T \in SUBSET Providers, RetryAutomatic(j, T) PROVE TypeOK'
  BY <1>3 DEF RetryAutomatic, Admit
<1>4. ASSUME NEW c \in Cycles, RequestReads(c) PROVE TypeOK'
  BY <1>4 DEF RequestReads
<1>5. ASSUME NEW c \in Cycles, RequestCoalesces(c) PROVE TypeOK'
  BY <1>5 DEF RequestCoalesces
<1>6. ASSUME NEW r \in request, RequestWrites(r) PROVE TypeOK'
  BY <1>6 DEF RequestWrites
<1>7. ASSUME NEW p \in StreamProviders,
             StartClear(p) \/ RunClear(p) \/ EndClear(p) \/ CancelClear(p)
      PROVE TypeOK'
  BY <1>7 DEF StartClear, RunClear, EndClear, CancelClear
<1>8. ASSUME NEW c \in Cycles, MarkRunning(c) PROVE TypeOK'
  BY <1>8 DEF MarkRunning
<1>9. ASSUME NEW c \in Cycles, EnterCycle(c) PROVE TypeOK'
  <2>1. worker' \in [Cycles -> [Providers -> WorkerPositions]]
    BY <1>9 DEF EnterCycle
  <2> QED
    BY <1>9, <2>1 DEF EnterCycle
<1>10. ASSUME NEW c \in Cycles, EnterFails(c) PROVE TypeOK'
  BY <1>10 DEF EnterFails
<1>11. ASSUME NEW c \in Cycles, NEW p \in Providers, Worker(c, p) PROVE TypeOK'
  <2>1. child' \in [Cycles -> [Providers -> Status]]
    <3>1. child \in [Cycles -> [Providers -> Status]] /\ child[c] \in [Providers -> Status]
      OBVIOUS
    <3>2. ASSUME NEW s \in Status, Settle(c, p, s)
          PROVE  child' \in [Cycles -> [Providers -> Status]]
      BY <3>1, <3>2 DEF Settle
    <3> QED
      BY <1>11, <3>1, <3>2, WorkerFrame
  <2>2. worker' \in [Cycles -> [Providers -> WorkerPositions]]
    <3>1. /\ worker \in [Cycles -> [Providers -> WorkerPositions]]
          /\ worker[c] \in [Providers -> WorkerPositions]
      OBVIOUS
    <3>2. ASSUME NEW w \in WorkerPositions, Goto(c, p, w)
          PROVE  worker' \in [Cycles -> [Providers -> WorkerPositions]]
      BY <3>1, <3>2 DEF Goto
    <3> QED
      BY <1>11, <3>1, <3>2, WorkerFrame
  <2>3. raised' \subseteq Cycles
    BY <1>11, WorkerFrame
  <2> QED
    BY <1>11, <2>1, <2>2, <2>3, WorkerFrame
<1>12. ASSUME NEW c \in Cycles, CloseWindow(c) PROVE TypeOK'
  <2>1. CASE "cancel_requested" \in stats[c]
    BY <1>12, <2>1 DEF CloseWindow
  <2>2. CASE "cancel_requested" \notin stats[c]
    <3>1. stats[c] \cup {"reconciling"} \in SUBSET Flags
      OBVIOUS
    <3>2. stats' \in [Cycles -> SUBSET Flags]
      BY <1>12, <2>2, <3>1 DEF CloseWindow
    <3>3. copy' \in [Cycles -> SUBSET Flags]
      BY <1>12, <2>2, <3>1 DEF CloseWindow
    <3> QED
      BY <1>12, <2>2, <3>2, <3>3 DEF CloseWindow
  <2> QED
    BY <2>1, <2>2
<1>13. ASSUME NEW c \in Cycles, Finalize(c) PROVE TypeOK'
  BY <1>13 DEF Finalize
<1>14. ASSUME NEW c \in Cycles, FinalizeFails(c) PROVE TypeOK'
  BY <1>14 DEF FinalizeFails
<1>15. ASSUME NEW c \in Cycles, Acknowledge(c) PROVE TypeOK'
  BY <1>15 DEF Acknowledge
<1>16. ASSUME NEW c \in Cycles, EndDelivery(c) PROVE TypeOK'
  BY <1>16 DEF EndDelivery
<1>17. ASSUME NEW c \in Cycles, Close(c) PROVE TypeOK'
  BY <1>17 DEF Close
<1>18. ASSUME NEW c \in Cycles, BeginRetry(c) \/ EndRetry(c) PROVE TypeOK'
  BY <1>18 DEF BeginRetry, EndRetry
<1>19. ASSUME NEW c \in Cycles, Cancel(c) PROVE TypeOK'
  BY <1>19 DEF Cancel, CancelCycle
<1>20. CASE AbortBegins
  BY <1>20 DEF AbortBegins, ActiveCycles
<1>21. ASSUME NEW a \in abort, NEW c \in Cycles, AbortCancels(a, c) PROVE TypeOK'
  <2>1. abort' \subseteq [seen : SUBSET Cycles, todo : SUBSET Cycles]
    BY <1>21 DEF AbortCancels
  <2>2. /\ stats' \in [Cycles -> SUBSET Flags]
        /\ child' \in [Cycles -> [Providers -> Status]]
        /\ cancelAccepted' \subseteq Cycles
    <3>1. CASE CancelCycle(c)
      BY <3>1 DEF CancelCycle
    <3>2. CASE UNCHANGED <<stats, child, cancelAccepted>>
      BY <3>2
    <3> QED
      BY <1>21, <3>1, <3>2 DEF AbortCancels
  <2> QED
    BY <1>21, <2>1, <2>2 DEF AbortCancels
<1>22. ASSUME NEW a \in abort, AbortEnds(a) PROVE TypeOK'
  BY <1>22 DEF AbortEnds
<1>23. ASSUME NEW p \in StreamProviders, SwitchConnection(p) PROVE TypeOK'
  BY <1>23 DEF SwitchConnection
<1>24. CASE Shutdown
  BY <1>24 DEF Shutdown
<1>25. CASE Restart
  BY <1>25 DEF Restart, ActiveCycles
<1>26. CASE UNCHANGED vars
  BY <1>26 DEF vars
<1> QED
  BY <1>1, <1>2, <1>3, <1>4, <1>5, <1>6, <1>7, <1>8, <1>9, <1>10, <1>11, <1>12, <1>13,
     <1>14, <1>15, <1>16, <1>17, <1>18, <1>19, <1>20, <1>21, <1>22, <1>23, <1>24, <1>25,
     <1>26 DEF Next, Admission, Cycle

\* Every variable keeps its type.
THEOREM TypeCorrect == Spec => []TypeOK
<1>1. Init => TypeOK
  BY DEF Init, TypeOK, Status, Active, Terminal, Flags, Positions, WorkerPositions
<1> QED
  BY <1>1, TypeStep, PTL DEF Spec

---------------------------------------------------------------------------
(* Where a cycle is, and what its row says of it.                          *)

\* Steps that leave the row's status and every position of the cycles alone.
Bystander ==
    \/ \E c \in Cycles :
          \/ RequestReads(c) \/ RequestCoalesces(c) \/ Acknowledge(c)
          \/ BeginRetry(c) \/ EndRetry(c) \/ Cancel(c)
    \/ \E r \in request : RequestWrites(r)
    \/ \E p \in StreamProviders :
          \/ StartClear(p) \/ RunClear(p) \/ EndClear(p) \/ CancelClear(p)
          \/ SwitchConnection(p)
    \/ AbortBegins
    \/ \E a \in abort : AbortEnds(a) \/ \E c \in Cycles : AbortCancels(a, c)
    \/ UNCHANGED vars

LEMMA BystanderFrame == Bystander => UNCHANGED <<status, pc, worker, copy>>
  BY DEF Bystander, RequestReads, RequestCoalesces, Acknowledge, BeginRetry, EndRetry,
     Cancel, RequestWrites, StartClear, RunClear, EndClear, CancelClear, SwitchConnection,
     AbortBegins, AbortEnds, AbortCancels, vars, durable, memory

\* A coroutine past its queue position belongs to a running row, and workers run only
\* while their cycle pulls.
PositionsOK ==
    \A c \in Cycles :
        /\ pc[c] \notin {"idle", "queued"} => status[c] = "running"
        /\ \A p \in Providers : worker[c][p] # "idle" => pc[c] = "pulling"

\* Position and status agree after every step.
LEMMA PositionsStep == TypeOK /\ PositionsOK /\ [Next]_vars => PositionsOK'
<1> SUFFICES ASSUME TypeOK, PositionsOK, [Next]_vars PROVE PositionsOK'
  OBVIOUS
<1> USE DEF TypeOK, PositionsOK, Status, Active, Terminal, Positions, durable, memory
<1>1. CASE Bystander
  BY <1>1, BystanderFrame
<1>2. ASSUME NEW j \in Cycles, NEW T \in SUBSET Providers,
             QueuePull(j, T) \/ RequestStarts(j, T) \/ RetryAutomatic(j, T)
      PROVE PositionsOK'
  BY <1>2 DEF QueuePull, RequestStarts, RetryAutomatic, Admit
<1>3. ASSUME NEW c \in Cycles, MarkRunning(c) PROVE PositionsOK'
  <2>1. CASE status[c] = "pending"
    <3>1. /\ pc[c] = "queued" /\ pc'[c] = "starting" /\ status'[c] = "running"
          /\ \A d \in Cycles \ {c} : pc'[d] = pc[d] /\ status'[d] = status[d]
          /\ worker' = worker
      BY <1>3, <2>1 DEF MarkRunning
    <3> QED
      BY <3>1
  <2>2. CASE status[c] # "pending"
    BY <1>3, <2>2 DEF MarkRunning
  <2> QED
    BY <2>1, <2>2
<1>4. ASSUME NEW c \in Cycles, EnterCycle(c) PROVE PositionsOK'
  BY <1>4 DEF EnterCycle
<1>5. ASSUME NEW c \in Cycles, EnterFails(c) \/ FinalizeFails(c) \/ Finalize(c)
                                \/ EndDelivery(c)
      PROVE PositionsOK'
  <2>1. /\ pc[c] \notin {"idle", "queued", "pulling"}
        /\ pc'[c] \in {"delivering", "closing"}
        /\ \A d \in Cycles \ {c} : pc'[d] = pc[d]
        /\ UNCHANGED <<status, worker>>
    BY <1>5 DEF EnterFails, FinalizeFails, Finalize, EndDelivery
  <2> QED
    BY <2>1
<1>6. ASSUME NEW c \in Cycles, NEW p \in Providers, Worker(c, p) PROVE PositionsOK'
  BY <1>6, WorkerFrame DEF Goto
<1>7. ASSUME NEW c \in Cycles, CloseWindow(c) PROVE PositionsOK'
  BY <1>7 DEF CloseWindow
<1>8. ASSUME NEW c \in Cycles, Close(c) PROVE PositionsOK'
  BY <1>8 DEF Close
<1>9. CASE Shutdown
  BY <1>9 DEF Shutdown
<1>10. CASE Restart
  BY <1>10 DEF Restart
<1> QED
  BY <1>1, <1>2, <1>3, <1>4, <1>5, <1>6, <1>7, <1>8, <1>9, <1>10
     DEF Next, Admission, Cycle, Bystander

LEMMA PositionsInvariant == Spec => [](TypeOK /\ PositionsOK)
<1>1. Init => TypeOK /\ PositionsOK
  BY DEF Init, TypeOK, PositionsOK, Status, Active, Terminal, Flags, Positions,
     WorkerPositions
<1> QED
  BY <1>1, TypeStep, PositionsStep, PTL DEF Spec

\* "Keep admission locked until cancelled children have actually stopped": no worker
\* outlives the running row of its cycle, however it was cancelled.
THEOREM WorkersAdmittedTheorem == Spec => []WorkersAdmitted
<1>1. PositionsOK => WorkersAdmitted
  BY DEF PositionsOK, WorkersAdmitted
<1> QED
  BY <1>1, PositionsInvariant, PTL

---------------------------------------------------------------------------
(* Admission.                                                              *)

\* Cycles exclude each other and the clears after every step.
LEMMA AdmissionStep ==
    TypeOK /\ PositionsOK /\ AdmissionExclusive /\ [Next]_vars => AdmissionExclusive'
<1> SUFFICES ASSUME TypeOK, PositionsOK, AdmissionExclusive, [Next]_vars
             PROVE  AdmissionExclusive'
  OBVIOUS
<1> USE DEF AdmissionExclusive, ActiveCycles, Active
<1>1. ASSUME UNCHANGED <<status, clear>> PROVE AdmissionExclusive'
  BY <1>1
<1>2. ASSUME NEW j \in Cycles, NEW T \in SUBSET Providers,
             QueuePull(j, T) \/ RequestStarts(j, T) \/ RetryAutomatic(j, T)
      PROVE AdmissionExclusive'
  BY <1>2 DEF QueuePull, RequestStarts, RetryAutomatic, Admit, Idle, TypeOK
<1>3. ASSUME NEW p \in StreamProviders,
             StartClear(p) \/ RunClear(p) \/ EndClear(p) \/ CancelClear(p)
                \/ SwitchConnection(p)
      PROVE AdmissionExclusive'
  BY <1>3 DEF StartClear, RunClear, EndClear, CancelClear, SwitchConnection, TypeOK
<1>4. ASSUME NEW c \in Cycles, MarkRunning(c) \/ Close(c) PROVE AdmissionExclusive'
  BY <1>4 DEF MarkRunning, Close, TypeOK, PositionsOK
<1>5. ASSUME NEW a \in abort, AbortEnds(a) PROVE AdmissionExclusive'
  BY <1>5 DEF AbortEnds, TypeOK
<1>6. CASE Restart
  BY <1>6 DEF Restart, TypeOK
<1>7. ASSUME NEW c \in Cycles,
             \/ RequestReads(c) \/ RequestCoalesces(c) \/ Acknowledge(c)
             \/ BeginRetry(c) \/ EndRetry(c) \/ Cancel(c) \/ EnterCycle(c)
             \/ EnterFails(c) \/ CloseWindow(c) \/ Finalize(c) \/ FinalizeFails(c)
             \/ EndDelivery(c) \/ \E p \in Providers : Worker(c, p)
             \/ \E a \in abort : AbortCancels(a, c)
      PROVE UNCHANGED <<status, clear>>
  BY <1>7, WorkerFrame DEF RequestReads, RequestCoalesces, Acknowledge, BeginRetry,
     EndRetry, Cancel, EnterCycle, EnterFails, CloseWindow, Finalize, FinalizeFails,
     EndDelivery, AbortCancels, durable
<1>8. ASSUME \/ \E r \in request : RequestWrites(r)
             \/ AbortBegins \/ Shutdown \/ UNCHANGED vars
      PROVE UNCHANGED <<status, clear>>
  BY <1>8 DEF RequestWrites, AbortBegins, Shutdown, vars, durable
<1> QED
  BY <1>1, <1>2, <1>3, <1>4, <1>5, <1>6, <1>7, <1>8 DEF Next, Admission, Cycle

\* At most one cycle of the account is admitted, and never beside a clear.
THEOREM AdmissionTheorem == Spec => []AdmissionExclusive
<1>1. Init => AdmissionExclusive
  BY DEF Init, AdmissionExclusive, ActiveCycles, Active
<1> QED
  BY <1>1, AdmissionStep, PositionsInvariant, PTL DEF Spec

---------------------------------------------------------------------------
(* The provider jobs of a cycle that has ended.                            *)

\* Nothing active is left below a row that is not active after any step.
LEMMA StrandedStep ==
    TypeOK /\ PositionsOK /\ NoStrandedChild /\ [Next]_vars => NoStrandedChild'
<1> SUFFICES ASSUME TypeOK, PositionsOK, NoStrandedChild, [Next]_vars
             PROVE  NoStrandedChild'
  OBVIOUS
<1> USE DEF NoStrandedChild, Active
<1>1. ASSUME UNCHANGED <<status, child>> PROVE NoStrandedChild'
  BY <1>1
<1>2. ASSUME NEW j \in Cycles, NEW T \in SUBSET Providers,
             QueuePull(j, T) \/ RequestStarts(j, T) \/ RetryAutomatic(j, T)
      PROVE NoStrandedChild'
  BY <1>2 DEF QueuePull, RequestStarts, RetryAutomatic, Admit, TypeOK
<1>3. ASSUME NEW c \in Cycles, MarkRunning(c) PROVE NoStrandedChild'
  <2>1. /\ child' = child
        /\ \A d \in Cycles : status'[d] \notin Active => status[d] \notin Active
    BY <1>3 DEF MarkRunning, TypeOK
  <2> QED
    BY <2>1
<1>4. ASSUME NEW c \in Cycles, NEW p \in Providers, Worker(c, p) PROVE NoStrandedChild'
  <2>1. status' = status /\ status[c] = "running"
    BY <1>4, WorkerFrame DEF PositionsOK
  <2>2. \A d \in Cycles \ {c} : child'[d] = child[d]
    BY <1>4, WorkerFrame DEF Settle, TypeOK
  <2> QED
    BY <2>1, <2>2
<1>5. ASSUME NEW c \in Cycles, Close(c) PROVE NoStrandedChild'
  BY <1>5 DEF Close, TypeOK
<1>6. ASSUME NEW c \in Cycles, Cancel(c) \/ \E a \in abort : AbortCancels(a, c)
      PROVE NoStrandedChild'
  <2>1. CASE CancelCycle(c) /\ status' = status
    BY <2>1 DEF CancelCycle, TypeOK
  <2> QED
    BY <1>1, <1>6, <2>1 DEF Cancel, AbortCancels
<1>7. ASSUME NEW a \in abort, AbortEnds(a) PROVE NoStrandedChild'
  BY <1>7 DEF AbortEnds, TypeOK
<1>8. ASSUME NEW p \in StreamProviders, SwitchConnection(p) PROVE NoStrandedChild'
  <2>1. /\ status' = status
        /\ \A c \in Cycles, q \in Providers :
              child'[c][q] = child[c][q] \/ child'[c][q] = "cancelled"
    BY <1>8 DEF SwitchConnection, TypeOK
  <2> QED
    BY <2>1
<1>9. CASE Restart
  <2>1. \A c \in Cycles, p \in Providers : child'[c][p] \notin Active
    BY <1>9 DEF Restart, TypeOK
  <2> QED
    BY <2>1
<1>10. ASSUME NEW c \in Cycles,
              \/ RequestReads(c) \/ RequestCoalesces(c) \/ Acknowledge(c)
              \/ BeginRetry(c) \/ EndRetry(c) \/ EnterCycle(c)
              \/ EnterFails(c) \/ CloseWindow(c) \/ Finalize(c) \/ FinalizeFails(c)
              \/ EndDelivery(c)
       PROVE UNCHANGED <<status, child>>
  BY <1>10 DEF RequestReads, RequestCoalesces, Acknowledge, BeginRetry, EndRetry,
     EnterCycle, EnterFails, CloseWindow, Finalize, FinalizeFails, EndDelivery, durable
<1>11. ASSUME \/ \E r \in request : RequestWrites(r)
              \/ AbortBegins \/ Shutdown \/ UNCHANGED vars
              \/ \E p \in StreamProviders :
                    StartClear(p) \/ RunClear(p) \/ EndClear(p) \/ CancelClear(p)
       PROVE UNCHANGED <<status, child>>
  BY <1>11 DEF RequestWrites, AbortBegins, Shutdown, StartClear, RunClear, EndClear,
     CancelClear, vars, durable
<1> QED
  BY <1>1, <1>2, <1>3, <1>4, <1>5, <1>6, <1>7, <1>8, <1>9, <1>10, <1>11
     DEF Next, Admission, Cycle

\* "No worker may leave a pending child stranded after the cycle ends."
THEOREM NoStrandedChildTheorem == Spec => []NoStrandedChild
<1>1. Init => NoStrandedChild
  BY DEF Init, NoStrandedChild, Active
<1> QED
  BY <1>1, StrandedStep, PositionsInvariant, PTL DEF Spec

---------------------------------------------------------------------------
(* The flags of a row, and the snapshots of them that are written back.    *)

\* A reconciled row has closed its window; only a row that has ended is served, and
\* its follow-up goes with that; a row that was never admitted has no flags.
RowOK(c) ==
    /\ "reconciled" \in stats[c] => "reconciling" \in stats[c]
    /\ "recovery_job_id" \in stats[c] =>
          status[c] \in Terminal /\ "followup_requested" \notin stats[c]
    /\ status[c] = "none" => stats[c] = {}
    /\ pc[c] = "reconciling" =>
          "reconciling" \in copy[c] /\ "recovery_job_id" \notin copy[c]

\* What a request in flight has read is stale in no flag that survives the cycle.
RequestOK(r) ==
    /\ status[r.cycle] \in Active
    /\ "reconciled" \in r.seen <=> "reconciled" \in stats[r.cycle]
    /\ "reconciled" \in r.seen => "reconciling" \in r.seen
    /\ "recovery_job_id" \notin r.seen

FlagsOK ==
    /\ \A c \in Cycles : RowOK(c)
    /\ \A r \in request : RequestOK(r)

\* The rows and the snapshots stay consistent in every step.
LEMMA FlagsStep == TypeOK /\ PositionsOK /\ FlagsOK /\ [Next]_vars => FlagsOK'
<1> SUFFICES ASSUME TypeOK, PositionsOK, FlagsOK, [Next]_vars PROVE FlagsOK'
  OBVIOUS
<1> USE DEF FlagsOK, RowOK, RequestOK, Active, Terminal
<1>0. /\ status \in [Cycles -> Status] /\ stats \in [Cycles -> SUBSET Flags]
      /\ pc \in [Cycles -> Positions] /\ copy \in [Cycles -> SUBSET Flags]
      /\ \A r \in request : r.cycle \in Cycles
  BY DEF TypeOK
<1>1. ASSUME UNCHANGED <<status, stats, pc, copy, request>> PROVE FlagsOK'
  BY <1>1
<1>2. ASSUME NEW j \in Cycles, NEW T \in SUBSET Providers,
             QueuePull(j, T) \/ RequestStarts(j, T)
      PROVE FlagsOK'
  BY <1>0, <1>2 DEF QueuePull, RequestStarts, Admit, UserLockFree
<1>3. ASSUME NEW j \in Cycles, NEW T \in SUBSET Providers, RetryAutomatic(j, T)
      PROVE FlagsOK'
  BY <1>0, <1>3 DEF RetryAutomatic, Admit, Owed, UserLockFree
<1>4. ASSUME NEW c \in Cycles, RequestReads(c) PROVE FlagsOK'
  BY <1>0, <1>4 DEF RequestReads, durable
<1>5. ASSUME NEW r \in request, RequestWrites(r) PROVE FlagsOK'
  BY <1>0, <1>5 DEF RequestWrites
<1>6. ASSUME NEW c \in Cycles, RequestCoalesces(c) PROVE FlagsOK'
  BY <1>0, <1>6 DEF RequestCoalesces, memory
<1>7. ASSUME NEW c \in Cycles, MarkRunning(c) PROVE FlagsOK'
  <2>1. CASE status[c] = "pending"
    BY <1>0, <1>7, <2>1 DEF MarkRunning
  <2>2. CASE status[c] # "pending"
    BY <1>0, <1>7, <2>2 DEF MarkRunning
  <2> QED
    BY <2>1, <2>2
<1>8. ASSUME NEW c \in Cycles, EnterCycle(c) \/ EnterFails(c) \/ EndDelivery(c)
      PROVE FlagsOK'
  <2>1. /\ pc'[c] # "reconciling"
        /\ \A d \in Cycles \ {c} : pc'[d] = pc[d]
        /\ UNCHANGED <<status, stats, copy, request>>
    BY <1>0, <1>8 DEF EnterCycle, EnterFails, EndDelivery, durable
  <2> QED
    BY <2>1
<1>9. ASSUME NEW c \in Cycles, CloseWindow(c) PROVE FlagsOK'
  <2>1. CASE "cancel_requested" \in stats[c]
    BY <1>0, <1>9, <2>1 DEF CloseWindow
  <2>2. CASE "cancel_requested" \notin stats[c]
    BY <1>0, <1>9, <2>2 DEF CloseWindow, PositionsOK
  <2> QED
    BY <2>1, <2>2
<1>10. ASSUME NEW c \in Cycles, Finalize(c) PROVE FlagsOK'
  BY <1>0, <1>10 DEF Finalize, UserLockFree, PositionsOK
<1>11. ASSUME NEW c \in Cycles, FinalizeFails(c) PROVE FlagsOK'
  BY <1>0, <1>11 DEF FinalizeFails, durable
<1>12. ASSUME NEW c \in Cycles, Acknowledge(c) PROVE FlagsOK'
  BY <1>0, <1>12 DEF Acknowledge, memory
<1>13. ASSUME NEW c \in Cycles, Close(c) PROVE FlagsOK'
  BY <1>0, <1>13 DEF Close, UserLockFree, PositionsOK
<1>14. ASSUME NEW c \in Cycles, Cancel(c) \/ \E a \in abort : AbortCancels(a, c)
       PROVE FlagsOK'
  <2>1. CASE CancelCycle(c) /\ Cancellable(c) /\ UNCHANGED <<status, pc, copy, request>>
    BY <1>0, <2>1 DEF CancelCycle, Cancellable
  <2> QED
    BY <1>1, <1>14, <2>1 DEF Cancel, AbortCancels, memory
<1>15. CASE Shutdown
  BY <1>0, <1>15 DEF Shutdown, durable
<1>16. CASE Restart
  BY <1>0, <1>16 DEF Restart
<1>17. ASSUME NEW c \in Cycles,
              BeginRetry(c) \/ EndRetry(c) \/ \E p \in Providers : Worker(c, p)
       PROVE UNCHANGED <<status, stats, pc, copy, request>>
  BY <1>17, WorkerFrame DEF BeginRetry, EndRetry, durable
<1>18. ASSUME \/ AbortBegins \/ UNCHANGED vars \/ \E a \in abort : AbortEnds(a)
              \/ \E p \in StreamProviders :
                    \/ StartClear(p) \/ RunClear(p) \/ EndClear(p) \/ CancelClear(p)
                    \/ SwitchConnection(p)
       PROVE UNCHANGED <<status, stats, pc, copy, request>>
  BY <1>18 DEF AbortBegins, AbortEnds, StartClear, RunClear, EndClear, CancelClear,
     SwitchConnection, vars, durable, memory
<1> QED
  BY <1>1, <1>2, <1>3, <1>4, <1>5, <1>6, <1>7, <1>8, <1>9, <1>10, <1>11, <1>12, <1>13,
     <1>14, <1>15, <1>16, <1>17, <1>18 DEF Next, Admission, Cycle

LEMMA FlagsInvariant == Spec => [](TypeOK /\ PositionsOK /\ FlagsOK)
<1>1. Init => FlagsOK
  BY DEF Init, FlagsOK, RowOK, RequestOK
<1> QED
  BY <1>1, FlagsStep, PositionsInvariant, PTL DEF Spec

\* "Cancellation and closing its window serialize on this row": a cycle whose changes
\* are committed accepts no cancel any more.
THEOREM CancelTooLateTheorem == Spec => CancelTooLate
<1>1. ASSUME FlagsOK, [Next]_vars, NEW c \in Cycles, "reconciled" \in stats[c],
             c \in cancelAccepted'
      PROVE  c \in cancelAccepted
  <2>1. ~Cancellable(c)
    BY <1>1 DEF FlagsOK, RowOK, Cancellable
  <2>2. ASSUME NEW d \in Cycles, Cancel(d) \/ \E a \in abort : AbortCancels(a, d)
        PROVE  c \in cancelAccepted
    BY <1>1, <2>1, <2>2 DEF Cancel, AbortCancels, CancelCycle
  <2>3. ASSUME NEW d \in Cycles, Cycle(d) \/ Acknowledge(d) \/ BeginRetry(d) \/ EndRetry(d)
                                  \/ RequestReads(d) \/ RequestCoalesces(d)
                                  \/ \E p \in Providers : Worker(d, p)
        PROVE  cancelAccepted' = cancelAccepted
    BY <2>3, WorkerFrame DEF Cycle, MarkRunning, EnterCycle, EnterFails, CloseWindow,
       Finalize, FinalizeFails, EndDelivery, Close, Acknowledge, BeginRetry, EndRetry,
       RequestReads, RequestCoalesces, history
  <2>4. ASSUME \/ Admission \/ AbortBegins \/ Shutdown \/ Restart \/ UNCHANGED vars
               \/ \E r \in request : RequestWrites(r)
               \/ \E a \in abort : AbortEnds(a)
               \/ \E p \in StreamProviders :
                     \/ StartClear(p) \/ RunClear(p) \/ EndClear(p) \/ CancelClear(p)
                     \/ SwitchConnection(p)
        PROVE  cancelAccepted' = cancelAccepted
    BY <2>4 DEF Admission, QueuePull, RequestStarts, RetryAutomatic, AbortBegins, Shutdown,
       Restart, RequestWrites, AbortEnds, StartClear, RunClear, EndClear, CancelClear,
       SwitchConnection, vars, history
  <2> QED
    BY <1>1, <2>2, <2>3, <2>4 DEF Next
<1>2. FlagsOK /\ [Next]_vars =>
        [\A c \in Cycles : "reconciled" \in stats[c] /\ c \in cancelAccepted'
                            => c \in cancelAccepted]_vars
  BY <1>1
<1> QED
  BY <1>2, FlagsInvariant, PTL DEF Spec, CancelTooLate

\* What a step may do to the flags of a cycle that has ended.
LEMMA EndedStep ==
    ASSUME TypeOK, PositionsOK, FlagsOK, [Next]_vars, NEW c \in Cycles, status[c] \in Terminal
    PROVE  \/ stats'[c] \in {stats[c], stats[c] \ {"delivery_pending"}}
           \/ /\ \E j \in Cycles : status[j] = "none" /\ status'[j] = "pending"
              /\ Owed(c) /\ "recovery_job_id" \notin stats[c]
<1> USE DEF Terminal
<1>0. status \in [Cycles -> Status] /\ stats \in [Cycles -> SUBSET Flags]
  BY DEF TypeOK
<1>1. ASSUME NEW j \in Cycles, NEW T \in SUBSET Providers,
             QueuePull(j, T) \/ RequestStarts(j, T)
      PROVE  stats'[c] = stats[c]
  BY <1>0, <1>1 DEF QueuePull, RequestStarts, Admit
<1>2. ASSUME NEW j \in Cycles, NEW T \in SUBSET Providers, RetryAutomatic(j, T)
      PROVE  /\ status[j] = "none" /\ status'[j] = "pending"
             /\ \/ stats'[c] = stats[c]
                \/ Owed(c) /\ "recovery_job_id" \notin stats[c]
  BY <1>0, <1>2 DEF RetryAutomatic, Admit, Owed
<1>3. ASSUME NEW r \in request, RequestWrites(r) PROVE stats'[c] = stats[c]
  BY <1>0, <1>3 DEF RequestWrites, FlagsOK, RequestOK, Active
<1>4. ASSUME NEW d \in Cycles,
             \/ RequestCoalesces(d) \/ CloseWindow(d) \/ Finalize(d) \/ Close(d)
             \/ Cancel(d) \/ \E a \in abort : AbortCancels(a, d)
      PROVE  stats'[c] = stats[c]
  <2>1. CASE status[d] \in Active
    <3>1. d # c
      BY <2>1 DEF Active
    <3> QED
      BY <1>0, <1>4, <3>1 DEF RequestCoalesces, CloseWindow, Finalize, Close, Cancel,
         CancelCycle, AbortCancels
  <2>2. CASE status[d] \notin Active
    <3>1. ~Cancellable(d) /\ pc[d] \in {"idle", "queued"}
      BY <2>2 DEF Cancellable, PositionsOK, Active
    <3> QED
      BY <1>4, <2>2, <3>1 DEF RequestCoalesces, CloseWindow, Finalize, Close, Cancel,
         AbortCancels
  <2> QED
    BY <2>1, <2>2
<1>5. ASSUME NEW d \in Cycles, Acknowledge(d)
      PROVE  stats'[c] \in {stats[c], stats[c] \ {"delivery_pending"}}
  BY <1>0, <1>5 DEF Acknowledge
<1>6. ASSUME NEW d \in Cycles,
             \/ RequestReads(d) \/ MarkRunning(d) \/ EnterCycle(d) \/ EnterFails(d)
             \/ FinalizeFails(d) \/ EndDelivery(d) \/ BeginRetry(d) \/ EndRetry(d)
             \/ \E p \in Providers : Worker(d, p)
      PROVE  stats' = stats
  BY <1>6, WorkerFrame DEF RequestReads, MarkRunning, EnterCycle, EnterFails, FinalizeFails,
     EndDelivery, BeginRetry, EndRetry, durable
<1>7. ASSUME \/ AbortBegins \/ Shutdown \/ Restart \/ UNCHANGED vars
             \/ \E a \in abort : AbortEnds(a)
             \/ \E p \in StreamProviders :
                   \/ StartClear(p) \/ RunClear(p) \/ EndClear(p) \/ CancelClear(p)
                   \/ SwitchConnection(p)
      PROVE  stats' = stats
  BY <1>7 DEF AbortBegins, Shutdown, Restart, AbortEnds, StartClear, RunClear, EndClear,
     CancelClear, SwitchConnection, vars, durable
<1> QED
  BY <1>1, <1>2, <1>3, <1>4, <1>5, <1>6, <1>7 DEF Next, Admission, Cycle

\* "Request consumption and the new job survive together": the follow-up of an ended
\* cycle is cleared only by the step that admits its cycle, and only once.
THEOREM FollowupServedOnceTheorem == Spec => FollowupServedOnce
<1>1. ASSUME TypeOK, PositionsOK, FlagsOK, [Next]_vars, NEW c \in Cycles
      PROVE  /\ status[c] \in Terminal /\ "followup_requested" \in stats[c] \ stats'[c]
                   => \E j \in Cycles : status[j] = "none" /\ status'[j] = "pending"
             /\ "recovery_job_id" \in stats[c] =>
                   "recovery_job_id" \in stats'[c] /\ "followup_requested" \notin stats'[c]
  <2>1. "recovery_job_id" \in stats[c] =>
            status[c] \in Terminal /\ "followup_requested" \notin stats[c]
    BY <1>1 DEF FlagsOK, RowOK
  <2>2. status[c] \in Terminal =>
            \/ stats'[c] \in {stats[c], stats[c] \ {"delivery_pending"}}
            \/ /\ \E j \in Cycles : status[j] = "none" /\ status'[j] = "pending"
               /\ "recovery_job_id" \notin stats[c]
    BY <1>1, EndedStep
  <2> QED
    BY <2>1, <2>2
<1>2. TypeOK /\ PositionsOK /\ FlagsOK /\ [Next]_vars =>
        [\A c \in Cycles :
          /\ status[c] \in Terminal /\ "followup_requested" \in stats[c] \ stats[c]'
                => \E j \in Cycles : status[j] = "none" /\ status'[j] = "pending"
          /\ "recovery_job_id" \in stats[c] =>
                "recovery_job_id" \in stats[c]' /\ "followup_requested" \notin stats[c]']_vars
  BY <1>1
<1> QED
  BY <1>2, FlagsInvariant, PTL DEF Spec, FollowupServedOnce

---------------------------------------------------------------------------
(* The abstract specification.                                             *)

\* Only the row of an active cycle becomes reconciled, and no row stops being so.
LEMMA AcceptedStep ==
    ASSUME TypeOK, PositionsOK, FlagsOK, [Next]_vars, NEW c \in Cycles
    PROVE  /\ "reconciled" \in stats[c] => "reconciled" \in stats'[c]
           /\ "reconciled" \in stats'[c] \ stats[c] =>
                 /\ status[c] = "running" /\ status' = status
                 /\ \A d \in Cycles \ {c} : stats'[d] = stats[d]
<1> USE DEF FlagsOK, RowOK, RequestOK
<1>0. /\ status \in [Cycles -> Status] /\ stats \in [Cycles -> SUBSET Flags]
      /\ \A r \in request : r.cycle \in Cycles
  BY DEF TypeOK
<1>1. ASSUME NEW j \in Cycles, NEW T \in SUBSET Providers,
             QueuePull(j, T) \/ RequestStarts(j, T) \/ RetryAutomatic(j, T)
      PROVE  "reconciled" \in stats[c] <=> "reconciled" \in stats'[c]
  BY <1>0, <1>1 DEF QueuePull, RequestStarts, RetryAutomatic, Admit
<1>2. ASSUME NEW d \in Cycles, Finalize(d)
      PROVE  /\ status[d] = "running" /\ status' = status
             /\ "reconciled" \in stats'[d]
             /\ \A e \in Cycles \ {d} : stats'[e] = stats[e]
  BY <1>0, <1>2 DEF Finalize, PositionsOK
<1>3. ASSUME NEW r \in request, RequestWrites(r)
      PROVE  "reconciled" \in stats[c] <=> "reconciled" \in stats'[c]
  BY <1>0, <1>3 DEF RequestWrites
<1>4. ASSUME NEW d \in Cycles,
             \/ RequestCoalesces(d) \/ CloseWindow(d) \/ Acknowledge(d) \/ Close(d)
             \/ Cancel(d) \/ \E a \in abort : AbortCancels(a, d)
      PROVE  "reconciled" \in stats[c] <=> "reconciled" \in stats'[c]
  BY <1>0, <1>4 DEF RequestCoalesces, CloseWindow, Acknowledge, Close, Cancel, CancelCycle,
     AbortCancels
<1>5. ASSUME NEW d \in Cycles,
             \/ RequestReads(d) \/ MarkRunning(d) \/ EnterCycle(d) \/ EnterFails(d)
             \/ FinalizeFails(d) \/ EndDelivery(d) \/ BeginRetry(d) \/ EndRetry(d)
             \/ \E p \in Providers : Worker(d, p)
      PROVE  stats' = stats
  BY <1>5, WorkerFrame DEF RequestReads, MarkRunning, EnterCycle, EnterFails, FinalizeFails,
     EndDelivery, BeginRetry, EndRetry, durable
<1>6. ASSUME \/ AbortBegins \/ Shutdown \/ Restart \/ UNCHANGED vars
             \/ \E a \in abort : AbortEnds(a)
             \/ \E p \in StreamProviders :
                   \/ StartClear(p) \/ RunClear(p) \/ EndClear(p) \/ CancelClear(p)
                   \/ SwitchConnection(p)
      PROVE  stats' = stats
  BY <1>6 DEF AbortBegins, Shutdown, Restart, AbortEnds, StartClear, RunClear, EndClear,
     CancelClear, SwitchConnection, vars, durable
<1> QED
  BY <1>1, <1>2, <1>3, <1>4, <1>5, <1>6 DEF Next, Admission, Cycle

\* How the status of a row may change in one step.
LEMMA StatusStep ==
    ASSUME TypeOK, PositionsOK, [Next]_vars
    PROVE  \/ \A c \in Cycles : Phase(c)' = Phase(c)
           \/ \E c \in Cycles :
                 /\ Phase(c) = "none" /\ Phase(c)' = "open" /\ ActiveCycles = {}
                 /\ \A d \in Cycles \ {c} : Phase(d)' = Phase(d)
           \/ \E c \in Cycles :
                 /\ Phase(c) = "open" /\ Phase(c)' = "ended" /\ stats'[c] \subseteq stats[c]
                 /\ \A d \in Cycles \ {c} : Phase(d)' = Phase(d)
           \/ Restart
<1> USE DEF Phase, Active, TypeOK, Status, Terminal
<1>1. ASSUME UNCHANGED status PROVE \A c \in Cycles : Phase(c)' = Phase(c)
  BY <1>1
<1>2. ASSUME NEW j \in Cycles, NEW T \in SUBSET Providers,
             QueuePull(j, T) \/ RequestStarts(j, T) \/ RetryAutomatic(j, T)
      PROVE  /\ Phase(j) = "none" /\ Phase(j)' = "open" /\ ActiveCycles = {}
             /\ \A d \in Cycles \ {j} : Phase(d)' = Phase(d)
  BY <1>2 DEF QueuePull, RequestStarts, RetryAutomatic, Admit, Idle
<1>3. ASSUME NEW c \in Cycles, MarkRunning(c)
      PROVE  \A d \in Cycles : Phase(d)' = Phase(d)
  BY <1>3 DEF MarkRunning
<1>4. ASSUME NEW c \in Cycles, Close(c)
      PROVE  /\ Phase(c) = "open" /\ Phase(c)' = "ended" /\ stats'[c] \subseteq stats[c]
             /\ \A d \in Cycles \ {c} : Phase(d)' = Phase(d)
  BY <1>4 DEF Close, PositionsOK
<1>5. ASSUME NEW c \in Cycles,
             \/ EnterCycle(c) \/ EnterFails(c) \/ CloseWindow(c) \/ Finalize(c)
             \/ FinalizeFails(c) \/ EndDelivery(c) \/ \E p \in Providers : Worker(c, p)
      PROVE  UNCHANGED status
  BY <1>5, WorkerFrame DEF EnterCycle, EnterFails, CloseWindow, Finalize, FinalizeFails,
     EndDelivery, durable
<1>6. Bystander \/ Shutdown => UNCHANGED status
  BY BystanderFrame DEF Shutdown, durable
<1> QED
  BY <1>1, <1>2, <1>3, <1>4, <1>5, <1>6 DEF Next, Admission, Cycle, Bystander

\* Every step of AccountSync is a step of PullCycles or leaves its variables alone.
LEMMA AbstractStep ==
    TypeOK /\ PositionsOK /\ FlagsOK /\ AdmissionExclusive /\ [Next]_vars
        => [Abstract!Next]_(Abstract!vars)
<1> SUFFICES ASSUME TypeOK, PositionsOK, FlagsOK, AdmissionExclusive, [Next]_vars
             PROVE  [Abstract!Next]_(Abstract!vars)
  OBVIOUS
<1> DEFINE phase == [c \in Cycles |-> Phase(c)]
           accepted == {c \in Cycles : "reconciled" \in stats[c]}
<1>1. \A c \in Cycles : "reconciled" \in stats[c] => "reconciled" \in stats'[c]
  BY AcceptedStep
<1>2. \A c \in Cycles : "reconciled" \in stats'[c] \ stats[c] =>
         /\ status[c] = "running" /\ status' = status
         /\ \A d \in Cycles \ {c} : stats'[d] = stats[d]
  BY AcceptedStep
<1>3. CASE \E c \in Cycles : "reconciled" \in stats'[c] \ stats[c]
  <2>1. PICK c \in Cycles : "reconciled" \in stats'[c] \ stats[c]
    BY <1>3
  <2>2. Phase(c) = "open" /\ status' = status
    BY <1>2, <2>1 DEF Phase, Active
  <2>3. phase' = phase
    BY <2>2 DEF Phase
  <2>4. accepted' = accepted \cup {c}
    BY <1>1, <1>2, <2>1
  <2>5. Abstract!Accept(c)
    BY <2>2, <2>3, <2>4 DEF Abstract!Accept
  <2> QED
    BY <2>5 DEF Abstract!Next
<1>4. CASE ~ \E c \in Cycles : "reconciled" \in stats'[c] \ stats[c]
  <2>1. accepted' = accepted
    BY <1>1, <1>4
  <2>2. CASE \A c \in Cycles : Phase(c)' = Phase(c)
    BY <2>1, <2>2 DEF Abstract!vars
  <2>3. ASSUME NEW c \in Cycles, Phase(c) = "none", Phase(c)' = "open", ActiveCycles = {},
               \A d \in Cycles \ {c} : Phase(d)' = Phase(d)
        PROVE  Abstract!Next
    <3>1. \A d \in Cycles : phase[d] # "open"
      BY <2>3 DEF Phase, ActiveCycles
    <3>2. phase' = [phase EXCEPT ![c] = "open"]
      BY <2>3
    <3>3. Abstract!Open(c)
      BY <2>1, <2>3, <3>1, <3>2 DEF Abstract!Open
    <3> QED
      BY <3>3 DEF Abstract!Next
  <2>4. ASSUME NEW c \in Cycles, Phase(c) = "open", Phase(c)' = "ended",
               \A d \in Cycles \ {c} : Phase(d)' = Phase(d)
        PROVE  Abstract!Next
    <3>1. phase' = [phase EXCEPT ![c] = "ended"]
      BY <2>4
    <3>2. Abstract!End(c)
      BY <2>1, <2>4, <3>1 DEF Abstract!End
    <3> QED
      BY <3>2 DEF Abstract!Next
  <2>5. CASE Restart
    <3>1. \A d \in Cycles : Phase(d)' = IF Phase(d) = "open" THEN "ended" ELSE Phase(d)
      BY <2>5 DEF Restart, Phase, Active, TypeOK, Status, Terminal
    <3>2. \A c, d \in Cycles : Phase(c) = "open" /\ Phase(d) = "open" => c = d
      BY DEF Phase, AdmissionExclusive, ActiveCycles
    <3>3. CASE \A d \in Cycles : Phase(d) # "open"
      BY <2>2, <3>1, <3>3
    <3>4. ASSUME NEW c \in Cycles, Phase(c) = "open" PROVE Abstract!Next
      BY <2>4, <3>1, <3>2, <3>4
    <3> QED
      BY <3>3, <3>4
  <2> QED
    BY <2>2, <2>3, <2>4, <2>5, StatusStep
<1> QED
  BY <1>3, <1>4

\* AccountSync implements PullCycles: cycles are open one at a time and what a cycle
\* committed is never taken back, whoever rewrites the row of its job.
THEOREM CyclesImplementedTheorem == Spec => CyclesImplemented
<1>1. Init => Abstract!Init
  BY DEF Init, Abstract!Init, Phase
<1>2. Init => AdmissionExclusive
  BY DEF Init, AdmissionExclusive, ActiveCycles, Active
<1> QED
  BY <1>1, <1>2, FlagsInvariant, AdmissionStep, AbstractStep, PTL
     DEF Spec, Abstract!Spec, CyclesImplemented

---------------------------------------------------------------------------
(* An accepted cancel, when a request does not write back what it read.    *)

\* The window that is closed is seen closed, and a cancel that was accepted keeps its
\* flag until its cycle has ended, short of reconciling.
CancelOK(c) ==
    /\ pc[c] \in {"reconciling", "delivering"} => "reconciling" \in stats[c]
    /\ c \in cancelAccepted =>
          /\ "reconciled" \notin stats[c] /\ status[c] \notin {"none", "completed"}
          /\ status[c] \in Active =>
                "cancel_requested" \in stats[c] /\ pc[c] \notin {"reconciling", "delivering"}

HonourOK == request = {} /\ \A c \in Cycles : CancelOK(c)

\* An accepted cancel stays honoured in every step.
LEMMA HonourStep ==
    ASSUME "split_request" \notin Enabled, TypeOK, PositionsOK, FlagsOK, HonourOK, [Next]_vars
    PROVE  HonourOK'
<1> USE DEF HonourOK, CancelOK, Active
<1>0. /\ status \in [Cycles -> Status] /\ stats \in [Cycles -> SUBSET Flags]
      /\ pc \in [Cycles -> Positions] /\ cancelAccepted \subseteq Cycles
  BY DEF TypeOK
<1>1. ASSUME UNCHANGED <<status, stats, pc, request, cancelAccepted>> PROVE HonourOK'
  BY <1>1
<1>2. ASSUME NEW j \in Cycles, NEW T \in SUBSET Providers,
             QueuePull(j, T) \/ RequestStarts(j, T)
      PROVE HonourOK'
  BY <1>0, <1>2 DEF QueuePull, RequestStarts, Admit, history
<1>3. ASSUME NEW j \in Cycles, NEW T \in SUBSET Providers, RetryAutomatic(j, T)
      PROVE HonourOK'
  <2>1. /\ UNCHANGED <<request, cancelAccepted>>
        /\ j \notin cancelAccepted /\ pc'[j] = "queued"
        /\ \A c \in Cycles \ {j} :
              /\ pc'[c] = pc[c] /\ status'[c] = status[c]
              /\ \A f \in Flags \ {"followup_requested", "recovery_job_id"} :
                    f \in stats'[c] <=> f \in stats[c]
    BY <1>0, <1>3 DEF RetryAutomatic, Admit, history
  <2> QED
    BY <2>1 DEF Flags
<1>4. ASSUME NEW c \in Cycles, RequestReads(c) PROVE HonourOK'
  BY <1>4 DEF RequestReads
<1>5. ASSUME NEW r \in request, RequestWrites(r) PROVE HonourOK'
  BY <1>5
<1>6. ASSUME NEW c \in Cycles, RequestCoalesces(c) \/ Acknowledge(c) PROVE HonourOK'
  <2>1. /\ UNCHANGED <<status, pc, request, cancelAccepted>>
        /\ \A d \in Cycles, f \in Flags \ {"followup_requested", "delivery_pending"} :
              f \in stats'[d] <=> f \in stats[d]
    BY <1>0, <1>6 DEF RequestCoalesces, Acknowledge, memory, history
  <2> QED
    BY <2>1 DEF Flags
<1>7. ASSUME NEW c \in Cycles, MarkRunning(c) PROVE HonourOK'
  <2>1. CASE status[c] = "pending"
    BY <1>0, <1>7, <2>1 DEF MarkRunning, history
  <2>2. CASE status[c] # "pending"
    BY <1>0, <1>7, <2>2 DEF MarkRunning, history
  <2> QED
    BY <2>1, <2>2
<1>8. ASSUME NEW c \in Cycles,
             EnterCycle(c) \/ EnterFails(c) \/ FinalizeFails(c) \/ EndDelivery(c)
      PROVE HonourOK'
  <2>1. /\ pc'[c] \notin {"reconciling", "delivering"}
        /\ \A d \in Cycles \ {c} : pc'[d] = pc[d]
        /\ UNCHANGED <<status, stats, request, cancelAccepted>>
    BY <1>0, <1>8 DEF EnterCycle, EnterFails, FinalizeFails, EndDelivery, durable, history
  <2> QED
    BY <2>1
<1>9. ASSUME NEW c \in Cycles, CloseWindow(c) PROVE HonourOK'
  <2>1. status[c] = "running"
    BY <1>9 DEF CloseWindow, PositionsOK
  <2>2. CASE "cancel_requested" \in stats[c]
    BY <1>0, <1>9, <2>2 DEF CloseWindow, history
  <2>3. CASE "cancel_requested" \notin stats[c]
    BY <1>0, <1>9, <2>1, <2>3 DEF CloseWindow, history
  <2> QED
    BY <2>2, <2>3
<1>10. ASSUME NEW c \in Cycles, Finalize(c) PROVE HonourOK'
  <2>1. status[c] = "running" /\ c \notin cancelAccepted /\ "reconciling" \in copy[c]
    BY <1>10 DEF Finalize, PositionsOK, FlagsOK, RowOK
  <2> QED
    BY <1>0, <1>10, <2>1 DEF Finalize, history
<1>11. ASSUME NEW c \in Cycles, Close(c) PROVE HonourOK'
  <2>1. status[c] = "running" /\ pc'[c] = "idle"
    BY <1>0, <1>11 DEF Close, PositionsOK
  <2>2. "cancel_requested" \in stats[c] => status'[c] = "cancelled"
    BY <1>0, <1>11 DEF Close
  <2>3. status'[c] \in {"cancelled", "failed", "completed"}
    BY <1>0, <1>11 DEF Close
  <2>4. /\ UNCHANGED <<request, cancelAccepted>>
        /\ stats'[c] \subseteq stats[c]
        /\ \A d \in Cycles \ {c} :
              pc'[d] = pc[d] /\ status'[d] = status[d] /\ stats'[d] = stats[d]
    BY <1>0, <1>11 DEF Close, history
  <2> QED
    BY <2>1, <2>2, <2>3, <2>4
<1>12. ASSUME NEW c \in Cycles, Cancel(c) \/ \E a \in abort : AbortCancels(a, c)
       PROVE HonourOK'
  <2>1. CASE CancelCycle(c) /\ Cancellable(c) /\ UNCHANGED <<status, pc, request>>
    <3>1. "reconciled" \notin stats[c] /\ pc[c] \notin {"reconciling", "delivering"}
      BY <2>1 DEF Cancellable, FlagsOK, RowOK
    <3> QED
      BY <1>0, <2>1, <3>1 DEF CancelCycle, Cancellable
  <2> QED
    BY <1>1, <1>12, <2>1 DEF Cancel, AbortCancels, memory
<1>13. CASE Shutdown
  BY <1>0, <1>13 DEF Shutdown, durable, history
<1>14. CASE Restart
  BY <1>0, <1>14 DEF Restart, history
<1>15. ASSUME NEW c \in Cycles,
              BeginRetry(c) \/ EndRetry(c) \/ \E p \in Providers : Worker(c, p)
       PROVE UNCHANGED <<status, stats, pc, request, cancelAccepted>>
  BY <1>15, WorkerFrame DEF BeginRetry, EndRetry, durable, history
<1>16. ASSUME \/ AbortBegins \/ UNCHANGED vars \/ \E a \in abort : AbortEnds(a)
              \/ \E p \in StreamProviders :
                    \/ StartClear(p) \/ RunClear(p) \/ EndClear(p) \/ CancelClear(p)
                    \/ SwitchConnection(p)
       PROVE UNCHANGED <<status, stats, pc, request, cancelAccepted>>
  BY <1>16 DEF AbortBegins, AbortEnds, StartClear, RunClear, EndClear, CancelClear,
     SwitchConnection, vars, durable, memory, history
<1> QED
  BY <1>1, <1>2, <1>3, <1>4, <1>5, <1>6, <1>7, <1>8, <1>9, <1>10, <1>11, <1>12, <1>13,
     <1>14, <1>15, <1>16 DEF Next, Admission, Cycle

\* A cancel that was accepted is honoured, whatever switches, aborts, shutdowns and
\* restarts do, if an automatic request reads and writes the row in one step.
THEOREM CancelHonouredTheorem ==
    ASSUME "split_request" \notin Enabled
    PROVE  Spec => []CancelHonoured
<1>1. Init => HonourOK
  BY DEF Init, HonourOK, CancelOK
<1>2. TypeOK /\ PositionsOK /\ FlagsOK /\ HonourOK /\ [Next]_vars => HonourOK'
  BY HonourStep
<1>3. TypeOK /\ HonourOK => CancelHonoured
  BY DEF TypeOK, HonourOK, CancelOK, CancelHonoured
<1> QED
  BY <1>1, <1>2, <1>3, FlagsInvariant, PTL DEF Spec

---------------------------------------------------------------------------
(* How a cycle that completed, or left a batch behind, got there.           *)

\* A cycle whose finally block runs without an error noted has either committed its
\* accepted changes or seen the cancel that will settle its row.
EndOK(c) ==
    /\ pc[c] = "delivering" => "reconciled" \in stats[c]
    /\ pc[c] = "closing" /\ c \notin raised =>
          stats[c] \cap {"reconciled", "cancel_requested"} # {}
    /\ status[c] = "completed" => "reconciled" \in stats[c]

EndsOK == request = {} /\ \A c \in Cycles : EndOK(c)

\* Every way into the finally block keeps that up, short of a graceful stop.
LEMMA EndsStep ==
    ASSUME {"split_request", "shutdown"} \cap Enabled = {}, TypeOK, PositionsOK, FlagsOK,
           EndsOK, [Next]_vars
    PROVE  EndsOK'
<1> USE DEF EndsOK, EndOK, Active
<1>0. /\ status \in [Cycles -> Status] /\ stats \in [Cycles -> SUBSET Flags]
      /\ pc \in [Cycles -> Positions] /\ raised \subseteq Cycles
  BY DEF TypeOK
<1>1. ASSUME UNCHANGED <<status, stats, pc, request>>, raised \subseteq raised'
      PROVE  EndsOK'
  BY <1>1
<1>2. ASSUME NEW j \in Cycles, NEW T \in SUBSET Providers,
             QueuePull(j, T) \/ RequestStarts(j, T) \/ RetryAutomatic(j, T)
      PROVE EndsOK'
  <2>1. /\ UNCHANGED <<request, raised>>
        /\ status[j] = "none" /\ status'[j] = "pending" /\ pc'[j] = "queued"
        /\ \A c \in Cycles \ {j} :
              /\ pc'[c] = pc[c] /\ status'[c] = status[c]
              /\ \A f \in {"reconciled", "cancel_requested"} :
                    f \in stats'[c] <=> f \in stats[c]
    BY <1>0, <1>2 DEF QueuePull, RequestStarts, RetryAutomatic, Admit
  <2> QED
    BY <2>1
<1>3. ASSUME NEW c \in Cycles, RequestReads(c) PROVE EndsOK'
  BY <1>3 DEF RequestReads
<1>4. ASSUME NEW r \in request, RequestWrites(r) PROVE EndsOK'
  BY <1>4
<1>5. ASSUME NEW c \in Cycles, RequestCoalesces(c) \/ Acknowledge(c) PROVE EndsOK'
  <2>1. /\ UNCHANGED <<status, pc, request, raised>>
        /\ \A d \in Cycles, f \in {"reconciled", "cancel_requested"} :
              f \in stats'[d] <=> f \in stats[d]
    BY <1>0, <1>5 DEF RequestCoalesces, Acknowledge, memory
  <2> QED
    BY <2>1
<1>6. ASSUME NEW c \in Cycles, MarkRunning(c) PROVE EndsOK'
  <2>1. CASE status[c] = "pending"
    BY <1>0, <1>6, <2>1 DEF MarkRunning
  <2>2. CASE status[c] # "pending"
    BY <1>0, <1>6, <2>2 DEF MarkRunning
  <2> QED
    BY <2>1, <2>2
<1>7. ASSUME NEW c \in Cycles, EnterCycle(c) \/ EnterFails(c) PROVE EndsOK'
  <2>1. /\ UNCHANGED <<status, stats, request>>
        /\ pc'[c] # "delivering" /\ (pc'[c] = "closing" => c \in raised')
        /\ raised \subseteq raised'
        /\ \A d \in Cycles \ {c} : pc'[d] = pc[d]
    BY <1>0, <1>7 DEF EnterCycle, EnterFails, durable
  <2> QED
    BY <2>1
<1>8. ASSUME NEW c \in Cycles, CloseWindow(c) PROVE EndsOK'
  <2>1. CASE "cancel_requested" \in stats[c]
    BY <1>0, <1>8, <2>1 DEF CloseWindow
  <2>2. CASE "cancel_requested" \notin stats[c]
    BY <1>0, <1>8, <2>2 DEF CloseWindow
  <2> QED
    BY <2>1, <2>2
<1>9. ASSUME NEW c \in Cycles, Finalize(c) PROVE EndsOK'
  BY <1>0, <1>9 DEF Finalize
<1>10. ASSUME NEW c \in Cycles, FinalizeFails(c) \/ EndDelivery(c) PROVE EndsOK'
  <2>1. /\ UNCHANGED <<status, stats, request>>
        /\ pc'[c] = "closing" /\ ("reconciled" \in stats[c] \/ c \in raised')
        /\ raised \subseteq raised'
        /\ \A d \in Cycles \ {c} : pc'[d] = pc[d]
    BY <1>0, <1>10 DEF FinalizeFails, EndDelivery, durable
  <2> QED
    BY <1>0, <2>1
<1>11. ASSUME NEW c \in Cycles, Close(c) PROVE EndsOK'
  <2>1. /\ pc[c] = "closing" /\ pc'[c] = "idle"
        /\ status'[c] = "completed" => c \notin raised /\ "cancel_requested" \notin stats[c]
        /\ "reconciled" \in stats[c] => "reconciled" \in stats'[c]
    BY <1>0, <1>11 DEF Close
  <2>2. /\ request' = request
        /\ \A d \in Cycles \ {c} :
              /\ pc'[d] = pc[d] /\ status'[d] = status[d] /\ stats'[d] = stats[d]
              /\ d \in raised' <=> d \in raised
    BY <1>0, <1>11 DEF Close
  <2> QED
    BY <2>1, <2>2
<1>12. ASSUME NEW c \in Cycles, Cancel(c) \/ \E a \in abort : AbortCancels(a, c)
       PROVE EndsOK'
  <2>1. CASE CancelCycle(c) /\ UNCHANGED <<status, pc, request, raised>>
    BY <1>0, <2>1 DEF CancelCycle
  <2> QED
    BY <1>1, <1>12, <2>1 DEF Cancel, AbortCancels, memory
<1>13. CASE Shutdown
  BY <1>13 DEF Shutdown
<1>14. CASE Restart
  BY <1>0, <1>14 DEF Restart
<1>15. ASSUME NEW c \in Cycles,
              BeginRetry(c) \/ EndRetry(c) \/ \E p \in Providers : Worker(c, p)
       PROVE UNCHANGED <<status, stats, pc, request>> /\ raised \subseteq raised'
  BY <1>15, WorkerFrame DEF BeginRetry, EndRetry, durable
<1>16. ASSUME \/ AbortBegins \/ UNCHANGED vars \/ \E a \in abort : AbortEnds(a)
              \/ \E p \in StreamProviders :
                    \/ StartClear(p) \/ RunClear(p) \/ EndClear(p) \/ CancelClear(p)
                    \/ SwitchConnection(p)
       PROVE UNCHANGED <<status, stats, pc, request, raised>>
  BY <1>16 DEF AbortBegins, AbortEnds, StartClear, RunClear, EndClear, CancelClear,
     SwitchConnection, vars, durable, memory
<1> QED
  BY <1>1, <1>2, <1>3, <1>4, <1>5, <1>6, <1>7, <1>8, <1>9, <1>10, <1>11, <1>12, <1>13,
     <1>14, <1>15, <1>16 DEF Next, Admission, Cycle

\* A cycle that is recorded as completed has committed its accepted changes, whatever
\* switches, aborts and restarts do, if it is not stopped gracefully and a request does
\* not write back a row whose cancel it has not read.
THEOREM CompletedReconciledTheorem ==
    ASSUME {"split_request", "shutdown"} \cap Enabled = {}
    PROVE  Spec => []CompletedReconciled
<1>1. Init => EndsOK
  BY DEF Init, EndsOK, EndOK
<1>2. TypeOK /\ PositionsOK /\ FlagsOK /\ EndsOK /\ [Next]_vars => EndsOK'
  BY EndsStep
<1>3. EndsOK => CompletedReconciled
  BY DEF EndsOK, EndOK, CompletedReconciled
<1> QED
  BY <1>1, <1>2, <1>3, FlagsInvariant, PTL DEF Spec

\* What keeps a batch in reach of the retry is that nothing which ends a cycle as
\* cancelled survives the closing of its window.
WindowOK(c) ==
    /\ pc[c] \in {"reconciling", "delivering"} => "reconciling" \in stats[c]
    /\ pc[c] = "reconciling" => "cancel_requested" \notin copy[c]
    /\ "delivery_pending" \in stats[c] => "reconciling" \in stats[c]
    /\ "reconciling" \in stats[c] => "cancel_requested" \notin stats[c]
    /\ status[c] = "cancelled" =>
          \/ "cancel_requested" \in stats[c]
          \/ \E p \in Providers : child[c][p] = "cancelled"

WindowsOK == request = {} /\ \A c \in Cycles : WindowOK(c)

\* The closed window stays closed to cancels in every step.
LEMMA WindowsStep ==
    ASSUME "split_request" \notin Enabled, TypeOK, PositionsOK, FlagsOK, WindowsOK,
           [Next]_vars
    PROVE  WindowsOK'
<1> USE DEF WindowsOK, WindowOK, Active
<1>0. /\ status \in [Cycles -> Status] /\ stats \in [Cycles -> SUBSET Flags]
      /\ pc \in [Cycles -> Positions] /\ copy \in [Cycles -> SUBSET Flags]
      /\ child \in [Cycles -> [Providers -> Status]]
  BY DEF TypeOK
<1>1. ASSUME UNCHANGED <<status, stats, pc, copy, request, child>> PROVE WindowsOK'
  BY <1>1
<1>2. ASSUME NEW j \in Cycles, NEW T \in SUBSET Providers,
             QueuePull(j, T) \/ RequestStarts(j, T) \/ RetryAutomatic(j, T)
      PROVE WindowsOK'
  <2>1. /\ UNCHANGED <<request, copy>>
        /\ status'[j] = "pending" /\ pc'[j] = "queued"
        /\ \/ stats'[j] = stats[j]
           \/ stats'[j] = {"automatic"}
        /\ \A c \in Cycles \ {j} :
              /\ pc'[c] = pc[c] /\ status'[c] = status[c] /\ child'[c] = child[c]
              /\ \A f \in Flags \ {"followup_requested", "recovery_job_id"} :
                    f \in stats'[c] <=> f \in stats[c]
    BY <1>0, <1>2 DEF QueuePull, RequestStarts, RetryAutomatic, Admit
  <2> QED
    BY <2>1 DEF Flags
<1>3. ASSUME NEW c \in Cycles, RequestReads(c) PROVE WindowsOK'
  BY <1>3 DEF RequestReads
<1>4. ASSUME NEW r \in request, RequestWrites(r) PROVE WindowsOK'
  BY <1>4
<1>5. ASSUME NEW c \in Cycles, RequestCoalesces(c) \/ Acknowledge(c) PROVE WindowsOK'
  <2>1. /\ UNCHANGED <<status, pc, copy, request, child>>
        /\ \A d \in Cycles, f \in {"reconciling", "cancel_requested"} :
              f \in stats'[d] <=> f \in stats[d]
    BY <1>0, <1>5 DEF RequestCoalesces, Acknowledge, memory
  <2>2. \A d \in Cycles : "delivery_pending" \in stats'[d] => "delivery_pending" \in stats[d]
    BY <1>0, <1>5 DEF RequestCoalesces, Acknowledge
  <2> QED
    BY <2>1, <2>2
<1>6. ASSUME NEW c \in Cycles, MarkRunning(c) PROVE WindowsOK'
  <2>1. CASE status[c] = "pending"
    BY <1>0, <1>6, <2>1 DEF MarkRunning
  <2>2. CASE status[c] # "pending"
    BY <1>0, <1>6, <2>2 DEF MarkRunning
  <2> QED
    BY <2>1, <2>2
<1>7. ASSUME NEW c \in Cycles, EnterCycle(c) \/ EnterFails(c) \/ EndDelivery(c)
      PROVE WindowsOK'
  <2>1. /\ UNCHANGED <<status, stats, copy, request, child>>
        /\ pc'[c] \notin {"reconciling", "delivering"}
        /\ \A d \in Cycles \ {c} : pc'[d] = pc[d]
    BY <1>0, <1>7 DEF EnterCycle, EnterFails, EndDelivery, durable
  <2> QED
    BY <2>1
<1>8. ASSUME NEW c \in Cycles, NEW p \in Providers, Worker(c, p) PROVE WindowsOK'
  <2>1. status[c] = "running" /\ UNCHANGED <<status, stats, pc, copy, request>>
    BY <1>8, WorkerFrame DEF PositionsOK
  <2>2. \A d \in Cycles \ {c} : child'[d] = child[d]
    BY <1>0, <1>8, WorkerFrame DEF Settle
  <2> QED
    BY <2>1, <2>2
<1>9. ASSUME NEW c \in Cycles, CloseWindow(c) PROVE WindowsOK'
  <2>1. CASE "cancel_requested" \in stats[c]
    BY <1>0, <1>9, <2>1 DEF CloseWindow
  <2>2. CASE "cancel_requested" \notin stats[c]
    BY <1>0, <1>9, <2>2 DEF CloseWindow
  <2> QED
    BY <2>1, <2>2
<1>10. ASSUME NEW c \in Cycles, Finalize(c) PROVE WindowsOK'
  <2>1. "reconciling" \in copy[c] /\ status[c] = "running"
    BY <1>10 DEF Finalize, FlagsOK, RowOK, PositionsOK
  <2> QED
    BY <1>0, <1>10, <2>1 DEF Finalize
<1>11. ASSUME NEW c \in Cycles, FinalizeFails(c) PROVE WindowsOK'
  BY <1>0, <1>11 DEF FinalizeFails, durable
<1>12. ASSUME NEW c \in Cycles, Close(c) PROVE WindowsOK'
  <2>1. /\ status'[c] = "cancelled" =>
              \/ "cancel_requested" \in stats[c]
              \/ \E p \in Providers : child'[c][p] = "cancelled"
        /\ stats'[c] \in {stats[c], stats[c] \ {"followup_requested"}}
        /\ pc'[c] = "idle"
    BY <1>0, <1>12 DEF Close
  <2>2. /\ UNCHANGED <<request, copy>>
        /\ \A d \in Cycles \ {c} :
              /\ pc'[d] = pc[d] /\ status'[d] = status[d] /\ stats'[d] = stats[d]
              /\ child'[d] = child[d]
    BY <1>0, <1>12 DEF Close
  <2> QED
    BY <2>1, <2>2
<1>13. ASSUME NEW c \in Cycles, Cancel(c) \/ \E a \in abort : AbortCancels(a, c)
       PROVE WindowsOK'
  <2>1. CASE CancelCycle(c) /\ Cancellable(c) /\ UNCHANGED <<status, pc, copy, request>>
    BY <1>0, <2>1 DEF CancelCycle, Cancellable
  <2> QED
    BY <1>1, <1>13, <2>1 DEF Cancel, AbortCancels, memory
<1>14. ASSUME \/ \E a \in abort : AbortEnds(a)
              \/ \E p \in StreamProviders : SwitchConnection(p)
       PROVE WindowsOK'
  <2>1. /\ UNCHANGED <<status, stats, pc, copy, request>>
        /\ \A c \in Cycles, p \in Providers :
              child[c][p] = "cancelled" => child'[c][p] = "cancelled"
    BY <1>0, <1>14 DEF AbortEnds, SwitchConnection, memory
  <2> QED
    BY <2>1
<1>15. CASE Shutdown
  BY <1>0, <1>15 DEF Shutdown, durable
<1>16. CASE Restart
  <2>1. /\ request' = {} /\ UNCHANGED stats
        /\ \A c \in Cycles : pc'[c] = "idle"
        /\ \A c \in Cycles : status'[c] = "cancelled" => status[c] = "cancelled"
        /\ \A c \in Cycles, p \in Providers :
              child[c][p] = "cancelled" => child'[c][p] = "cancelled"
    BY <1>0, <1>16 DEF Restart
  <2> QED
    BY <2>1
<1>17. ASSUME \/ \E c \in Cycles : BeginRetry(c) \/ EndRetry(c)
              \/ AbortBegins \/ UNCHANGED vars
              \/ \E p \in StreamProviders :
                    StartClear(p) \/ RunClear(p) \/ EndClear(p) \/ CancelClear(p)
       PROVE UNCHANGED <<status, stats, pc, copy, request, child>>
  BY <1>17 DEF BeginRetry, EndRetry, AbortBegins, StartClear, RunClear, EndClear,
     CancelClear, vars, durable, memory
<1> QED
  BY <1>1, <1>2, <1>3, <1>4, <1>5, <1>6, <1>7, <1>8, <1>9, <1>10, <1>11, <1>12, <1>13,
     <1>14, <1>15, <1>16, <1>17 DEF Next, Admission, Cycle

\* What a cycle was recorded as, if it has left a batch that no retry selects: a job of
\* the cycle was cancelled although the cycle itself was not.
OrphanedBehindTheCycle ==
    \A c \in Cycles : status[c] \in Terminal /\ "delivery_pending" \in stats[c] =>
        \/ status[c] \in {"failed", "completed"}
        \/ \E p \in Providers : child[c][p] = "cancelled"

LEMMA WindowsInvariant ==
    ASSUME "split_request" \notin Enabled
    PROVE  Spec => [](TypeOK /\ PositionsOK /\ FlagsOK /\ WindowsOK)
<1>1. Init => WindowsOK
  BY DEF Init, WindowsOK, WindowOK
<1>2. TypeOK /\ PositionsOK /\ FlagsOK /\ WindowsOK /\ [Next]_vars => WindowsOK'
  BY WindowsStep
<1> QED
  BY <1>1, <1>2, FlagsInvariant, PTL DEF Spec

\* Under switches, aborts and stops too, the batch of a cycle that has ended is out of
\* the retry's reach only if one of the cycle's jobs was cancelled behind its back.
THEOREM OrphanTheorem ==
    ASSUME "split_request" \notin Enabled
    PROVE  Spec => []OrphanedBehindTheCycle
<1>1. WindowsOK => OrphanedBehindTheCycle
  BY DEF WindowsOK, WindowOK, OrphanedBehindTheCycle, Terminal
<1> QED
  BY <1>1, WindowsInvariant, PTL

\* Only request_cycle_cancel cancels a job: a cancelled one belongs to a cycle with the
\* flag, until it has ended, and not to one that closed its window.
ChildrenOK ==
    /\ abort = {}
    /\ \A c \in Cycles, p \in Providers : child[c][p] = "cancelled" =>
          /\ "reconciling" \notin stats[c]
          /\ status[c] \in Active => "cancel_requested" \in stats[c]

\* No step but an accepted cancel cancels a job.
LEMMA ChildrenStep ==
    ASSUME Enabled \subseteq {"shutdown"}, TypeOK, PositionsOK, FlagsOK, WindowsOK, ChildrenOK,
           [Next]_vars
    PROVE  ChildrenOK'
<1> USE DEF ChildrenOK, Active
<1>0. /\ status \in [Cycles -> Status] /\ stats \in [Cycles -> SUBSET Flags]
      /\ child \in [Cycles -> [Providers -> Status]]
  BY DEF TypeOK
<1>1. ASSUME UNCHANGED <<status, stats, abort, child>> PROVE ChildrenOK'
  BY <1>1
<1>2. ASSUME NEW j \in Cycles, NEW T \in SUBSET Providers,
             QueuePull(j, T) \/ RequestStarts(j, T) \/ RetryAutomatic(j, T)
      PROVE ChildrenOK'
  <2>1. /\ abort' = abort
        /\ \A p \in Providers : child'[j][p] # "cancelled"
        /\ \A c \in Cycles \ {j} :
              /\ status'[c] = status[c] /\ child'[c] = child[c]
              /\ "reconciling" \in stats'[c] <=> "reconciling" \in stats[c]
              /\ "cancel_requested" \in stats'[c] <=> "cancel_requested" \in stats[c]
    BY <1>0, <1>2 DEF QueuePull, RequestStarts, RetryAutomatic, Admit
  <2> QED
    BY <2>1
<1>3. ASSUME NEW c \in Cycles, RequestCoalesces(c) \/ Acknowledge(c) PROVE ChildrenOK'
  <2>1. /\ UNCHANGED <<status, child, abort>>
        /\ \A d \in Cycles, f \in {"reconciling", "cancel_requested"} :
              f \in stats'[d] <=> f \in stats[d]
    BY <1>0, <1>3 DEF RequestCoalesces, Acknowledge, memory
  <2> QED
    BY <2>1
<1>4. ASSUME NEW r \in request, RequestWrites(r) PROVE ChildrenOK'
  BY <1>4 DEF WindowsOK
<1>5. ASSUME NEW c \in Cycles, MarkRunning(c) PROVE ChildrenOK'
  <2>1. CASE status[c] = "pending"
    BY <1>0, <1>5, <2>1 DEF MarkRunning
  <2>2. CASE status[c] # "pending"
    BY <1>0, <1>5, <2>2 DEF MarkRunning
  <2> QED
    BY <2>1, <2>2
<1>6. ASSUME NEW c \in Cycles, NEW p \in Providers, Worker(c, p) PROVE ChildrenOK'
  <2>1. UNCHANGED <<status, stats, abort>>
    BY <1>6, WorkerFrame
  <2>2. \A d \in Cycles, q \in Providers :
            child'[d][q] = "cancelled" => child[d][q] = "cancelled"
    <3>1. ASSUME NEW s \in {"running", "failed", "completed"}, Settle(c, p, s)
          PROVE  \A d \in Cycles, q \in Providers :
                    child'[d][q] = "cancelled" => child[d][q] = "cancelled"
      BY <1>0, <3>1 DEF Settle
    <3> QED
      BY <1>6, <3>1, WorkerFrame
  <2> QED
    BY <2>1, <2>2
<1>7. ASSUME NEW c \in Cycles, CloseWindow(c) PROVE ChildrenOK'
  <2>1. status[c] = "running"
    BY <1>7 DEF CloseWindow, PositionsOK
  <2>2. CASE "cancel_requested" \in stats[c]
    BY <1>0, <1>7, <2>2 DEF CloseWindow
  <2>3. CASE "cancel_requested" \notin stats[c]
    BY <1>0, <1>7, <2>1, <2>3 DEF CloseWindow
  <2> QED
    BY <2>2, <2>3
<1>8. ASSUME NEW c \in Cycles, Finalize(c) PROVE ChildrenOK'
  <2>1. "reconciling" \in stats[c]
    BY <1>8 DEF Finalize, WindowsOK, WindowOK
  <2> QED
    BY <1>0, <1>8, <2>1 DEF Finalize
<1>9. ASSUME NEW c \in Cycles, Close(c) PROVE ChildrenOK'
  <2>1. /\ status'[c] \notin Active /\ abort' = abort
        /\ \A p \in Providers : child'[c][p] = "cancelled" => child[c][p] = "cancelled"
        /\ stats'[c] \subseteq stats[c]
        /\ \A d \in Cycles \ {c} :
              status'[d] = status[d] /\ stats'[d] = stats[d] /\ child'[d] = child[d]
    BY <1>0, <1>9 DEF Close
  <2> QED
    BY <2>1
<1>10. ASSUME NEW c \in Cycles, Cancel(c) PROVE ChildrenOK'
  BY <1>0, <1>10 DEF Cancel, CancelCycle, Cancellable, memory
<1>11. ASSUME NEW a \in abort, AbortEnds(a) \/ \E c \in Cycles : AbortCancels(a, c)
       PROVE ChildrenOK'
  BY <1>11
<1>12. ASSUME \/ AbortBegins \/ \E p \in StreamProviders : SwitchConnection(p)
       PROVE ChildrenOK'
  BY <1>12 DEF AbortBegins, SwitchConnection
<1>13. CASE Restart
  <2>1. /\ abort' = {} /\ UNCHANGED stats
        /\ \A c \in Cycles : status'[c] \notin Active
        /\ \A c \in Cycles, p \in Providers :
              child'[c][p] = "cancelled" => child[c][p] = "cancelled"
    BY <1>0, <1>13 DEF Restart
  <2> QED
    BY <2>1
<1>14. ASSUME NEW c \in Cycles,
              \/ RequestReads(c) \/ EnterCycle(c) \/ EnterFails(c) \/ FinalizeFails(c)
              \/ EndDelivery(c) \/ BeginRetry(c) \/ EndRetry(c)
       PROVE UNCHANGED <<status, stats, abort, child>>
  BY <1>14 DEF RequestReads, EnterCycle, EnterFails, FinalizeFails, EndDelivery, BeginRetry,
     EndRetry, durable
<1>15. ASSUME \/ Shutdown \/ UNCHANGED vars
              \/ \E p \in StreamProviders :
                    StartClear(p) \/ RunClear(p) \/ EndClear(p) \/ CancelClear(p)
       PROVE UNCHANGED <<status, stats, abort, child>>
  BY <1>15 DEF Shutdown, StartClear, RunClear, EndClear, CancelClear, vars, durable, memory
<1> QED
  BY <1>1, <1>2, <1>3, <1>4, <1>5, <1>6, <1>7, <1>8, <1>9, <1>10, <1>11, <1>12, <1>13,
     <1>14, <1>15 DEF Next, Admission, Cycle

\* "A failure leaves the committed batch recoverable": while nothing but its own cancel
\* cancels the jobs of a cycle, also across graceful stops and crashes.
THEOREM DeliveryRetryableTheorem ==
    ASSUME Enabled \subseteq {"shutdown"}
    PROVE  Spec => []DeliveryRetryable
<1>1. Init => ChildrenOK
  BY DEF Init, ChildrenOK
<1>2. TypeOK /\ PositionsOK /\ FlagsOK /\ WindowsOK /\ ChildrenOK /\ [Next]_vars
        => ChildrenOK'
  BY ChildrenStep
<1>3. WindowsOK /\ ChildrenOK => DeliveryRetryable
  BY DEF WindowsOK, WindowOK, ChildrenOK, DeliveryRetryable, Terminal
<1>4. Spec => [](TypeOK /\ PositionsOK /\ FlagsOK /\ WindowsOK)
  BY WindowsInvariant
<1> QED
  BY <1>1, <1>2, <1>3, <1>4, PTL DEF Spec

---------------------------------------------------------------------------
(* Which writer of the row can lose what another one wrote.                 *)

\* The two writes of the whole stats value from a snapshot read in an earlier step:
\* request_automatic_pull with a cycle active, and persist_delivery inside finalize.
StaleWrite(c, f) ==
    \/ \E r \in request : r.cycle = c /\ f \notin r.seen /\ RequestWrites(r)
    \/ f \notin copy[c] /\ Finalize(c)

\* Who is entitled to remove a flag: the acknowledgement of the last target, the cycle
\* that serves the follow-up, and the finally block of a cancelled cycle.
Consumed(c, f) ==
    \/ f = "delivery_pending" /\ Acknowledge(c)
    \/ f = "followup_requested" /\ "recovery_job_id" \in stats'[c]
    \/ f = "followup_requested" /\ Close(c) /\ status'[c] = "cancelled"

\* No flag of a row is lost but by those two writers.
LostUpdatesAreStale ==
    [][\A c \in Cycles : \A f \in stats[c] \ stats'[c] :
            Consumed(c, f) \/ StaleWrite(c, f)]_vars

\* A flag of a row disappears only because it is consumed, or because one of the two
\* stale writers overwrites the row: the counterexamples cancel_lost and followup_lost
\* show all there is to repair.
THEOREM LostUpdatesTheorem == Spec => LostUpdatesAreStale
<1>1. ASSUME TypeOK, FlagsOK, [Next]_vars, NEW c \in Cycles, NEW f \in stats[c] \ stats'[c]
      PROVE  Consumed(c, f) \/ StaleWrite(c, f)
  <2>0. /\ stats \in [Cycles -> SUBSET Flags] /\ f \in Flags
        /\ status[c] = "none" => stats[c] = {}
    BY <1>1 DEF TypeOK, FlagsOK, RowOK
  <2>1. ASSUME NEW j \in Cycles, NEW T \in SUBSET Providers,
               QueuePull(j, T) \/ RequestStarts(j, T) \/ RetryAutomatic(j, T)
        PROVE  f = "followup_requested" /\ "recovery_job_id" \in stats'[c]
    BY <1>1, <2>0, <2>1 DEF QueuePull, RequestStarts, RetryAutomatic, Admit
  <2>2. ASSUME NEW r \in request, RequestWrites(r) PROVE StaleWrite(c, f)
    BY <1>1, <2>0, <2>2 DEF RequestWrites, StaleWrite, TypeOK
  <2>3. ASSUME NEW d \in Cycles, Finalize(d) PROVE StaleWrite(c, f)
    BY <1>1, <2>0, <2>3 DEF Finalize, StaleWrite
  <2>4. ASSUME NEW d \in Cycles, Acknowledge(d) PROVE Consumed(c, f)
    <3>1. d = c /\ f = "delivery_pending"
      BY <1>1, <2>0, <2>4 DEF Acknowledge
    <3> QED
      BY <2>4, <3>1 DEF Consumed
  <2>5. ASSUME NEW d \in Cycles, Close(d) PROVE Consumed(c, f)
    <3>1. d = c /\ f = "followup_requested"
      BY <1>1, <2>0, <2>5 DEF Close
    <3>2. status'[c] = "cancelled"
      BY <1>1, <2>0, <2>5, <3>1 DEF Close, TypeOK
    <3> QED
      BY <2>5, <3>1, <3>2 DEF Consumed
  <2>6. ASSUME NEW d \in Cycles,
               \/ RequestCoalesces(d) \/ CloseWindow(d) \/ Cancel(d)
               \/ \E a \in abort : AbortCancels(a, d)
        PROVE  stats[c] \subseteq stats'[c]
    BY <2>0, <2>6 DEF RequestCoalesces, CloseWindow, Cancel, CancelCycle, AbortCancels
  <2>7. ASSUME NEW d \in Cycles,
               \/ RequestReads(d) \/ MarkRunning(d) \/ EnterCycle(d) \/ EnterFails(d)
               \/ FinalizeFails(d) \/ EndDelivery(d) \/ BeginRetry(d) \/ EndRetry(d)
               \/ \E p \in Providers : Worker(d, p)
        PROVE  stats' = stats
    BY <2>7, WorkerFrame DEF RequestReads, MarkRunning, EnterCycle, EnterFails,
       FinalizeFails, EndDelivery, BeginRetry, EndRetry, durable
  <2>8. ASSUME \/ AbortBegins \/ Shutdown \/ Restart \/ UNCHANGED vars
               \/ \E a \in abort : AbortEnds(a)
               \/ \E p \in StreamProviders :
                     \/ StartClear(p) \/ RunClear(p) \/ EndClear(p) \/ CancelClear(p)
                     \/ SwitchConnection(p)
        PROVE  stats' = stats
    BY <2>8 DEF AbortBegins, Shutdown, Restart, AbortEnds, StartClear, RunClear, EndClear,
       CancelClear, SwitchConnection, vars, durable
  <2>9. Consumed(c, f) \/ StaleWrite(c, f) \/ stats[c] \subseteq stats'[c]
    BY <1>1, <2>1, <2>2, <2>3, <2>4, <2>5, <2>6, <2>7, <2>8
       DEF Next, Admission, Cycle, Consumed
  <2> QED
    BY <1>1, <2>9
<1>2. TypeOK /\ FlagsOK /\ [Next]_vars =>
        [\A c \in Cycles : \A f \in stats[c] \ stats'[c] :
            Consumed(c, f) \/ StaleWrite(c, f)]_vars
  BY <1>1
<1> QED
  BY <1>2, FlagsInvariant, PTL DEF Spec, LostUpdatesAreStale

---------------------------------------------------------------------------
(* The batch of a row, as the outbox of one destination that the row records.    *)

Handed == {"reconciled", "delivery_pending"}

BatchPhase(c) ==
    IF "delivery_pending" \in stats[c] THEN "pending"
    ELSE IF "reconciled" \in stats[c] THEN "retired" ELSE "absent"

BatchOwed(c) == IF "delivery_pending" \in stats[c] THEN {"batch"} ELSE {}

Batch == INSTANCE Outbox WITH
    Batches <- Cycles, Targets <- {"batch"},
    phase   <- [c \in Cycles |-> BatchPhase(c)],
    owed    <- [c \in Cycles |-> BatchOwed(c)]

\* A row has handed nothing over before finalize has, and finalize runs once.
HandedOK ==
    \A c \in Cycles :
        /\ "delivery_pending" \in stats[c] => "reconciled" \in stats[c]
        /\ pc[c] \in {"queued", "starting", "pulling", "reconciling"} =>
              stats[c] \cap Handed = {}

\* Which steps touch what a row says of its batch, and what they find.
LEMMA BatchSteps ==
    ASSUME TypeOK, PositionsOK, FlagsOK, request = {}, [Next]_vars
    PROVE  \/ \E c \in Cycles : Finalize(c) \/ Acknowledge(c)
           \/ /\ \A c \in Cycles : stats'[c] \cap Handed = stats[c] \cap Handed
              /\ \A c \in Cycles :
                    pc'[c] \in {"queued", "starting", "pulling", "reconciling"} =>
                        \/ pc[c] \in {"queued", "starting", "pulling", "reconciling"}
                        \/ stats[c] = {}
<1> DEFINE Same == \A c \in Cycles : stats'[c] \cap Handed = stats[c] \cap Handed
           Early == {"queued", "starting", "pulling", "reconciling"}
           Behind == \A c \in Cycles :
                        pc'[c] \in Early => pc[c] \in Early \/ stats[c] = {}
<1>0. /\ stats \in [Cycles -> SUBSET Flags] /\ pc \in [Cycles -> Positions]
      /\ \A c \in Cycles : status[c] = "none" => stats[c] = {}
  BY DEF TypeOK, FlagsOK, RowOK
<1>1. ASSUME NEW j \in Cycles, NEW T \in SUBSET Providers,
             QueuePull(j, T) \/ RequestStarts(j, T) \/ RetryAutomatic(j, T)
      PROVE  Same /\ Behind
  <2>1. stats[j] = {} /\ pc' = [pc EXCEPT ![j] = "queued"]
    BY <1>0, <1>1 DEF QueuePull, RequestStarts, RetryAutomatic, Admit
  <2>2. Same
    BY <1>0, <1>1, <2>1 DEF QueuePull, RequestStarts, RetryAutomatic, Handed
  <2> QED
    BY <1>0, <2>1, <2>2
<1>2. ASSUME NEW c \in Cycles,
             \/ RequestCoalesces(c) \/ Cancel(c) \/ \E a \in abort : AbortCancels(a, c)
      PROVE  Same /\ UNCHANGED pc
  BY <1>0, <1>2 DEF RequestCoalesces, Cancel, CancelCycle, AbortCancels, Handed, memory
<1>3. ASSUME NEW c \in Cycles, CloseWindow(c) PROVE Same /\ Behind
  BY <1>0, <1>3 DEF CloseWindow, Handed
<1>4. ASSUME NEW c \in Cycles, Close(c) PROVE Same /\ Behind
  <2>1. pc' = [pc EXCEPT ![c] = "idle"]
    BY <1>4 DEF Close
  <2>2. Same
    BY <1>0, <1>4 DEF Close, Handed
  <2> QED
    BY <1>0, <2>1, <2>2
<1>5. ASSUME NEW c \in Cycles,
             \/ MarkRunning(c) \/ EnterCycle(c) \/ EnterFails(c) \/ FinalizeFails(c)
             \/ EndDelivery(c)
      PROVE  UNCHANGED stats /\ Behind
  BY <1>0, <1>5 DEF MarkRunning, EnterCycle, EnterFails, FinalizeFails, EndDelivery, durable
<1>6. ASSUME NEW c \in Cycles,
             \/ RequestReads(c) \/ BeginRetry(c) \/ EndRetry(c)
             \/ \E p \in Providers : Worker(c, p)
      PROVE  UNCHANGED <<stats, pc>>
  BY <1>6, WorkerFrame DEF RequestReads, BeginRetry, EndRetry, durable
<1>7. ASSUME \/ AbortBegins \/ UNCHANGED vars
             \/ \E a \in abort : AbortEnds(a)
             \/ \E p \in StreamProviders :
                   \/ StartClear(p) \/ RunClear(p) \/ EndClear(p) \/ CancelClear(p)
                   \/ SwitchConnection(p)
      PROVE  UNCHANGED <<stats, pc>>
  BY <1>7 DEF AbortBegins, AbortEnds, StartClear, RunClear, EndClear, CancelClear,
     SwitchConnection, vars, durable, memory
<1>8. ASSUME Shutdown \/ Restart PROVE UNCHANGED stats /\ Behind
  BY <1>0, <1>8 DEF Shutdown, Restart, durable
<1>9. \/ \E c \in Cycles : Finalize(c) \/ Acknowledge(c)
      \/ Same /\ Behind
  BY <1>0, <1>1, <1>2, <1>3, <1>4, <1>5, <1>6, <1>7, <1>8 DEF Next, Admission, Cycle
<1> QED
  BY <1>9

\* What a row says of its batch stays in order in every step.
LEMMA HandedStep ==
    TypeOK /\ PositionsOK /\ FlagsOK /\ request = {} /\ HandedOK /\ [Next]_vars => HandedOK'
<1> SUFFICES ASSUME TypeOK, PositionsOK, FlagsOK, request = {}, HandedOK, [Next]_vars
             PROVE  HandedOK'
  OBVIOUS
<1>0. stats \in [Cycles -> SUBSET Flags] /\ pc \in [Cycles -> Positions]
  BY DEF TypeOK
<1>1. ASSUME NEW c \in Cycles, Finalize(c) PROVE HandedOK'
  BY <1>0, <1>1 DEF Finalize, HandedOK
<1>2. ASSUME NEW c \in Cycles, Acknowledge(c) PROVE HandedOK'
  BY <1>0, <1>2 DEF Acknowledge, HandedOK, Handed, memory
<1>3. ASSUME \A c \in Cycles : stats'[c] \cap Handed = stats[c] \cap Handed,
             \A c \in Cycles :
                pc'[c] \in {"queued", "starting", "pulling", "reconciling"} =>
                    \/ pc[c] \in {"queued", "starting", "pulling", "reconciling"}
                    \/ stats[c] = {}
      PROVE  HandedOK'
  BY <1>3 DEF HandedOK, Handed
<1> QED
  BY <1>1, <1>2, <1>3, BatchSteps

\* Every step of AccountSync is a step of the outbox or leaves its batches alone.
LEMMA BatchStep ==
    TypeOK /\ PositionsOK /\ FlagsOK /\ request = {} /\ HandedOK /\ [Next]_vars
        => [Batch!Next]_(Batch!vars)
<1> SUFFICES ASSUME TypeOK, PositionsOK, FlagsOK, request = {}, HandedOK, [Next]_vars
             PROVE  [Batch!Next]_(Batch!vars)
  OBVIOUS
<1> DEFINE phase == [c \in Cycles |-> BatchPhase(c)]
           owed == [c \in Cycles |-> BatchOwed(c)]
<1>0. stats \in [Cycles -> SUBSET Flags]
  BY DEF TypeOK
<1>1. ASSUME NEW c \in Cycles, Finalize(c) PROVE Batch!Next
  <2>1. phase[c] = "absent" /\ {"batch"} # {}
    BY <1>1 DEF Finalize, HandedOK, Handed, BatchPhase
  <2>2. /\ "delivery_pending" \in stats'[c]
        /\ \A d \in Cycles \ {c} : stats'[d] = stats[d]
    BY <1>0, <1>1 DEF Finalize
  <2>3. phase' = [phase EXCEPT ![c] = "pending"] /\ owed' = [owed EXCEPT ![c] = {"batch"}]
    BY <2>2 DEF BatchPhase, BatchOwed
  <2>4. Batch!Accept(c, {"batch"})
    BY <2>1, <2>3 DEF Batch!Accept
  <2> QED
    BY <2>4 DEF Batch!Next
<1>2. ASSUME NEW c \in Cycles, Acknowledge(c) PROVE Batch!Next
  <2>1. /\ "delivery_pending" \in stats[c] /\ "reconciled" \in stats[c]
        /\ stats' = [stats EXCEPT ![c] = @ \ {"delivery_pending"}]
    BY <1>2 DEF Acknowledge, HandedOK
  <2>2. /\ "delivery_pending" \notin stats'[c] /\ "reconciled" \in stats'[c]
        /\ \A d \in Cycles \ {c} : stats'[d] = stats[d]
    BY <1>0, <2>1
  <2>3. owed[c] = {"batch"} /\ phase[c] = "pending"
    BY <2>1 DEF BatchOwed, BatchPhase
  <2>4. phase' = [phase EXCEPT ![c] = "retired"]
    BY <2>2 DEF BatchPhase
  <2>5. owed' = [owed EXCEPT ![c] = @ \ {"batch"}]
    BY <2>2, <2>3 DEF BatchOwed
  <2>6. Batch!Acknowledge(c, "batch")
    BY <2>3, <2>4, <2>5 DEF Batch!Acknowledge
  <2> QED
    BY <2>6 DEF Batch!Next
<1>3. ASSUME \A c \in Cycles : stats'[c] \cap Handed = stats[c] \cap Handed
      PROVE  UNCHANGED Batch!vars
  <2>1. \A c \in Cycles, f \in Handed : f \in stats'[c] <=> f \in stats[c]
    BY <1>3
  <2> QED
    BY <2>1 DEF Batch!vars, BatchPhase, BatchOwed, Handed
<1> QED
  BY <1>1, <1>2, <1>3, BatchSteps

\* As long as a request does not write back what it read, a row says "handed over" once,
\* then "delivered" once, whatever else rewrites it: a batch is neither accepted twice
\* nor brought back nor dropped.
THEOREM BatchesImplementedTheorem ==
    ASSUME "split_request" \notin Enabled
    PROVE  Spec => Batch!Spec
<1>1. Init => Batch!Init /\ HandedOK
  BY DEF Init, Batch!Init, HandedOK, BatchPhase, BatchOwed
<1>2. TypeOK /\ PositionsOK /\ FlagsOK /\ WindowsOK /\ HandedOK /\ [Next]_vars =>
        HandedOK' /\ [Batch!Next]_(Batch!vars)
  BY HandedStep, BatchStep DEF WindowsOK
<1> QED
  BY <1>1, <1>2, WindowsInvariant, PTL DEF Spec, Batch!Spec

---------------------------------------------------------------------------
(* Who waits for whom: the safety half of "a cycle that is admitted ends".       *)

\* A row is pending exactly while its coroutine is queued, and running exactly while it
\* is past that; a stopping process has only finally blocks left.
AttendedOK ==
    \A c \in Cycles :
        /\ pc[c] = "queued" => status[c] = "pending"
        /\ status[c] = "pending" /\ up = "up" => pc[c] = "queued"
        /\ status[c] = "running" => pc[c] \notin {"idle", "queued"}
        /\ up = "stopping" => pc[c] \in {"idle", "closing"}

LEMMA AttendedStep == TypeOK /\ PositionsOK /\ AttendedOK /\ [Next]_vars => AttendedOK'
<1> SUFFICES ASSUME TypeOK, PositionsOK, AttendedOK, [Next]_vars PROVE AttendedOK'
  OBVIOUS
<1> USE DEF AttendedOK
<1>0. /\ status \in [Cycles -> Status] /\ pc \in [Cycles -> Positions]
      /\ up \in {"up", "stopping"}
  BY DEF TypeOK
<1>1. ASSUME Bystander PROVE UNCHANGED <<status, pc, up>>
  <2>1. UNCHANGED up
    BY <1>1 DEF Bystander, RequestReads, RequestCoalesces, Acknowledge, BeginRetry, EndRetry,
       Cancel, RequestWrites, StartClear, RunClear, EndClear, CancelClear, SwitchConnection,
       AbortBegins, AbortEnds, AbortCancels, vars, memory
  <2> QED
    BY <1>1, <2>1, BystanderFrame
<1>2. ASSUME NEW j \in Cycles, NEW T \in SUBSET Providers,
             QueuePull(j, T) \/ RequestStarts(j, T) \/ RetryAutomatic(j, T)
      PROVE  AttendedOK'
  BY <1>0, <1>2 DEF QueuePull, RequestStarts, RetryAutomatic, Admit
<1>3. ASSUME NEW c \in Cycles, MarkRunning(c) PROVE AttendedOK'
  <2>1. /\ up = "up" /\ up' = up
        /\ status' = [status EXCEPT ![c] = "running"]
        /\ pc' = [pc EXCEPT ![c] = "starting"]
    BY <1>3 DEF MarkRunning
  <2> QED
    BY <1>0, <2>1
<1>4. ASSUME NEW c \in Cycles,
             \/ EnterCycle(c) \/ EnterFails(c) \/ CloseWindow(c) \/ Finalize(c)
             \/ FinalizeFails(c) \/ EndDelivery(c)
      PROVE  AttendedOK'
  <2>1. /\ up = "up" /\ UNCHANGED <<status, up>> /\ pc[c] \notin {"idle", "queued"}
        /\ \E s \in Positions \ {"idle", "queued"} : pc' = [pc EXCEPT ![c] = s]
    BY <1>4 DEF EnterCycle, EnterFails, CloseWindow, Finalize, FinalizeFails, EndDelivery,
       Positions, durable
  <2> QED
    BY <1>0, <2>1 DEF PositionsOK
<1>5. ASSUME NEW c \in Cycles, Close(c) PROVE AttendedOK'
  <2>1. /\ UNCHANGED up
        /\ pc' = [pc EXCEPT ![c] = "idle"]
        /\ \E s \in {"cancelled", "failed", "completed"} :
              status' = [status EXCEPT ![c] = s]
    BY <1>5 DEF Close
  <2> QED
    BY <1>0, <2>1
<1>6. ASSUME NEW c \in Cycles, NEW p \in Providers, Worker(c, p)
      PROVE  UNCHANGED <<status, pc, up>>
  BY <1>6, WorkerFrame
<1>7. CASE Shutdown
  <2>1. /\ up' = "stopping" /\ UNCHANGED status
        /\ \A c \in Cycles :
              pc'[c] = IF pc[c] \in {"idle", "queued"} THEN "idle" ELSE "closing"
    BY <1>0, <1>7 DEF Shutdown, durable, Positions
  <2> QED
    BY <2>1
<1>8. CASE Restart
  <2>1. /\ up' = "up"
        /\ \A c \in Cycles : pc'[c] = "idle" /\ status'[c] \notin Active
    BY <1>0, <1>8 DEF Restart, Active
  <2> QED
    BY <2>1 DEF Active
<1> QED
  BY <1>1, <1>2, <1>3, <1>4, <1>5, <1>6, <1>7, <1>8
     DEF Next, Admission, Cycle, Bystander

\* The guards of the steps of an admitted cycle.
CanMove(c) ==
    \/ pc[c] \in {"queued", "delivering"}
    \/ pc[c] = "starting" /\ CycleLockFree
    \/ /\ pc[c] = "pulling"
       /\ \/ \A p \in Providers : worker[c][p] = "idle"
          \/ \E p \in Providers : worker[c][p] \in {"loading", "loaded", "refreshed", "running"}
    \/ pc[c] \in {"reconciling", "closing"} /\ UserLockFree

\* An active cycle can move, or waits for a lock whose holder waits for nobody: a request
\* that has read its row, or a retry that delivers an older batch.  A stopping process
\* leaves behind at most a row that it never started, to be failed by the next start.
NoCycleIsStuck ==
    \A c \in ActiveCycles :
        CanMove(c) \/ request # {} \/ retrying # {} \/ (up = "stopping" /\ status[c] = "pending")

\* No interleaving of admissions, cancels, aborts, retries, switches, stops and restarts
\* leaves an active row without a coroutine that closes it, or coroutines waiting for
\* each other (run_account_pull, coordinated_pull_cycle, retry_cycle_deliveries).
THEOREM NoCycleIsStuckTheorem == Spec => []NoCycleIsStuck
<1>1. Init => AttendedOK /\ AdmissionExclusive
  BY DEF Init, AttendedOK, AdmissionExclusive, ActiveCycles, Active
<1>2. ASSUME TypeOK, PositionsOK, AttendedOK, AdmissionExclusive PROVE NoCycleIsStuck
  <2> SUFFICES ASSUME NEW c \in ActiveCycles, request = {}, retrying = {},
                      ~(up = "stopping" /\ status[c] = "pending")
               PROVE  CanMove(c)
    BY DEF NoCycleIsStuck
  <2>1. c \in Cycles /\ status[c] \in {"pending", "running"}
    BY DEF ActiveCycles, Active
  <2>2. pc[c] \in Positions \ {"idle"} /\ worker[c] \in [Providers -> WorkerPositions]
    BY <1>2, <2>1 DEF AttendedOK, TypeOK
  <2>3. CASE pc[c] = "starting"
    <3>1. \A d \in Cycles : InCycle(d) => d \in ActiveCycles /\ d # c
      BY <1>2, <2>3 DEF InCycle, PositionsOK, ActiveCycles, Active
    <3>2. CycleLockFree
      BY <1>2, <3>1 DEF CycleLockFree, AdmissionExclusive
    <3> QED
      BY <2>3, <3>2 DEF CanMove
  <2>4. CASE pc[c] = "pulling"
    BY <2>2, <2>4 DEF CanMove, WorkerPositions
  <2>5. CASE pc[c] \in {"queued", "delivering", "reconciling", "closing"}
    BY <2>5 DEF CanMove, UserLockFree
  <2> QED
    BY <2>2, <2>3, <2>4, <2>5 DEF Positions
<1> QED
  BY <1>1, <1>2, FlagsInvariant, AdmissionStep, AttendedStep, PTL DEF Spec
=============================================================================
