---------------------- MODULE StatisticsLease_proofs ----------------------
(***************************************************************************)
(* Proofs about StatisticsLease, for any sets of workers and any bounds.   *)
(***************************************************************************)
EXTENDS StatisticsLease, Integers, TLAPS

LEMMA NoResultType == NoResult \in Generation
BY BoundsAssumption DEF NoResult, Generation

LEMMA TakeType == ASSUME NEW w \in Workers, Take(w)
                  PROVE lease' \in {NoGeneration} \cup Workers /\ expired' \in BOOLEAN
BY DEF Take

LEMMA ReleaseType == ASSUME Release
                     PROVE lease' \in {NoGeneration} \cup Workers /\ expired' \in BOOLEAN
BY DEF Release

LEMMA PageLosesType ==
    ASSUME StatsTypeOK, NEW how \in {"replaced", "removed"}, PageLoses(how)
    PROVE  page' \in {NoGeneration} \cup Page
BY DEF PageLoses, StatsTypeOK, Page

\* What a coroutine leaves behind when it returns or tries again.
MemoryTypeOK ==
    /\ worker \in [Workers -> Positions]
    /\ outcome \in [Workers -> Generation]
    /\ tries \in [Requests -> 0..2]

LEMMA EndsType == ASSUME StatsTypeOK, NEW w \in Workers, Ends(w) PROVE MemoryTypeOK'
BY NoResultType DEF Ends, StatsTypeOK, MemoryTypeOK, Positions

LEMMA RetriesType == ASSUME StatsTypeOK, NEW w \in Workers, Retries(w) PROVE MemoryTypeOK'
<1>1. CASE w \in Requests /\ tries[w] > 0
  BY <1>1, NoResultType DEF Retries, StatsTypeOK, MemoryTypeOK, Positions
<1>2. CASE ~(w \in Requests /\ tries[w] > 0)
  BY <1>2, EndsType DEF Retries
<1> QED BY <1>1, <1>2

LEMMA RestartType == Asleep \in [Workers -> Positions] /\ Unknown \in [Workers -> Generation]
BY NoResultType DEF Asleep, Unknown, Positions

\* A request that is about to claim has an attempt left.
TriesLeft == \A r \in Requests : worker[r] = "asking" => tries[r] > 0

LEMMA EndsTries == ASSUME StatsTypeOK, TriesLeft, NEW w \in Workers, Ends(w) PROVE TriesLeft'
BY DEF Ends, StatsTypeOK, TriesLeft, Workers

LEMMA RetriesTries == ASSUME StatsTypeOK, TriesLeft, NEW w \in Workers, Retries(w) PROVE TriesLeft'
<1>1. CASE w \in Requests /\ tries[w] > 0
  BY <1>1 DEF Retries, StatsTypeOK, TriesLeft, Workers
<1>2. CASE ~(w \in Requests /\ tries[w] > 0)
  BY <1>2, EndsTries DEF Retries
<1> QED BY <1>1, <1>2

LEMMA StatsTypeInit == ASSUME StatsInit PROVE StatsTypeOK /\ TriesLeft
<1>1. StatsTypeOK
  <2>1. 0 \in 0..MaxFacts /\ 0 \in 0..MaxShared /\ 0 \in 0..MaxShape /\ 0 \in 0..2
    BY BoundsAssumption
  <2>2. removed \in [facts : 0..MaxFacts, shared : 0..MaxShared] /\ tries \in [Requests -> 0..2]
    BY <2>1 DEF StatsInit
  <2> QED BY <2>1, <2>2, RestartType DEF StatsInit, StatsTypeOK
<1>2. TriesLeft
  BY DEF StatsInit, TriesLeft, Asleep, Workers
<1> QED BY <1>1, <1>2

LEMMA StatsTypeNext ==
    ASSUME StatsTypeOK, TriesLeft, [StatsNext]_statsVars
    PROVE  StatsTypeOK' /\ TriesLeft'
<1> USE BoundsAssumption, KindsAssumption DEF StatsTypeOK, Positions, TriesLeft, Workers
<1>1. ASSUME NEW s \in Schedulers, PrepareStartup(s) PROVE StatsTypeOK' /\ TriesLeft'
  BY <1>1 DEF PrepareStartup
<1>2. ASSUME NEW w \in Workers, SkipCurrent(w) PROVE StatsTypeOK' /\ TriesLeft'
  BY <1>2 DEF SkipCurrent
<1>3. ASSUME NEW w \in Workers, ClaimNext(w) PROVE StatsTypeOK' /\ TriesLeft'
  BY <1>3, TakeType DEF ClaimNext
<1>4. ASSUME NEW h \in Repairs, RepairSelects(h) \/ RepairMarks(h) \/ RepairFindsNone(h)
      PROVE  StatsTypeOK' /\ TriesLeft'
  BY <1>4, ReleaseType DEF RepairSelects, RepairMarks, RepairFindsNone, stateRow
<1>5. ASSUME NEW r \in Requests, RefreshAccount(r) PROVE StatsTypeOK' /\ TriesLeft'
  BY <1>5 DEF RefreshAccount, stateRow
<1>6. ASSUME NEW r \in Requests, RefreshClaims(r) PROVE StatsTypeOK' /\ TriesLeft'
  <2>1. CASE LeaseFree
    BY <1>6, <2>1, TakeType DEF RefreshClaims
  <2>2. CASE ~LeaseFree
    BY <1>6, <2>2, EndsType, EndsTries DEF RefreshClaims, MemoryTypeOK
  <2> QED BY <2>1, <2>2
<1>7. ASSUME NEW w \in Workers, Compute(w) PROVE StatsTypeOK' /\ TriesLeft'
  <2>1. CASE Holds(w)
    BY <1>7, <2>1 DEF Compute, stateRow, Generation
  <2>2. CASE ~Holds(w)
    BY <1>7, <2>2, RetriesType, RetriesTries DEF Compute, stateRow, MemoryTypeOK
  <2> QED BY <2>1, <2>2
<1>8. ASSUME NEW w \in Workers, Publish(w) PROVE StatsTypeOK' /\ TriesLeft'
  <2>1. MemoryTypeOK' /\ TriesLeft' /\ page' \in {NoGeneration} \cup Page
    BY <1>8, EndsType, EndsTries, PageLosesType DEF Publish
  <2>2. generation' \in Generation /\ lease' \in {NoGeneration} \cup Workers /\ expired' \in BOOLEAN
    BY <1>8, ReleaseType DEF Publish
  <2> QED BY <1>8, <2>1, <2>2 DEF Publish, MemoryTypeOK
<1>9. ASSUME NEW w \in Workers, PublishOutrun(w) PROVE StatsTypeOK' /\ TriesLeft'
  BY <1>9, RetriesType, RetriesTries, ReleaseType DEF PublishOutrun, MemoryTypeOK
<1>10. ASSUME NEW w \in Workers, PublishTooLate(w) PROVE StatsTypeOK' /\ TriesLeft'
  BY <1>10, RetriesType, RetriesTries DEF PublishTooLate, MemoryTypeOK, stateRow
<1>11. ASSUME NEW w \in Workers, RecordFailure(w) PROVE StatsTypeOK' /\ TriesLeft'
  BY <1>11, EndsType, EndsTries, ReleaseType DEF RecordFailure, MemoryTypeOK
<1>12. ASSUME PageLoads \/ PageReads \/ PageQueuesUpgrade PROVE StatsTypeOK' /\ TriesLeft'
  <2>1. CASE PageLoads
    <3>1. PICK calm \in BOOLEAN : page' =
            [found |-> "present", outdated |-> FALSE, marks |-> ~dirty,
             queues |-> ~due /\ lease = NoGeneration /\ calm]
      BY <2>1 DEF PageLoads
    <3>2. (~dirty) \in BOOLEAN /\ (~due /\ lease = NoGeneration /\ calm) \in BOOLEAN
      OBVIOUS
    <3>3. page' \in Page
      BY <3>1, <3>2 DEF Page
    <3> QED BY <2>1, <3>3 DEF PageLoads, stateRow
  <2>2. CASE PageReads
    BY <2>2 DEF PageReads, stateRow, Page
  <2>3. CASE PageQueuesUpgrade
    BY <2>3 DEF PageQueuesUpgrade
  <2> QED BY <1>12, <2>1, <2>2, <2>3
<1>13. ASSUME FactChanged \/ MetadataChanged PROVE StatsTypeOK' /\ TriesLeft'
  <2>1. facts' \in 0..MaxFacts /\ shared' \in 0..MaxShared /\ dirty' \in BOOLEAN
    <3>1. CASE FactChanged
      BY <3>1 DEF FactChanged
    <3>2. CASE MetadataChanged
      BY <3>2 DEF MetadataChanged, stateRow
    <3> QED BY <1>13, <3>1, <3>2
  <2>2. UNCHANGED <<shape, generation, due, lease, expired, worker, outcome, tries, page, removed>>
    BY <1>13 DEF FactChanged, MetadataChanged, stateRow, statsMemory
  <2>3. StatsTypeOK'
    <3> HIDE DEF Positions, Workers
    <3> QED BY <2>1, <2>2
  <2> QED BY <2>2, <2>3
<1>14. ASSUME FactRemoved PROVE StatsTypeOK' /\ TriesLeft'
  BY <1>14, PageLosesType DEF FactRemoved
<1>15. ASSUME VisibilityChanged PROVE StatsTypeOK' /\ TriesLeft'
  BY <1>15, PageLosesType DEF VisibilityChanged
<1>16. ASSUME LeaseExpires \/ BecomesDue PROVE StatsTypeOK' /\ TriesLeft'
  BY <1>16 DEF LeaseExpires, BecomesDue, statsMemory
<1>17. ASSUME NEW v \in 0..MaxShape, Restart(v) PROVE StatsTypeOK' /\ TriesLeft'
  BY <1>17, RestartType DEF Restart, stateRow, Asleep
<1>18. ASSUME UNCHANGED statsVars PROVE StatsTypeOK' /\ TriesLeft'
  BY <1>18 DEF statsVars, stateRow, statsMemory
<1> QED
  BY <1>1, <1>2, <1>3, <1>4, <1>5, <1>6, <1>7, <1>8, <1>9, <1>10, <1>11, <1>12, <1>13,
     <1>14, <1>15, <1>16, <1>17, <1>18
     DEF StatsNext, StatsCalm, Disturbance, Seeks, Works

\* Every reachable state is well typed, for any workers and any bounds.
THEOREM StatsTypeCorrect == StatsSpec => []StatsTypeOK
<1>1. StatsInit => StatsTypeOK /\ TriesLeft
  BY StatsTypeInit
<1>2. StatsTypeOK /\ TriesLeft /\ [StatsNext]_statsVars => StatsTypeOK' /\ TriesLeft'
  BY StatsTypeNext
<1> QED BY <1>1, <1>2, PTL DEF StatsSpec

---------------------------------------------------------------------------
(* Publication and invalidation.                                           *)

\* The revisions of a removal are not ahead of the rows, and what is computed
\* was computed by the version that runs: a deployment takes the worker along.
StatsInv ==
    /\ StatsTypeOK
    /\ removed.facts <= facts /\ removed.shared <= shared
    /\ \A w \in Workers : worker[w] = "computed" => outcome[w].shape = shape
    /\ SettledIsCurrent
    /\ RemovedStaysHidden

LEMMA EndsShape ==
    ASSUME StatsInv, NEW w \in Workers, Ends(w), UNCHANGED shape
    PROVE  \A u \in Workers : worker'[u] = "computed" => outcome'[u].shape = shape'
BY DEF StatsInv, StatsTypeOK, Ends

LEMMA RetriesShape ==
    ASSUME StatsInv, NEW w \in Workers, Retries(w), UNCHANGED shape
    PROVE  \A u \in Workers : worker'[u] = "computed" => outcome'[u].shape = shape'
BY EndsShape DEF StatsInv, StatsTypeOK, Retries

LEMMA StatsInvInit == ASSUME StatsInit PROVE StatsInv
<1>1. StatsTypeOK /\ SettledIsCurrent /\ RemovedStaysHidden
  BY StatsTypeInit DEF StatsInit, SettledIsCurrent, RemovedStaysHidden
<1>2. removed.facts <= facts /\ removed.shared <= shared
  BY DEF StatsInit
<1>3. \A w \in Workers : worker[w] # "computed"
  BY DEF StatsInit, Asleep
<1> QED BY <1>1, <1>2, <1>3 DEF StatsInv

LEMMA StatsInvNext == ASSUME StatsInv, StatsTypeOK', [StatsNext]_statsVars PROVE StatsInv'
<1> USE DEF StatsInv, SettledIsCurrent, RemovedStaysHidden
<1>0. facts \in Int /\ shared \in Int /\ removed.facts \in Int /\ removed.shared \in Int
      /\ worker \in [Workers -> Positions] /\ outcome \in [Workers -> Generation]
      /\ (generation # NoGeneration => generation.facts \in Int /\ generation.shared \in Int)
  BY BoundsAssumption DEF StatsTypeOK, Generation
<1>1. ASSUME NEW s \in Schedulers, PrepareStartup(s) PROVE StatsInv'
  BY <1>1, <1>0 DEF PrepareStartup, Workers
<1>2. ASSUME NEW w \in Workers, SkipCurrent(w) \/ ClaimNext(w) PROVE StatsInv'
  BY <1>2, <1>0 DEF SkipCurrent, ClaimNext
<1>3. ASSUME NEW h \in Repairs, RepairSelects(h) \/ RepairMarks(h) \/ RepairFindsNone(h)
      PROVE  StatsInv'
  BY <1>3, <1>0 DEF RepairSelects, RepairMarks, RepairFindsNone, stateRow, Workers
<1>4. ASSUME NEW r \in Requests, RefreshAccount(r) PROVE StatsInv'
  BY <1>4, <1>0 DEF RefreshAccount, stateRow, Workers
<1>5. ASSUME NEW r \in Requests, RefreshClaims(r) PROVE StatsInv'
  <2>1. CASE LeaseFree
    BY <1>5, <1>0, <2>1 DEF RefreshClaims, Workers
  <2>2. CASE ~LeaseFree
    BY <1>5, <1>0, <2>2, EndsShape DEF RefreshClaims, Workers
  <2> QED BY <2>1, <2>2
<1>6. ASSUME NEW w \in Workers, Compute(w) PROVE StatsInv'
  <2>1. CASE Holds(w)
    BY <1>6, <1>0, <2>1 DEF Compute, stateRow
  <2>2. CASE ~Holds(w)
    BY <1>6, <1>0, <2>2, RetriesShape DEF Compute, stateRow
  <2> QED BY <2>1, <2>2
<1>7. ASSUME NEW w \in Workers, Publish(w) PROVE StatsInv'
  <2>1. generation' # NoGeneration => generation'.facts = facts /\ generation'.shared = shared
    BY <1>7 DEF Publish, StillCurrent
  <2>2. generation' # NoGeneration
    BY <1>7, <1>0, NoGenerationAssumption DEF Publish
  <2> QED BY <1>7, <1>0, <2>1, <2>2, EndsShape DEF Publish
<1>8. ASSUME NEW w \in Workers, PublishOutrun(w) \/ PublishTooLate(w) PROVE StatsInv'
  BY <1>8, <1>0, RetriesShape DEF PublishOutrun, PublishTooLate, stateRow
<1>9. ASSUME NEW w \in Workers, RecordFailure(w) PROVE StatsInv'
  BY <1>9, <1>0, EndsShape DEF RecordFailure
<1>10. ASSUME PageLoads \/ PageReads \/ PageQueuesUpgrade PROVE StatsInv'
  BY <1>10, <1>0 DEF PageLoads, PageReads, PageQueuesUpgrade, stateRow
<1>11. ASSUME FactChanged \/ MetadataChanged PROVE StatsInv'
  BY <1>11, <1>0 DEF FactChanged, MetadataChanged, stateRow, statsMemory
<1>12. ASSUME FactRemoved \/ VisibilityChanged PROVE StatsInv'
  BY <1>12, <1>0 DEF FactRemoved, VisibilityChanged, StatsTypeOK
<1>13. ASSUME LeaseExpires \/ BecomesDue PROVE StatsInv'
  BY <1>13, <1>0 DEF LeaseExpires, BecomesDue, statsMemory
<1>14. ASSUME NEW v \in 0..MaxShape, Restart(v) PROVE StatsInv'
  BY <1>14, <1>0 DEF Restart, stateRow, Asleep
<1>15. ASSUME UNCHANGED statsVars PROVE StatsInv'
  BY <1>15 DEF statsVars, stateRow, statsMemory
<1> QED
  BY <1>1, <1>2, <1>3, <1>4, <1>5, <1>6, <1>7, <1>8, <1>9, <1>10, <1>11, <1>12, <1>13,
     <1>14, <1>15
     DEF StatsNext, StatsCalm, Disturbance, Seeks, Works, Workers

LEMMA StatsInvariant == StatsSpec => []StatsInv
<1>1. StatsInit => StatsInv
  BY StatsInvInit
<1>2. StatsInv /\ StatsTypeOK' /\ [StatsNext]_statsVars => StatsInv'
  BY StatsInvNext
<1> QED BY <1>1, <1>2, StatsTypeCorrect, PTL DEF StatsSpec

\* A row without the dirty mark has a generation of the facts as they are: the
\* mark of an edit is never lost (publish, stats_mark_user).
THEOREM SettledCorrect == StatsSpec => []SettledIsCurrent
BY StatsInvariant, PTL DEF StatsInv

\* No late worker brings back what was removed after it computed (publish,
\* stats_user_fact_changed, stats_visibility_changed).
THEOREM RemovedCorrect == StatsSpec => []RemovedStaysHidden
BY StatsInvariant, PTL DEF StatsInv

\* A lease in force ends only by its own holder (claim_next, refresh_account,
\* publish, record_failure and the repair).
THEOREM LeaseCorrect == StatsSpec => LeaseIsOwn
<1> DEFINE Own == lease # NoGeneration /\ ~expired /\ lease' # lease =>
                    /\ lease' = NoGeneration
                    /\ worker[lease] \in {"claimed", "computed"}
                    /\ worker'[lease] \in {"idle", "asking"}
<1>1. StatsTypeOK /\ [StatsNext]_statsVars => [Own]_statsVars
  <2> SUFFICES ASSUME StatsTypeOK, StatsNext, lease # NoGeneration, ~expired, lease' # lease
               PROVE  Own
    OBVIOUS
  <2>1. PICK w \in Workers : Publish(w) \/ PublishOutrun(w) \/ RecordFailure(w)
    BY DEF StatsNext, StatsCalm, Disturbance, Seeks, Works, PrepareStartup,
       SkipCurrent, ClaimNext, RepairSelects,
           RepairMarks, RepairFindsNone, RefreshAccount, RefreshClaims, Compute, PublishTooLate,
           PageLoads, PageReads, PageQueuesUpgrade, FactChanged, FactRemoved, MetadataChanged,
           VisibilityChanged, LeaseExpires, BecomesDue, Restart, Claimable, LeaseFree, stateRow
  <2>2. lease = w /\ lease' = NoGeneration
    BY <2>1 DEF Publish, PublishOutrun, RecordFailure, Holds, Release
  <2>3. worker[w] \in {"claimed", "computed"} /\ worker'[w] \in {"idle", "asking"}
    BY <2>1 DEF Publish, PublishOutrun, RecordFailure, Retries, Ends, StatsTypeOK
  <2> QED BY <2>2, <2>3
<1> QED BY <1>1, StatsTypeCorrect, PTL DEF StatsSpec, LeaseIsOwn

---------------------------------------------------------------------------
(* The statistics implement Generations.                                   *)

LEMMA OverviewStep == ASSUME StatsInv, [StatsNext]_statsVars PROVE [Overview!GNext]_(Overview!gVars)
<1> USE DEF Overview!gVars, Overview!GNext
<1>0. facts \in Int /\ shared \in Int /\ shape \in Int
  BY BoundsAssumption DEF StatsInv, StatsTypeOK
<1>1. ASSUME NEW w \in Workers, Publish(w) PROVE Overview!Generate
  <2>1. outcome[w] \in Generation /\ outcome[w].shape = shape
    BY <1>1 DEF StatsInv, StatsTypeOK, Publish
  <2>2. outcome[w] = [facts |-> facts, shared |-> shared, shape |-> shape]
    BY <1>1, <2>1 DEF Publish, StillCurrent, Generation
  <2> QED BY <1>1, <2>2 DEF Publish, Overview!Generate
<1>2. ASSUME FactRemoved \/ VisibilityChanged PROVE Overview!Remove
  BY <1>2, <1>0 DEF FactRemoved, VisibilityChanged, Overview!Remove
<1>3. ASSUME FactChanged \/ MetadataChanged PROVE Overview!Change
  BY <1>3, <1>0 DEF FactChanged, MetadataChanged, stateRow, Overview!Change
<1>4. ASSUME NEW v \in 0..MaxShape, Restart(v)
      PROVE  Overview!Change \/ UNCHANGED <<facts, shared, shape, generation>>
  BY <1>4, <1>0 DEF Restart, stateRow, Overview!Change
<1>5. ASSUME ~(\E w \in Workers : Publish(w)), ~FactRemoved, ~VisibilityChanged, ~FactChanged,
             ~MetadataChanged, ~(\E v \in 0..MaxShape : Restart(v))
      PROVE  UNCHANGED <<facts, shared, shape, generation>>
  BY <1>5 DEF StatsNext, StatsCalm, Disturbance, Seeks, Works, PrepareStartup,
       SkipCurrent, ClaimNext, RepairSelects,
              RepairMarks, RepairFindsNone, RefreshAccount, RefreshClaims, Compute, PublishOutrun,
              PublishTooLate, RecordFailure, PageLoads, PageReads, PageQueuesUpgrade, LeaseExpires,
              BecomesDue, stateRow, statsVars
<1> QED BY <1>1, <1>2, <1>3, <1>4, <1>5

\* Readers see one whole generation, current when it appears, until the next one
\* or a removal (publish, the triggers of mt039).
THEOREM OverviewCorrect == StatsSpec => GenerationsImplemented
<1>1. StatsInit => Overview!GInit
  BY DEF StatsInit, Overview!GInit
<1>2. StatsInv /\ [StatsNext]_statsVars => [Overview!GNext]_(Overview!gVars)
  BY OverviewStep
<1> QED BY <1>1, <1>2, StatsInvariant, PTL DEF StatsSpec, GenerationsImplemented, Overview!GSpec
=============================================================================
