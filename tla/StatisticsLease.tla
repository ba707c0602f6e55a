-------------------------- MODULE StatisticsLease --------------------------
(***************************************************************************)
(* The daily statistics of one account: the lease under which workers      *)
(* compute them, their publication and their invalidation                  *)
(* (core/statistics_snapshots.py, core/statistics_refresh.py, the repair   *)
(* of core/data_health_repairs.py and the triggers of migrations mt039 and *)
(* mt040).                                                                 *)
(*                                                                         *)
(* Each transaction is one step: every one of them locks the state row     *)
(* before it decides, except the reads of compute, which have one          *)
(* REPEATABLE READ snapshot, the page, which reads and writes without a    *)
(* lock, and the repair, which selects rows and then updates them.  A      *)
(* lease token is made per claim and a worker holds one claim at a time,   *)
(* so the worker stands for the token.  Clocks are the flags due           *)
(* (next_due_at <= now) and expired (lease_until <= now).                  *)
(***************************************************************************)
EXTENDS Integers

CONSTANTS
    Schedulers,   \* scheduler tasks, one per process
    Repairs,      \* runs of the data health repair
    Requests,     \* requests of the owner for an immediate refresh
    NoGeneration,
    MaxFacts, MaxShared, MaxShape  \* bounds of the three revisions

Workers == Schedulers \cup Repairs \cup Requests

Generation == [facts : 0..MaxFacts, shared : 0..MaxShared, shape : 0..MaxShape]

ASSUME NoGenerationAssumption == NoGeneration \notin Workers \cup Generation
ASSUME KindsAssumption ==
    /\ Schedulers \cap Repairs = {}
    /\ Requests \cap (Schedulers \cup Repairs) = {}
ASSUME BoundsAssumption ==
    MaxFacts \in Nat /\ MaxShared \in Nat /\ MaxShape \in Nat

VARIABLES
    facts,     \* user_stats_state.source_revision
    shared,    \* stats_metadata_revision.revision
    shape,     \* CONTRACT_VERSION of the deployed code
    generation,    \* the generation active_snapshot_id points to, or NoGeneration
    dirty,     \* user_stats_state.dirty
    due,       \* next_due_at has passed
    lease,     \* lease_token: the worker it was made for, or NoGeneration
    expired,   \* lease_until has passed
    worker,    \* memory: position of every worker
    outcome,    \* memory: what it computed
    tries,     \* memory: attempts a request has left
    page,      \* memory: the read of the overview page under way
    removed    \* history: revisions of the last removal

stateRow == <<generation, dirty, due, lease, expired>>
statsMemory == <<worker, outcome, tries, page>>
statsVars  == <<facts, shared, shape, stateRow, statsMemory, removed>>

NoResult   == [facts |-> 0, shared |-> 0, shape |-> 0]

Positions == {"preparing", "idle", "selected", "asking", "claimed", "computed"}

\* The overview page between its reads: what has happened to the generation it
\* found, and what it will write of the state row it loaded.
Page == [found : {"present", "replaced", "removed"}, outdated : BOOLEAN,
         marks : BOOLEAN, queues : BOOLEAN]

StatsTypeOK ==
    /\ facts \in 0..MaxFacts /\ shared \in 0..MaxShared /\ shape \in 0..MaxShape
    /\ generation \in {NoGeneration} \cup Generation
    /\ dirty \in BOOLEAN /\ due \in BOOLEAN /\ expired \in BOOLEAN
    /\ lease \in {NoGeneration} \cup Workers
    /\ worker \in [Workers -> Positions]
    /\ outcome \in [Workers -> Generation]
    /\ tries \in [Requests -> 0..2]
    /\ page \in {NoGeneration} \cup Page
    /\ removed \in [facts : 0..MaxFacts, shared : 0..MaxShared]

Asleep == [w \in Workers |-> IF w \in Schedulers THEN "preparing" ELSE "idle"]
Unknown == [w \in Workers |-> NoResult]

StatsInit ==
    /\ facts = 0 /\ shared = 0 /\ shape = 0
    /\ generation = NoGeneration /\ dirty = TRUE /\ due = TRUE
    /\ lease = NoGeneration /\ expired = FALSE
    /\ worker = Asleep /\ outcome = Unknown
    /\ tries = [r \in Requests |-> 0]
    /\ page = NoGeneration
    /\ removed = [facts |-> 0, shared |-> 0]

---------------------------------------------------------------------------
(* Helpers.                                                                *)

LeaseFree == lease = NoGeneration \/ expired

\* Mutant of StillCurrent: the revisions of the rows are not read again.
StillCurrentAssumed(w) == TRUE

\* Mutant of StillCurrent: only the revision of the account is compared.
StillCurrentFacts(w) == outcome[w].facts = facts

\* What publish compares: the revisions of the outcome and those of the rows.
StillCurrent(w) == outcome[w].facts = facts /\ outcome[w].shared = shared

\* Mutant of Holds: the token of the claim is not compared.
HoldsAssumed(w) == TRUE

\* record_failure, publish and compute act for the holder of the token.
Holds(w) == lease = w

Take(w) == lease' = w /\ expired' = FALSE
Release == lease' = NoGeneration /\ expired' = FALSE

\* A page that has loaded the pointer finds the generation it names gone.
PageLoses(how) ==
    page' = IF page # NoGeneration /\ page.found = "present" /\ ~page.outdated
            THEN [page EXCEPT !.found = how] ELSE page

\* The coroutine returns, or its loop takes the next claim.
Ends(w) ==
    /\ worker' = [worker EXCEPT ![w] = "idle"]
    /\ outcome' = [outcome EXCEPT ![w] = NoResult]
    /\ tries' = [r \in Requests |-> IF r = w THEN 0 ELSE tries[r]]

\* refresh_account makes a second attempt at once.
Retries(w) ==
    IF w \in Requests /\ tries[w] > 0
    THEN /\ worker' = [worker EXCEPT ![w] = "asking"]
         /\ outcome' = [outcome EXCEPT ![w] = NoResult]
         /\ UNCHANGED tries
    ELSE Ends(w)

---------------------------------------------------------------------------
(* The workers.                                                            *)

\* prepare_startup queues the upgrade of a generation of an older version.
PrepareStartup(s) ==
    /\ worker[s] = "preparing"
    /\ worker' = [worker EXCEPT ![s] = "idle"]
    /\ IF generation # NoGeneration /\ generation.shape # shape /\ ~due
       THEN dirty' = TRUE /\ due' = TRUE
       ELSE UNCHANGED <<dirty, due>>
    /\ UNCHANGED <<facts, shared, shape, generation, lease, expired, outcome, tries, page, removed>>

\* claim_next for a scheduler, or for the one iteration of a repair.
Claimable(w) ==
    /\ IF w \in Schedulers THEN worker[w] = "idle" ELSE worker[w] = "asking"
    /\ due /\ LeaseFree

\* Mutant of UpToDate: the revision of the shared metadata is not part of the check.
UpToDateByFacts == generation # NoGeneration /\ ~dirty /\ generation.shape = shape

\* A row the daily check has nothing to do for.
UpToDate ==
    /\ generation # NoGeneration /\ ~dirty
    /\ generation.shape = shape /\ generation.shared = shared

SkipCurrent(w) ==
    /\ Claimable(w) /\ UpToDate
    /\ due' = FALSE
    /\ worker' = [worker EXCEPT ![w] = "idle"]
    /\ UNCHANGED <<facts, shared, shape, generation, dirty, lease, expired,
                   outcome, tries, page, removed>>

\* Mutant of ClaimNext: the flag is cleared when the work is claimed.
ClaimNextClears(w) ==
    /\ Claimable(w) /\ ~UpToDate
    /\ Take(w)
    /\ worker' = [worker EXCEPT ![w] = "claimed"]
    /\ dirty' = FALSE
    /\ UNCHANGED <<facts, shared, shape, generation, due, outcome, tries, page, removed>>

ClaimNext(w) ==
    /\ Claimable(w) /\ ~UpToDate
    /\ Take(w)
    /\ worker' = [worker EXCEPT ![w] = "claimed"]
    /\ UNCHANGED <<facts, shared, shape, generation, dirty, due, outcome, tries, page, removed>>

\* refresh_statistics clears a lapsed lease and selects the row ...
RepairSelects(h) ==
    /\ worker[h] = "idle" /\ LeaseFree
    /\ Release
    /\ worker' = [worker EXCEPT ![h] = "selected"]
    /\ UNCHANGED <<facts, shared, shape, generation, dirty, due, outcome, tries, page, removed>>

\* ... then marks it, whatever has happened to its lease, and calls run_due.
RepairMarks(h) ==
    /\ worker[h] = "selected"
    /\ dirty' = TRUE /\ due' = TRUE
    /\ worker' = [worker EXCEPT ![h] = "asking"]
    /\ UNCHANGED <<facts, shared, shape, generation, lease, expired, outcome, tries, page, removed>>

\* run_due of a repair finds nothing to claim.
RepairFindsNone(h) ==
    /\ worker[h] = "asking" /\ ~(due /\ LeaseFree)
    /\ worker' = [worker EXCEPT ![h] = "idle"]
    /\ UNCHANGED <<facts, shared, shape, stateRow, outcome, tries, page, removed>>

\* refresh_account is called, and claims up to two times.
RefreshAccount(r) ==
    /\ worker[r] = "idle"
    /\ worker' = [worker EXCEPT ![r] = "asking"]
    /\ tries' = [tries EXCEPT ![r] = 2]
    /\ UNCHANGED <<facts, shared, shape, stateRow, outcome, page, removed>>

RefreshClaims(r) ==
    /\ worker[r] = "asking"
    /\ IF LeaseFree
       THEN /\ Take(r)
            /\ dirty' = TRUE /\ due' = TRUE
            /\ worker' = [worker EXCEPT ![r] = "claimed"]
            /\ tries' = [tries EXCEPT ![r] = @ - 1]
            /\ UNCHANGED outcome
       ELSE Ends(r) /\ UNCHANGED <<lease, expired, dirty, due>>
    /\ UNCHANGED <<facts, shared, shape, generation, page, removed>>

\* compute reads everything at one cutoff, or learns that its claim is gone.
Compute(w) ==
    /\ worker[w] = "claimed"
    /\ IF Holds(w)
       THEN /\ outcome' = [outcome EXCEPT ![w] =
                   [facts |-> facts, shared |-> shared, shape |-> shape]]
            /\ worker' = [worker EXCEPT ![w] = "computed"]
            /\ UNCHANGED tries
       ELSE Retries(w)
    /\ UNCHANGED <<facts, shared, shape, stateRow, page, removed>>

\* publish reads the revision of the metadata without a lock, and the step
\* stands at that read.
Publish(w) ==
    /\ worker[w] = "computed" /\ Holds(w) /\ ~expired /\ StillCurrent(w)
    /\ generation' = outcome[w]
    /\ dirty' = FALSE /\ due' = FALSE
    /\ Release
    /\ PageLoses("replaced")
    /\ Ends(w)
    /\ UNCHANGED <<facts, shared, shape, removed>>

\* Something changed while it was computed: the row waits a minute.
PublishOutrun(w) ==
    /\ worker[w] = "computed" /\ Holds(w) /\ ~expired /\ ~StillCurrent(w)
    /\ dirty' = TRUE /\ due' = FALSE
    /\ Release
    /\ Retries(w)
    /\ UNCHANGED <<facts, shared, shape, generation, page, removed>>

\* The claim lapsed, or was taken over.
PublishTooLate(w) ==
    /\ worker[w] = "computed" /\ (~Holds(w) \/ expired)
    /\ Retries(w)
    /\ UNCHANGED <<facts, shared, shape, stateRow, page, removed>>

\* The calculation raises, times out, or the request is cancelled.
RecordFailure(w) ==
    /\ worker[w] \in {"claimed", "computed"}
    /\ IF Holds(w)
       THEN due' = FALSE /\ Release
       ELSE UNCHANGED <<due, lease, expired>>
    /\ Ends(w)
    /\ UNCHANGED <<facts, shared, shape, generation, dirty, page, removed>>

---------------------------------------------------------------------------
(* The overview page, which takes no lock.                                 *)

\* read_overview with a pointer.  The due time is brought forward unless there
\* is a lease or an error code, which is either here.
PageLoads ==
    /\ page = NoGeneration /\ generation # NoGeneration
    /\ \E calm \in BOOLEAN :
           page' = [found |-> "present", outdated |-> FALSE, marks |-> ~dirty,
                    queues |-> ~due /\ lease = NoGeneration /\ calm]
    /\ UNCHANGED <<facts, shared, shape, stateRow, worker, outcome, tries, removed>>

\* The generation of the pointer is read by its id, in a snapshot of its own.
PageReads ==
    /\ page # NoGeneration /\ ~page.outdated
    /\ page' = IF page.found = "present" /\ generation.shape # shape
               THEN [page EXCEPT !.outdated = TRUE] ELSE NoGeneration
    /\ UNCHANGED <<facts, shared, shape, stateRow, worker, outcome, tries, removed>>

\* The commit writes the columns whose value differs from the loaded one.
PageQueuesUpgrade ==
    /\ page # NoGeneration /\ page.outdated
    /\ dirty' = (dirty \/ page.marks)
    /\ due' = (due \/ page.queues)
    /\ page' = NoGeneration
    /\ UNCHANGED <<facts, shared, shape, generation, lease, expired, worker, outcome, tries, removed>>

---------------------------------------------------------------------------
(* Invalidation by the triggers, in the transaction of the change.         *)

\* A fact of the account is added or edited.
FactChanged ==
    /\ facts < MaxFacts
    /\ facts' = facts + 1 /\ dirty' = TRUE
    /\ UNCHANGED <<shared, shape, generation, due, lease, expired, statsMemory, removed>>

\* A fact is deleted, moved to another title or no longer completed.
FactRemoved ==
    /\ facts < MaxFacts
    /\ facts' = facts + 1 /\ dirty' = TRUE /\ due' = TRUE
    /\ generation' = NoGeneration
    /\ PageLoses("removed")
    /\ removed' = [removed EXCEPT !.facts = facts + 1]
    /\ UNCHANGED <<shared, shape, lease, expired, worker, outcome, tries>>

MetadataChanged ==
    /\ shared < MaxShared
    /\ shared' = shared + 1
    /\ UNCHANGED <<facts, shape, stateRow, statsMemory, removed>>

\* The instance shows or hides anime: every generation goes.
VisibilityChanged ==
    /\ shared < MaxShared
    /\ shared' = shared + 1 /\ dirty' = TRUE /\ due' = TRUE
    /\ generation' = NoGeneration
    /\ PageLoses("removed")
    /\ removed' = [removed EXCEPT !.shared = shared + 1]
    /\ UNCHANGED <<facts, shape, lease, expired, worker, outcome, tries>>

---------------------------------------------------------------------------
(* The environment.                                                        *)

LeaseExpires ==
    /\ lease # NoGeneration /\ ~expired
    /\ expired' = TRUE
    /\ UNCHANGED <<facts, shared, shape, generation, dirty, due, lease, statsMemory, removed>>

BecomesDue ==
    /\ ~due
    /\ due' = TRUE
    /\ UNCHANGED <<facts, shared, shape, generation, dirty, lease, expired, statsMemory, removed>>

\* The process stops, or is replaced by a deployment: leases survive it.
Restart(v) ==
    /\ v \in {shape, shape + 1} /\ v <= MaxShape
    /\ shape' = v
    /\ worker' = Asleep /\ outcome' = Unknown
    /\ tries' = [r \in Requests |-> 0]
    /\ page' = NoGeneration
    /\ UNCHANGED <<facts, shared, stateRow, removed>>

---------------------------------------------------------------------------
(* The specification.                                                      *)

Works(w) == Compute(w) \/ Publish(w) \/ PublishOutrun(w) \/ PublishTooLate(w)
Seeks(w) == SkipCurrent(w) \/ ClaimNext(w)

\* The steps a calculation may lose its turn to, and the others.  A step that has the
\* effect of one of the others is one of them.
Disturbance ==
    \/ FactChanged \/ FactRemoved \/ MetadataChanged \/ VisibilityChanged
    \/ \E v \in 0..MaxShape : Restart(v)
    \/ \E w \in Workers : RecordFailure(w)
    \/ LeaseExpires /\ worker[lease] \in {"claimed", "computed"}

StatsCalm ==
    \/ \E s \in Schedulers : PrepareStartup(s)
    \/ \E w \in Schedulers \cup Repairs : Seeks(w)
    \/ \E h \in Repairs : RepairSelects(h) \/ RepairMarks(h) \/ RepairFindsNone(h)
    \/ \E r \in Requests : RefreshAccount(r) \/ RefreshClaims(r)
    \/ \E w \in Workers : Works(w)
    \/ PageLoads \/ PageReads \/ PageQueuesUpgrade
    \/ LeaseExpires /\ worker[lease] \notin {"claimed", "computed"}
    \/ BecomesDue

StatsNext == StatsCalm \/ Disturbance

StatsSpec == StatsInit /\ [][StatsNext]_statsVars

(***************************************************************************)
(* The scheduler loops for ever and every await of a worker returns; time  *)
(* passes.  Nothing obliges anyone to call a repair, a refresh or a page.  *)
(***************************************************************************)
StatsFairness ==
    /\ \A s \in Schedulers : WF_statsVars(PrepareStartup(s)) /\ WF_statsVars(Seeks(s))
    /\ \A w \in Workers : WF_statsVars(Works(w))
    /\ WF_statsVars(LeaseExpires) /\ WF_statsVars(BecomesDue)

FairStatsSpec == StatsSpec /\ StatsFairness

---------------------------------------------------------------------------
(* Properties.                                                             *)

\* A row that is not marked dirty has a generation, computed from the facts as
\* they are: no interleaving of edits, claims, late workers, repairs and pages
\* loses the mark of an edit (publish, stats_mark_user).
SettledIsCurrent == ~dirty => generation # NoGeneration /\ generation.facts = facts

\* What readers are shown never predates a removal: a worker that computed
\* before it cannot bring the removed history back (publish against
\* stats_user_fact_changed and stats_visibility_changed).
RemovedStaysHidden ==
    generation # NoGeneration => generation.facts >= removed.facts /\ generation.shared >= removed.shared

\* A lease that has not lapsed ends only by the worker it was made for: neither
\* a second claim, nor a repair, nor the late failure of an earlier holder
\* takes it away (claim_next, refresh_account, record_failure).
LeaseIsOwn ==
    [][lease # NoGeneration /\ ~expired /\ lease' # lease =>
           /\ lease' = NoGeneration
           /\ worker[lease] \in {"claimed", "computed"} /\ worker'[lease] \in {"idle", "asking"}]_statsVars

\* Publication is atomic and current, and only a removal takes it away.
Overview == INSTANCE Generations WITH published <- generation, None <- NoGeneration
GenerationsImplemented == Overview!GSpec

Current ==
    generation # NoGeneration /\ generation = [facts |-> facts, shared |-> shared, shape |-> shape]

\* Once changes, failures and restarts stop, the account is shown a generation
\* of its present facts, of the present metadata and of the present version,
\* whatever workers died before and whatever they left in the row.
Converges == <>[][StatsCalm]_statsVars => <>[]Current
=============================================================================
