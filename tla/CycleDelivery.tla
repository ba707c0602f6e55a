--------------------------- MODULE CycleDelivery ---------------------------
(***************************************************************************)
(* Outbound delivery of what one user's pull cycles accepted               *)
(* (core/sync_delivery.py, core/pull_cycle.py, _flush_pull_cycle of        *)
(* core/scheduler.py, the fan-out of core/outbound_sync.py).               *)
(*                                                                         *)
(* finalize commits the accepted ratings together with a delivery batch.   *)
(* The batch is then written to every destination, one at a time, each     *)
(* acknowledged in the row of the job; what is left after a failure or a   *)
(* crash is retried by the scheduler.  A cycle that runs holds one         *)
(* PullCycleState, registered under the user, into which every other       *)
(* fan-out of that user is deferred.  The data are ratings: a new rating   *)
(* or the removal of one.                                                  *)
(***************************************************************************)
EXTENDS Naturals, FiniteSets

CONSTANTS
    Batches,      \* pull cycles, and the batches they leave behind
    Targets,      \* destinations of a batch: those with a push option, and Queues
    Queues,       \* the destination "queues": work kept in tables of its own
    Connections,  \* those whose account can be replaced on the connection
    Items,        \* rated titles
    Scores,       \* values of a rating
    Nothing,      \* no rating, no entry
    MaxEdits,     \* bound: edits by the user per title
    MaxSwitches,  \* bound: account replacements per connection
    MayCrash      \* whether the process may die

ASSUME TargetAssumption == Queues \in Targets /\ Connections \subseteq Targets \ {Queues}
ASSUME NothingAssumption == Nothing \notin Scores
ASSUME BoundAssumption == MaxEdits \in Nat /\ MaxSwitches \in Nat

VARIABLES
    rating,      \* durable: canonical ratings of the user
    version,     \* durable: identity_version of every destination
    ratings,     \* durable: new_ratings of every accepted batch
    removed,     \* durable: removed_ratings of every accepted batch
    fence,       \* durable: connection_versions of every accepted batch
    targets,     \* durable: delivery_targets
    done,        \* durable: delivery_done
    pending,     \* durable: batches with delivery_pending
    active,      \* the cycle registered in pull_cycle._states, none or one
    captured,    \* connection_versions that cycle read when it started
    stateNew,    \* new_ratings of the PullCycleState in use
    stateGone,   \* removed_ratings of the PullCycleState in use
    job,         \* the batch _deliver_cycle works on, none or one
    todo,        \* its destinations not yet attempted
    target,      \* the destination being written, none or one
    sending,     \* the writes to it not yet answered
    failed,      \* one of them failed
    queued,      \* background tasks of local edits not yet started
    fanning,     \* writes of local edits not yet answered
    remote,      \* the world: ratings at the current account of a destination
    edits,       \* edits of a title by the user
    touched,     \* titles the user has edited since the cycle started
    superseded,  \* history: titles of a batch whose rating a later one changed
    reached,     \* history: destinations offered what the user last gave a title
    withheld     \* history: batches whose last flush to a destination sent it nothing

batch   == <<ratings, removed, fence, targets>>
durable == <<rating, version, batch, done, pending>>
cycle   == <<active, captured, stateNew, stateGone>>
flight  == <<job, todo, target, sending, failed>>
local   == <<queued, fanning>>
user    == <<edits, touched>>
history == <<superseded, reached, withheld>>
vars    == <<durable, cycle, flight, local, remote, user, history>>

Rated == Scores \cup {Nothing}
Write == [item : Items, value : Rated]

TypeOK ==
    /\ rating \in [Items -> Rated]
    /\ version \in [Targets -> 0..MaxSwitches]
    /\ ratings \in [Batches -> [Items -> Rated]]
    /\ removed \in [Batches -> SUBSET Items]
    /\ fence \in [Batches -> [Targets -> 0..MaxSwitches]]
    /\ targets \in [Batches -> SUBSET Targets]
    /\ done \in [Batches -> SUBSET Targets]
    /\ pending \subseteq Batches
    /\ active \subseteq Batches
    /\ captured \in [Targets -> 0..MaxSwitches]
    /\ stateNew \in [Items -> Rated]
    /\ stateGone \subseteq Items
    /\ job \subseteq Batches
    /\ todo \subseteq Targets
    /\ target \subseteq todo
    /\ sending \subseteq Write
    /\ failed \in BOOLEAN
    /\ queued \subseteq Write
    /\ fanning \subseteq [item : Items, value : Rated, to : Targets]
    /\ remote \in [Targets -> [Items -> Rated]]
    /\ edits \in [Items -> 0..MaxEdits]
    /\ touched \subseteq Items
    /\ superseded \in [Batches -> SUBSET Items]
    /\ reached \subseteq Targets \X Items
    /\ withheld \subseteq Batches \X Targets

NoEntry == [i \in Items |-> Nothing]

Init ==
    /\ rating = NoEntry
    /\ version = [t \in Targets |-> 0]
    /\ ratings = [b \in Batches |-> NoEntry]
    /\ removed = [b \in Batches |-> {}]
    /\ fence = [b \in Batches |-> [t \in Targets |-> 0]]
    /\ targets = [b \in Batches |-> {}]
    /\ done = [b \in Batches |-> {}]
    /\ pending = {}
    /\ active = {}
    /\ captured = [t \in Targets |-> 0]
    /\ stateNew = NoEntry
    /\ stateGone = {}
    /\ job = {}
    /\ todo = {}
    /\ target = {}
    /\ sending = {}
    /\ failed = FALSE
    /\ queued = {}
    /\ fanning = {}
    /\ remote = [t \in Targets |-> NoEntry]
    /\ edits = [i \in Items |-> 0]
    /\ touched = {}
    /\ superseded = [b \in Batches |-> {}]
    /\ reached = {}
    /\ withheld = {}

---------------------------------------------------------------------------
(* The cycle up to finalize.                                               *)

\* The lock of pull_cycle._locks: a cycle holds it to its end, a retry while it
\* delivers.
CycleLockFree == active = {} /\ job = {}

\* coordinated_pull_cycle registers an empty state, initialize captures the
\* identities.
CycleStarts(b) ==
    /\ CycleLockFree
    /\ targets[b] = {}
    /\ active' = {b}
    /\ captured' = version
    /\ stateNew' = NoEntry
    /\ stateGone' = {}
    /\ touched' = {}
    /\ UNCHANGED <<durable, flight, local, remote, edits, history>>

\* The state of the cycle is dropped with its clock.
Unregister ==
    /\ active' = {}
    /\ captured' = [t \in Targets |-> 0]
    /\ stateNew' = NoEntry
    /\ stateGone' = {}
    /\ touched' = {}

\* The cycle is cancelled or finalize fails: everything it collected is dropped.
CycleFails ==
    /\ active # {} /\ job = {}
    /\ Unregister
    /\ UNCHANGED <<durable, flight, local, remote, edits, history>>

\* What reconciliation may accept: a changed rating, and not over one the user has
\* given since the cycle started; a rating the user removed has no clock to tell.
Acceptable ==
    {a \in [Items -> Rated] : \A i \in Items : a[i] # Nothing =>
        a[i] # rating[i] /\ (i \in touched => rating[i] = Nothing)}

SameIdentities == {t \in Targets : version[t] = captured[t]}

\* new_ratings are rebuilt from what is accepted, removed_ratings are kept, and the
\* batch is committed with the ratings.
Finalize(b) ==
    /\ active = {b} /\ job = {}
    /\ \E a \in Acceptable :
        /\ rating' = [i \in Items |-> IF a[i] = Nothing THEN rating[i] ELSE a[i]]
        /\ ratings' = [ratings EXCEPT ![b] = a]
        /\ stateNew' = a
        /\ superseded' = [c \in Batches |->
                            IF c = b THEN {}
                            ELSE superseded[c] \cup {i \in Items : a[i] # Nothing}]
        /\ reached' = {r \in reached : a[r[2]] = Nothing}
    /\ removed' = [removed EXCEPT ![b] = stateGone]
    /\ fence' = [fence EXCEPT ![b] = captured]
    /\ targets' = [targets EXCEPT ![b] = SameIdentities]
    /\ pending' = pending \cup {b}
    /\ job' = {b}
    /\ todo' = SameIdentities
    /\ UNCHANGED <<version, done, active, captured, stateGone, target, sending, failed,
                   local, remote, user, withheld>>

---------------------------------------------------------------------------
(* _deliver_cycle, run by the cycle itself or by retry_cycle_deliveries.    *)

\* A batch left pending is decoded under the cycle lock; nothing is registered.
RetryBegins(b) ==
    /\ CycleLockFree
    /\ b \in pending
    /\ stateNew' = ratings[b]
    /\ stateGone' = removed[b]
    /\ job' = {b}
    /\ todo' = targets[b] \ done[b]
    /\ UNCHANGED <<durable, active, captured, target, sending, failed, local, remote,
                   user, history>>

SameAccount(b, t) == version[t] = fence[b][t]

\* Mutant: the ratings are sent as the cycle left them.
UnfilteredRatings == stateNew

\* The ratings and removals of the state that are still canonical.
CurrentRatings == [i \in Items |-> IF stateNew[i] = rating[i] THEN rating[i] ELSE Nothing]
CurrentRemovals == {i \in stateGone : rating[i] = Nothing}

\* A destination whose account was replaced is passed over; otherwise whatever is no
\* longer canonical is dropped from the state.
TurnsTo(b, t) ==
    /\ job = {b} /\ target = {} /\ t \in todo
    /\ target' = {t}
    /\ failed' = FALSE
    /\ IF SameAccount(b, t) /\ t # Queues
       THEN stateNew' = CurrentRatings /\ stateGone' = CurrentRemovals
       ELSE UNCHANGED <<stateNew, stateGone>>
    /\ UNCHANGED <<durable, active, captured, job, todo, local, remote, user, superseded,
                   reached>>

\* The rest is sent.
FlushBegins(b, t) ==
    /\ TurnsTo(b, t)
    /\ sending' = {w \in Write :
                        /\ SameAccount(b, t) /\ t # Queues
                        /\ IF w.value = Nothing THEN w.item \in CurrentRemovals
                                              ELSE w.value = CurrentRatings[w.item]}
    /\ withheld' = withheld \ {<<b, t>>}

\* A destination refuses writes during a clear, an onboarding, while its baseline is not
\* approved or a conflict is open, as the environment has it.  It is sent nothing, and
\* that is no failure.
FlushWithheld(b, t) ==
    /\ TurnsTo(b, t) /\ SameAccount(b, t) /\ t # Queues
    /\ sending' = {}
    /\ withheld' = withheld \cup {<<b, t>>}

Flush(b, t) == FlushBegins(b, t) \/ FlushWithheld(b, t)

\* A write is confirmed, or fails before or after it had its effect.
Offers(t, w) ==
    {<<t, i>> : i \in {w.item} \cap {k \in Items : edits[k] > 0 /\ rating[k] = w.value}}

FlushWrites(t, w) ==
    /\ target = {t} /\ w \in sending
    /\ sending' = sending \ {w}
    /\ remote' = [remote EXCEPT ![t][w.item] = w.value]
    /\ reached' = reached \cup Offers(t, w)
    /\ UNCHANGED <<durable, cycle, job, todo, target, failed, local, user, superseded,
                   withheld>>

\* Mutant: an exception among the gathered writes is swallowed.
FlushWriteFailsUnnoticed(t, w) ==
    /\ target = {t} /\ w \in sending
    /\ sending' = sending \ {w}
    /\ \/ UNCHANGED remote
       \/ remote' = [remote EXCEPT ![t][w.item] = w.value]
    /\ reached' = reached \cup Offers(t, w)
    /\ UNCHANGED <<durable, cycle, job, todo, target, failed, local, user, superseded,
                   withheld>>

FlushWriteFails(t, w) ==
    /\ target = {t} /\ w \in sending
    /\ sending' = sending \ {w}
    /\ failed' = TRUE
    /\ \/ UNCHANGED remote
       \/ remote' = [remote EXCEPT ![t][w.item] = w.value]
    /\ reached' = reached \cup Offers(t, w)
    /\ UNCHANGED <<durable, cycle, job, todo, target, local, user, superseded, withheld>>

\* Mutant: the batch is compared with what was acknowledged before.
AcknowledgeLate(b, t) ==
    /\ job = {b} /\ target = {t} /\ sending = {} /\ ~failed
    /\ done' = [done EXCEPT ![b] = @ \cup {t}]
    /\ pending' = IF targets[b] \subseteq done[b] THEN pending \ {b} ELSE pending
    /\ target' = {}
    /\ todo' = todo \ {t}
    /\ UNCHANGED <<rating, version, batch, cycle, job, sending, failed, local, remote,
                   user, history>>

\* The acknowledgement is a transaction of its own; the last one retires the batch.
Acknowledge(b, t) ==
    /\ job = {b} /\ target = {t} /\ sending = {} /\ ~failed
    /\ done' = [done EXCEPT ![b] = @ \cup {t}]
    /\ pending' = IF targets[b] \subseteq done[b] \cup {t} THEN pending \ {b} ELSE pending
    /\ target' = {}
    /\ todo' = todo \ {t}
    /\ UNCHANGED <<rating, version, batch, cycle, job, sending, failed, local, remote,
                   user, history>>

\* The error is kept and the other destinations are still attempted.
FlushFails(t) ==
    /\ target = {t} /\ sending = {} /\ failed
    /\ target' = {}
    /\ failed' = FALSE
    /\ todo' = todo \ {t}
    /\ UNCHANGED <<durable, cycle, job, sending, local, remote, user, history>>

\* Mutant: the batch is dropped once every destination was attempted.
DeliveryEndsRetires ==
    /\ job # {} /\ todo = {}
    /\ pending' = pending \ job
    /\ job' = {}
    /\ Unregister
    /\ UNCHANGED <<rating, version, batch, done, todo, target, sending, failed, local,
                   remote, edits, history>>

\* The locks are released and the state of a cycle is unregistered.
DeliveryEnds ==
    /\ job # {} /\ todo = {}
    /\ job' = {}
    /\ Unregister
    /\ UNCHANGED <<durable, todo, target, sending, failed, local, remote, edits, history>>

---------------------------------------------------------------------------
(* The user, the accounts, the process.                                    *)

\* The user rates a title or removes the rating; the fan-out follows in a task.
Edit(i, v) ==
    /\ edits[i] < MaxEdits /\ v # rating[i]
    /\ rating' = [rating EXCEPT ![i] = v]
    /\ edits' = [edits EXCEPT ![i] = @ + 1]
    /\ touched' = IF active = {} THEN {} ELSE touched \cup {i}
    /\ queued' = queued \cup {[item |-> i, value |-> v]}
    /\ reached' = {r \in reached : r[2] # i}
    /\ UNCHANGED <<version, batch, done, pending, cycle, flight, fanning, remote,
                   superseded, withheld>>

\* fan_out_changes: deferred into the registered state if there is one, otherwise
\* written to every destination but those that refuse it now, which are not told later.
Defer(w) ==
    IF w.value = Nothing
    THEN stateGone' = stateGone \cup {w.item} /\ UNCHANGED stateNew
    ELSE stateNew' = [stateNew EXCEPT ![w.item] = w.value] /\ UNCHANGED stateGone

FanOut(w, refusing) ==
    /\ w \in queued
    /\ queued' = queued \ {w}
    /\ IF active # {}
       THEN Defer(w) /\ UNCHANGED fanning
       ELSE /\ fanning' = fanning \cup {[item |-> w.item, value |-> w.value, to |-> t] :
                                            t \in Targets \ ({Queues} \cup refusing)}
            /\ UNCHANGED <<stateNew, stateGone>>
    /\ UNCHANGED <<durable, active, captured, flight, remote, user, history>>

LocalFanOut(w) == \E refusing \in SUBSET (Targets \ {Queues}) : FanOut(w, refusing)

\* A failed write of a local edit is counted in the log and not retried.
LocalWrite(f) ==
    /\ f \in fanning
    /\ fanning' = fanning \ {f}
    /\ \/ UNCHANGED remote
       \/ remote' = [remote EXCEPT ![f.to][f.item] = f.value]
    /\ reached' = reached \cup Offers(f.to, f)
    /\ UNCHANGED <<durable, cycle, flight, queued, user, superseded, withheld>>

\* The account of a connection is replaced; the new one has ratings of its own.
Switch(t) ==
    /\ version[t] < MaxSwitches
    /\ version' = [version EXCEPT ![t] = @ + 1]
    /\ remote' = [remote EXCEPT ![t] = NoEntry]
    /\ withheld' = {p \in withheld : p[2] # t}
    /\ UNCHANGED <<rating, batch, done, pending, cycle, flight, local, user, superseded,
                   reached>>

\* The process dies: everything but the database is lost.
Crash ==
    /\ MayCrash
    /\ Unregister
    /\ job' = {}
    /\ todo' = {}
    /\ target' = {}
    /\ sending' = {}
    /\ failed' = FALSE
    /\ queued' = {}
    /\ fanning' = {}
    /\ withheld' = {p \in withheld : p[2] \in done[p[1]]}
    /\ UNCHANGED <<durable, remote, edits, superseded, reached>>

---------------------------------------------------------------------------
Delivery ==
    \/ \E b \in Batches : RetryBegins(b)
    \/ \E b \in Batches, t \in Targets : Flush(b, t) \/ Acknowledge(b, t)
    \/ \E t \in Targets, w \in Write : FlushWrites(t, w)
    \/ \E t \in Targets : FlushFails(t)
    \/ DeliveryEnds

Environment ==
    \/ \E i \in Items, v \in Rated : Edit(i, v)
    \/ \E w \in Write  : LocalFanOut(w)
    \/ \E f \in [item : Items, value : Rated, to : Targets] : LocalWrite(f)
    \/ \E t \in Connections : Switch(t)

\* What may happen for ever without costing a batch its delivery, and what may not.
Undisturbed ==
    \/ \E b \in Batches : CycleStarts(b) \/ Finalize(b)
    \/ CycleFails
    \/ Delivery
    \/ Environment

Disturbed == Crash \/ \E t \in Targets, w \in Write : FlushWriteFails(t, w)

Next == Undisturbed \/ Disturbed

Spec == Init /\ [][Next]_vars

\* The tasks of the event loop proceed and the destinations answer.  The scheduler
\* ticks every minute, so a batch left pending is retried between two pulls.
Fairness ==
    /\ \A b \in Batches : SF_vars(RetryBegins(b)) /\ WF_vars(Finalize(b))
    /\ \A b \in Batches, t \in Targets :
            WF_vars(Flush(b, t)) /\ WF_vars(Acknowledge(b, t))
    /\ \A t \in Targets : WF_vars(FlushFails(t))
    /\ WF_vars(\E t \in Targets, w \in Write : FlushWrites(t, w) \/ FlushWriteFails(t, w))
    /\ WF_vars(DeliveryEnds)

FairSpec == Spec /\ Fairness

---------------------------------------------------------------------------
(* Properties.                                                             *)

Untouched(i) == edits[i] = 0

\* A destination acknowledged for a batch holds every accepted rating of it that
\* is still the canonical one, unless the account was replaced since, or the flush met a
\* destination that refuses writes (_deliver_cycle marks a destination done after any
\* flush that did not fail, and _fan_out_changes passes over such a one in silence).
AcknowledgedIsDelivered ==
    \A b \in Batches, t \in Targets \ {Queues}, i \in Items :
        /\ t \in done[b] /\ SameAccount(b, t) /\ <<b, t>> \notin withheld
        /\ ratings[b][i] # Nothing /\ i \notin superseded[b] /\ Untouched(i)
        => remote[t][i] = rating[i]

\* Nothing that is being written is older than the canonical rating: a retry never
\* replays a rating over a newer one, because no cycle runs beside it
\* (_flush_pull_cycle filters by the canonical ratings, retry_cycle_deliveries
\* shares the lock of the cycles).
InFlightIsCurrent ==
    \A w \in sending : Untouched(w.item) => w.value = rating[w.item]

(* The abstract specification of what happens to an accepted batch.          *)
BatchPhase(b) ==
    IF b \in pending THEN "pending" ELSE IF targets[b] = {} THEN "absent" ELSE "retired"

Abstract == INSTANCE Outbox WITH
    phase <- [b \in Batches |-> BatchPhase(b)],
    owed  <- [b \in Batches |-> targets[b] \ done[b]]

\* "At-least-once handoff; a failure leaves the committed batch recoverable": through
\* failed writes, replaced accounts and crashes a batch stays pending exactly until
\* each of its destinations has acknowledged it, and is not accepted twice.
OutboxImplemented == Abstract!Spec

\* Once neither crashes nor refused writes recur, every batch is delivered and
\* retired (retry_cycle_deliveries).
Settles ==
    <>[][Undisturbed]_vars => \A b \in Batches : (b \in pending) ~> (b \notin pending)

\* "fan-out is accumulated until every available pull has finished": when nothing
\* is left to do, every destination was offered the rating the user last gave
\* (core/pull_cycle.py).  The code violates it: _finalize clears the deferred
\* ratings, and what is deferred while the batch is delivered is never saved.
AtRest == queued = {} /\ fanning = {} /\ active = {} /\ job = {} /\ pending = {}

LocalEditOffered ==
    AtRest => \A i \in Items, t \in Targets \ {Queues} :
                ~Untouched(i) => <<t, i>> \in reached
=============================================================================
