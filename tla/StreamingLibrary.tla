-------------------------- MODULE StreamingLibrary --------------------------
(***************************************************************************)
(* The streaming library of one user (core/streaming_library.py): what the *)
(* user or a provider last decided about a title, the delivery of the      *)
(* decision to every Stremio or Nuvio connection, its retry by the         *)
(* scheduler and by a sync of a connection, and the clear of a connection. *)
(*                                                                         *)
(* A dispatch holds the row of the user from the first read to the commit  *)
(* that follows the last remote write.  A sync of a connection loads its   *)
(* delivery rows before it takes that lock and keeps them: its session is  *)
(* made with expire_on_commit=False, and a row already in the identity map *)
(* is not read again by a later SELECT.  An assignment to a loaded row     *)
(* writes only the columns whose value differs from the loaded one.        *)
(***************************************************************************)
EXTENDS FiniteSets

CONSTANTS
    Connections,  \* Stremio and Nuvio connections of the user
    Resyncing,    \* those that sync again while the instance runs
    Configured,   \* those whose push_collection or account the user changes
    Owned,        \* those whose library the owner changes at the provider
    Titles,       \* films and series
    Fresh         \* a dispatch by a session of its own

ASSUME EnvironmentAssumption == Resyncing \cup Configured \cup Owned \subseteq Connections
ASSUME FreshAssumption == Fresh \notin Connections

VARIABLES
    desired,    \* durable: streaming_library_intents.desired
    row,        \* durable: state and desired of streaming_library_deliveries
    push,       \* durable: connections with push_collection
    newer,      \* durable: connections whose baseline is older than the intent
    remote,     \* the world: membership at the provider
    edited,     \* the world: changes by the owner that no pull has seen
    holder,     \* the dispatch that holds the lock of the user, none or one
    todo,       \* its deliveries not yet attempted
    loaded,     \* the delivery rows it works on
    outcome,    \* the states it assigned, not yet committed
    session,    \* position of retry_pending_library_deliveries
    want,       \* desired of the intents it read
    seen,       \* the delivery rows it holds in its identity map
    titles,     \* titles it has still to dispatch
    foreign,    \* history: memberships the owner changed since our last write
    quiet,      \* history: deliveries settled by a clear or by their own source
    strayed     \* history: deliveries in doubt after a decision, see Strayed

durable == <<desired, row, push, newer>>
world   == <<remote, edited>>
flight  == <<holder, todo, loaded, outcome>>
resync  == <<session, want, seen, titles>>
history == <<foreign, quiet, strayed>>
vars    == <<durable, world, flight, resync, history>>

Membership == {"in", "out"}
RowState == {"none", "pending", "applied", "observed", "cancelled", "cleared"}
Row == [state : RowState, desired : Membership]
NoRow == [state |-> "none", desired |-> "out"]
NoRows == [t \in Titles |-> NoRow]
NoIntents == [t \in Titles |-> "none"]

TypeOK ==
    /\ desired \in [Titles -> Membership \cup {"none"}]
    /\ row \in [Connections -> [Titles -> Row]]
    /\ push \subseteq Connections
    /\ newer \in [Titles -> SUBSET Connections]
    /\ remote \in [Connections -> [Titles -> Membership]]
    /\ edited \subseteq Connections \X Titles
    /\ holder \subseteq [title : Titles, by : Connections \cup {Fresh}]
    /\ todo \subseteq Connections
    /\ holder = {} => todo = {}
    /\ loaded \in [Connections -> Row]
    /\ outcome \in [Connections -> {"none", "applied", "cancelled"}]
    /\ session \in [Connections -> {"none", "read", "dispatching"}]
    /\ want \in [Connections -> [Titles -> Membership \cup {"none"}]]
    /\ seen \in [Connections -> [Titles -> Row]]
    /\ titles \in [Connections -> SUBSET Titles]
    /\ foreign \subseteq Connections \X Titles
    /\ quiet \subseteq Connections \X Titles
    /\ strayed \subseteq Connections \X Titles

Init ==
    /\ desired = NoIntents
    /\ row = [c \in Connections |-> NoRows]
    /\ push = Connections
    /\ newer = [t \in Titles |-> {}]
    /\ remote = [c \in Connections |-> [t \in Titles |-> "out"]]
    /\ edited = {}
    /\ holder = {}
    /\ todo = {}
    /\ loaded = [c \in Connections |-> NoRow]
    /\ outcome = [c \in Connections |-> "none"]
    /\ session = [c \in Connections |-> "none"]
    /\ want = [c \in Connections |-> NoIntents]
    /\ seen = [c \in Connections |-> NoRows]
    /\ titles = [c \in Connections |-> {}]
    /\ foreign = {}
    /\ quiet = {}
    /\ strayed = {}

---------------------------------------------------------------------------
(* Decisions.                                                              *)

\* The row of the user is locked by every dispatch, choice, delta and clear.
UserLockFree == holder = {}
Retrying == {c \in Connections : session[c] # "none"}
Waiting(t) == {c \in Connections : row[c][t].state = "pending"}
Of(t) == Connections \X {t}

\* Mutant of Redecide: a row that waits is left as it is.
RedecideIdle(r, on, d, changed) ==
    IF ~on THEN IF r.state = "pending" THEN [r EXCEPT !.state = "cancelled"] ELSE r
    ELSE IF r.state \in {"none", "applied", "observed", "cancelled", "cleared"}
         THEN [state |-> "pending", desired |-> d] ELSE r

\* What an explicit choice makes of a delivery: a destination that left is
\* cancelled, one that does not already agree is queued.
Redecide(r, on, d, changed) ==
    IF ~on THEN IF r.state = "pending" THEN [r EXCEPT !.state = "cancelled"] ELSE r
    ELSE IF \/ r.state \in {"none", "cancelled", "cleared"}
            \/ changed \/ r.desired # d
         THEN [state |-> "pending", desired |-> d] ELSE r

\* set_library_intent: the user's choice is newer than every observation.
SetLibraryIntent(t, d) ==
    /\ UserLockFree
    /\ LET changed == desired[t] \notin {"none", d}
       IN  row' = [c \in Connections |->
                     [row[c] EXCEPT ![t] = Redecide(@, c \in push, d, changed)]]
    /\ desired' = [desired EXCEPT ![t] = d]
    /\ newer' = [newer EXCEPT ![t] = Connections]
    /\ quiet' = quiet \ Of(t)
    /\ strayed' = {s \in strayed : s[2] # t \/ row'[s[1]][t].state = "applied"}
                     \cup {<<c, t>> : c \in Retrying}
    /\ UNCHANGED <<push, world, flight, resync, foreign>>

\* queue_provider_library_changes with one source: an accepted change of its owner
\* is the new decision unless a choice is newer; the source is settled, its peers
\* are queued, and the row of a connection without push_collection is passed over.  A
\* sync outside the cycle, or one that outlived its cancelled job, may retry meanwhile.
QueueProviderChange(c, t) ==
    /\ UserLockFree
    /\ <<c, t>> \in edited /\ c \notin newer[t]
    /\ desired' = [desired EXCEPT ![t] = remote[c][t]]
    /\ row' = [d \in Connections |->
                 [row[d] EXCEPT ![t] =
                    IF d = c THEN [state |-> "observed", desired |-> remote[c][t]]
                    ELSE IF d \in push THEN [state |-> "pending", desired |-> remote[c][t]]
                    ELSE @]]
    /\ \E older \in SUBSET (Connections \ {c}) : newer' = [newer EXCEPT ![t] = older]
    /\ edited' = edited \ {<<c, t>>}
    /\ foreign' = foreign \ {<<c, t>>}
    /\ quiet' = (quiet \ Of(t)) \cup {<<c, t>>}
    /\ strayed' = {s \in strayed : s[2] # t \/ s[1] \notin push \cup {c}}
                     \cup {<<d, t>> : d \in Retrying \cup (Waiting(t) \ (push \cup {c}))}
    /\ UNCHANGED <<push, remote, flight, resync>>

\* A snapshot of the connection becomes its baseline: what it shows is no change
\* any more, whether it was accepted or not.
ObserveSnapshot(c) ==
    /\ newer' = [t \in Titles |-> newer[t] \ {c}]
    /\ edited' = edited \ ({c} \X Titles)
    /\ UNCHANGED <<desired, row, push, remote, flight, resync, history>>

\* All deliveries of a connection are decided anew; if a sync keeps the old ones, all
\* of them are in doubt.
Renewed(c) ==
    IF c \in Retrying THEN strayed \cup ({c} \X Titles) ELSE strayed \ ({c} \X Titles)

\* clear_pending_library_deliveries and the clear itself: every intent gets a
\* settled delivery, then the remote library is emptied, or a part of it if the clear
\* fails.  Between the two, dispatches are refused.  No job of a sync of the connection
\* is active, but a sync whose job was cancelled may still retry.
ClearConnection(c) ==
    /\ UserLockFree
    /\ row' = [row EXCEPT ![c] =
                 [t \in Titles |-> IF desired[t] = "none" THEN row[c][t]
                                   ELSE [state |-> "cleared", desired |-> desired[t]]]]
    /\ \E gone \in SUBSET Titles :
         remote' = [remote EXCEPT ![c] = [t \in Titles |-> IF t \in gone THEN "out" ELSE @[t]]]
    /\ edited' = edited \ ({c} \X Titles)
    /\ foreign' = foreign \ ({c} \X Titles)
    /\ quiet' = quiet \cup {<<c, t>> : t \in {u \in Titles : desired[u] # "none"}}
    /\ strayed' = Renewed(c)
    /\ UNCHANGED <<desired, push, newer, flight, resync>>

\* The user switches push_collection of a connection.
SetPush(c) ==
    /\ c \in Configured /\ UserLockFree
    /\ push' = IF c \in push THEN push \ {c} ELSE push \cup {c}
    /\ UNCHANGED <<desired, row, newer, world, flight, resync, history>>

\* The owner changes the library at the provider.
RemoteEdit(c, t) ==
    /\ c \in Owned
    /\ \E m \in Membership \ {remote[c][t]} : remote' = [remote EXCEPT ![c][t] = m]
    /\ edited' = edited \cup {<<c, t>>}
    /\ foreign' = foreign \cup {<<c, t>>}
    /\ UNCHANGED <<durable, flight, resync, quiet, strayed>>

---------------------------------------------------------------------------
(* dispatch_library_deliveries.                                            *)

\* The rows are found by their committed state; one the session already holds is
\* not read again.
Begin(t, by, held) ==
    /\ UserLockFree /\ Waiting(t) # {}
    /\ holder' = {[title |-> t, by |-> by]}
    /\ todo' = Waiting(t)
    /\ loaded' = [c \in Connections |-> IF c \notin Waiting(t) THEN NoRow
                                        ELSE IF c \in held THEN seen[c][t] ELSE row[c][t]]
    /\ UNCHANGED outcome

\* The task of a choice, the route that retries a title, and the scheduler.
Dispatch(t) ==
    /\ Begin(t, Fresh, {})
    /\ UNCHANGED <<durable, world, resync, history>>

Release ==
    /\ holder' = {}
    /\ todo' = {}
    /\ loaded' = [c \in Connections |-> NoRow]
    /\ outcome' = [c \in Connections |-> "none"]

\* The title has no id at the providers: nothing is attempted, all stay pending.
RecordFails(h) ==
    /\ h \in holder
    /\ todo = Waiting(h.title)
    /\ Release
    /\ UNCHANGED <<durable, world, resync, history>>

Assign(c, s) ==
    /\ todo' = todo \ {c}
    /\ outcome' = [outcome EXCEPT ![c] = s]

\* Mutant: a destination that left is skipped and stays queued.
DeliverSkippedStays(c) ==
    /\ c \in todo /\ c \notin push
    /\ Assign(c, "none")
    /\ UNCHANGED <<durable, world, holder, loaded, resync, history>>

\* The destination does not take part any more.
DeliverSkipped(c) ==
    /\ c \in todo /\ c \notin push
    /\ Assign(c, "cancelled")
    /\ UNCHANGED <<durable, world, holder, loaded, resync, history>>

Write(h, c) ==
    /\ remote' = [remote EXCEPT ![c][h.title] = loaded[c].desired]
    /\ foreign' = foreign \ {<<c, h.title>>}

\* The connection awaits a review or is being cleared, or the provider refuses, or
\* does not answer although it wrote: then the next pull takes it for an edit.
Attempt(h, c) ==
    \/ UNCHANGED <<world, foreign>>
    \/ /\ remote[c][h.title] # loaded[c].desired
       /\ Write(h, c)
       /\ edited' = edited \cup {<<c, h.title>>}

\* The provider confirms the write, and the membership is recorded.
Deliver(h, c) ==
    /\ h \in holder /\ c \in todo /\ c \in push
    /\ Write(h, c)
    /\ edited' = edited \ {<<c, h.title>>}
    /\ Assign(c, "applied")
    /\ UNCHANGED <<durable, holder, loaded, resync, quiet, strayed>>

\* Mutant: an answer that was lost counts as success.
DeliverFailsUnnoticed(h, c) ==
    /\ h \in holder /\ c \in todo /\ c \in push
    /\ Attempt(h, c)
    /\ Assign(c, "applied")
    /\ UNCHANGED <<durable, holder, loaded, resync, quiet, strayed>>

\* The delivery stays pending.
DeliverFails(h, c) ==
    /\ h \in holder /\ c \in todo /\ c \in push
    /\ Attempt(h, c)
    /\ Assign(c, "none")
    /\ UNCHANGED <<durable, holder, loaded, resync, quiet, strayed>>

\* One commit after all destinations: a state is written if it differs from the one
\* loaded.  The session that dispatched keeps what it assigned.
Commit(h) ==
    LET new(c) == IF outcome[c] \in {"none", loaded[c].state} THEN row[c][h.title].state
                  ELSE outcome[c]
    IN  /\ h \in holder /\ todo = {}
        /\ row' = [c \in Connections |-> [row[c] EXCEPT ![h.title].state = new(c)]]
        /\ seen' = [c \in Connections |->
                      IF c = h.by /\ outcome[c] # "none" /\ seen[c][h.title] # NoRow
                      THEN [seen[c] EXCEPT ![h.title].state = outcome[c]] ELSE seen[c]]
        /\ titles' = [c \in Connections |-> IF c = h.by THEN titles[c] \ {h.title} ELSE titles[c]]
        /\ Release
        /\ UNCHANGED <<desired, push, newer, world, session, want, history>>

---------------------------------------------------------------------------
(* retry_pending_library_deliveries, by the sync of a connection.          *)

RetryReads(c) ==
    /\ c \in Resyncing \cap push /\ session[c] = "none"
    /\ session' = [session EXCEPT ![c] = "read"]
    /\ want' = [want EXCEPT ![c] = desired]
    /\ seen' = [seen EXCEPT ![c] = row[c]]
    /\ UNCHANGED <<durable, world, flight, titles, history>>

Missing(c, t) == want[c][t] # "none" /\ seen[c][t] = NoRow

\* Mutant of Differs: what a clear or the source itself settled is queued as well.
DiffersOrQuiet(c, t) ==
    /\ want[c][t] # "none" /\ seen[c][t] # NoRow
    /\ \/ seen[c][t].desired # want[c][t]
       \/ seen[c][t].state \in {"cancelled", "cleared", "observed"}

Differs(c, t) ==
    /\ want[c][t] # "none" /\ seen[c][t] # NoRow
    /\ seen[c][t].desired # want[c][t] \/ seen[c][t].state = "cancelled"

\* The columns the flush writes: those that differ from what was read.
Flushed(c, t) ==
    IF Missing(c, t) THEN [state |-> "pending", desired |-> want[c][t]]
    ELSE IF Differs(c, t)
         THEN [state   |-> IF seen[c][t].state = "pending" THEN row[c][t].state ELSE "pending",
               desired |-> IF seen[c][t].desired = want[c][t] THEN row[c][t].desired
                                                              ELSE want[c][t]]
    ELSE row[c][t]

\* The flush is committed with the first dispatch; here at once, so others may see it
\* a little earlier.  It locks the rows it writes, and a holder of the lock of the
\* user that is to write one of them deadlocks with it, so it finds that lock free.
\* A row it inserts is not kept in the identity map.
RetryQueues(c) ==
    /\ session[c] = "read" /\ UserLockFree
    /\ \A t \in Titles : Missing(c, t) => row[c][t] = NoRow
    /\ row' = [row EXCEPT ![c] = [t \in Titles |-> Flushed(c, t)]]
    /\ seen' = [seen EXCEPT ![c] =
                  [t \in Titles |-> IF Differs(c, t)
                                    THEN [state |-> "pending", desired |-> want[c][t]] ELSE @[t]]]
    /\ titles' = [titles EXCEPT ![c] = {t \in Titles : Flushed(c, t).state = "pending"}]
    /\ session' = [session EXCEPT ![c] = "dispatching"]
    /\ UNCHANGED <<desired, push, newer, world, flight, want, history>>

Leave(c) ==
    /\ session' = [session EXCEPT ![c] = "none"]
    /\ want' = [want EXCEPT ![c] = NoIntents]
    /\ seen' = [seen EXCEPT ![c] = NoRows]
    /\ UNCHANGED <<durable, world, flight, titles, history>>

\* uq_streaming_library_delivery: a choice inserted the row since; the sync fails.
RetryConflicts(c) ==
    /\ session[c] = "read" /\ UserLockFree
    /\ \E t \in Titles : Missing(c, t) /\ row[c][t] # NoRow
    /\ Leave(c)

\* Each title in turn: a dispatch in the session of the sync.
RetryDispatches(c, t) ==
    /\ session[c] = "dispatching" /\ t \in titles[c]
    /\ Begin(t, c, IF seen[c][t] = NoRow THEN {} ELSE {c})
    /\ UNCHANGED <<durable, world, resync, history>>

\* Nothing of the title is pending any more.
RetrySkips(c, t) ==
    /\ session[c] = "dispatching" /\ t \in titles[c]
    /\ UserLockFree /\ Waiting(t) = {}
    /\ titles' = [titles EXCEPT ![c] = @ \ {t}]
    /\ UNCHANGED <<durable, world, flight, session, want, seen, history>>

RetryEnds(c) ==
    /\ session[c] = "dispatching" /\ titles[c] = {}
    /\ Leave(c)

\* reset_stream_connection_state: another account, with a library of its own, and no
\* delivery; refused while a job of the connection is active.  A sync that outlived its
\* job keeps rows that are gone: if it is to write one its flush fails, which is told
\* here at once, and otherwise it leaves them alone.
SwitchAccount(c) ==
    /\ c \in Configured /\ UserLockFree
    /\ row' = [row EXCEPT ![c] = NoRows]
    /\ \E library \in [Titles -> Membership] : remote' = [remote EXCEPT ![c] = library]
    /\ edited' = edited \ ({c} \X Titles)
    /\ foreign' = foreign \ ({c} \X Titles)
    /\ quiet' = quiet \ ({c} \X Titles)
    /\ strayed' = Renewed(c)
    /\ session' = [session EXCEPT ![c] =
                     IF @ = "read" /\ \E t \in Titles : Differs(c, t) THEN "none" ELSE @]
    /\ want' = [want EXCEPT ![c] =
                  [t \in Titles |-> IF session'[c] # "none" /\ seen[c][t] = NoRow
                                    THEN @[t] ELSE "none"]]
    /\ seen' = [seen EXCEPT ![c] = NoRows]
    /\ UNCHANGED <<desired, push, newer, flight, titles>>

\* The process dies; the locks go with its transactions.
Crash ==
    /\ Release
    /\ session' = [c \in Connections |-> "none"]
    /\ want' = [c \in Connections |-> NoIntents]
    /\ seen' = [c \in Connections |-> NoRows]
    /\ titles' = [c \in Connections |-> {}]
    /\ UNCHANGED <<durable, world, history>>

---------------------------------------------------------------------------
Decide ==
    \/ \E t \in Titles, d \in Membership : SetLibraryIntent(t, d)
    \/ \E c \in Connections, t \in Titles :
            QueueProviderChange(c, t) \/ RemoteEdit(c, t)
    \/ \E c \in Connections : ObserveSnapshot(c) \/ ClearConnection(c)
    \/ \E c \in Connections : SetPush(c) \/ SwitchAccount(c)

Deliveries ==
    \/ \E t \in Titles : Dispatch(t)
    \/ \E h \in holder : Commit(h)
    \/ \E c \in Connections : DeliverSkipped(c)
    \/ \E h \in holder, c \in Connections : Deliver(h, c)

Retry ==
    \/ \E c \in Connections : RetryReads(c) \/ RetryQueues(c) \/ RetryConflicts(c) \/ RetryEnds(c)
    \/ \E c \in Connections, t \in Titles : RetryDispatches(c, t) \/ RetrySkips(c, t)

\* What may happen for ever without keeping a delivery pending, and what may not.
Undisturbed == Decide \/ Deliveries \/ Retry

Disturbed ==
    \/ Crash
    \/ \E h \in holder : RecordFails(h) \/ \E c \in Connections : DeliverFails(h, c)

Next == Undisturbed \/ Disturbed

Spec == Init /\ [][Next]_vars

\* The scheduler dispatches what is pending every minute, oldest first; a row lock
\* serves its waiters in order; every call to a provider ends or times out.
Fairness ==
    /\ \A t \in Titles : SF_vars(Dispatch(t))
    /\ WF_vars(\E h \in holder : Commit(h))
    /\ \A c \in Connections : WF_vars(DeliverSkipped(c) \/ \E h \in holder : Deliver(h, c))

FairSpec == Spec /\ Fairness

---------------------------------------------------------------------------
(* Properties.                                                             *)

\* Strayed: the title was decided, or the connection cleared or given another account,
\* while a sync of the connection kept the rows it had read, or a provider's change passed
\* over a waiting row because push_collection was off.  A later decision that queues or
\* settles the row with no sync about ends the doubt.

\* A delivery applied for the current decision has reached the provider, and the
\* provider still shows it unless the owner changed it there: whatever failed, was
\* cleared or was decided before, the last write was the last decision
\* (dispatch_library_deliveries holds the lock of the user through its writes).
Applied(c, t) == row[c][t] = [state |-> "applied", desired |-> desired[t]]

AppliedReached ==
    \A c \in Connections, t \in Titles :
        Applied(c, t) /\ <<c, t>> \notin foreign \cup strayed => remote[c][t] = desired[t]

\* What a dispatch is about to send is the decision in force: none is committed
\* between its reads and its writes.
SentIsChosen ==
    \A h \in holder, c \in todo :
        <<c, h.title>> \notin strayed => loaded[c].desired = desired[h.title]

\* A delivery settled by a clear or by an observation of the connection itself is
\* neither queued nor sent before a new choice or another provider's change, in
\* particular not by the syncs that follow (clear_pending_library_deliveries:
\* "a later provider sync must not recreate these writes"), unless it was settled beside
\* a sync of the connection that was retrying already.
QuietStays ==
    \A c \in Connections, t \in Titles :
        <<c, t>> \in quiet \ strayed =>
            /\ row[c][t].state \in {"cleared", "observed"}
            /\ \A h \in holder : h.title = t => c \notin todo

\* Once neither crashes nor failures recur, every pending delivery is retired, no
\* matter how choices, clears and syncs interfere with the scheduler.
Retired ==
    <>[][Undisturbed]_vars => \A c \in Connections, t \in Titles :
              (row[c][t].state = "pending") ~> (row[c][t].state # "pending")

\* "prevents an older delivery from applying after a newer library choice has been
\* committed" (dispatch_library_deliveries).  The code violates it: the session of a
\* sync keeps the row it read, sends its old value and marks the new one applied.
LastChoiceWins ==
    \A c \in Connections, t \in Titles :
        Applied(c, t) /\ <<c, t>> \notin foreign => remote[c][t] = desired[t]
=============================================================================
