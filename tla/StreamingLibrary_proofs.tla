----------------------- MODULE StreamingLibrary_proofs ----------------------
(***************************************************************************)
(* Proofs about StreamingLibrary, for any sets of connections and titles.  *)
(***************************************************************************)
EXTENDS StreamingLibrary, TLAPS

Dispatcher == [title : Titles, by : Connections \cup {Fresh}]

LEMMA StateType ==
    ASSUME NEW r \in Row, NEW s \in RowState
    PROVE  [r EXCEPT !.state = s] \in Row
BY DEF Row

\* What a decision or a flush makes of a row is a row.
LEMMA RedecideType ==
    ASSUME NEW r \in Row, NEW on \in BOOLEAN, NEW d \in Membership, NEW changed \in BOOLEAN
    PROVE  Redecide(r, on, d, changed) \in Row
BY DEF Redecide, Row, RowState

LEMMA FlushedType ==
    ASSUME TypeOK, NEW c \in Connections, NEW t \in Titles
    PROVE  /\ Flushed(c, t) \in Row
           /\ Differs(c, t) => want[c][t] \in Membership
<1>1. row[c][t] \in Row /\ seen[c][t] \in Row /\ want[c][t] \in Membership \cup {"none"}
  BY DEF TypeOK
<1>2. Missing(c, t) \/ Differs(c, t) => want[c][t] \in Membership
  BY <1>1 DEF Missing, Differs
<1> QED
  BY <1>1, <1>2 DEF Flushed, Row, RowState

\* The types of what only a dispatch changes.
FlightTypeOK ==
    /\ holder \subseteq Dispatcher
    /\ todo \subseteq Connections
    /\ holder = {} => todo = {}
    /\ loaded \in [Connections -> Row]
    /\ outcome \in [Connections -> {"none", "applied", "cancelled"}]

LEMMA NoRowType == NoRow \in Row /\ NoRows \in [Titles -> Row]
BY DEF NoRow, NoRows, Row, RowState, Membership

LEMMA ReleaseType == ASSUME Release PROVE FlightTypeOK'
BY NoRowType DEF Release, FlightTypeOK

LEMMA BeginType ==
    ASSUME TypeOK, NEW t \in Titles, NEW by \in Connections \cup {Fresh},
           NEW held \in SUBSET Connections, Begin(t, by, held)
    PROVE  FlightTypeOK'
<1>1. Waiting(t) \subseteq Connections /\ todo' = Waiting(t)
  BY DEF Begin, Waiting
<1>2. loaded' \in [Connections -> Row]
  <2>1. \A c \in Connections : seen[c][t] \in Row /\ row[c][t] \in Row
    BY DEF TypeOK
  <2> QED
    BY <2>1, NoRowType DEF Begin
<1>3. outcome' \in [Connections -> {"none", "applied", "cancelled"}]
  BY DEF Begin, TypeOK
<1>4. [title |-> t, by |-> by] \in Dispatcher
  BY DEF Dispatcher
<1>5. holder' \subseteq Dispatcher /\ holder' # {}
  BY <1>4 DEF Begin
<1> QED
  BY <1>1, <1>2, <1>3, <1>5 DEF FlightTypeOK

\* The types are preserved by every step.
LEMMA TypeStep == TypeOK /\ [Next]_vars => TypeOK'
<1> SUFFICES ASSUME TypeOK, [Next]_vars PROVE TypeOK'
  OBVIOUS
<1> USE DEF TypeOK, durable, world, flight, resync, history
<1>1. ASSUME NEW t \in Titles, NEW d \in Membership, SetLibraryIntent(t, d) PROVE TypeOK'
  <2> DEFINE changed == desired[t] \notin {"none", d}
  <2>1. \A c \in Connections : Redecide(row[c][t], c \in push, d, changed) \in Row
    <3> SUFFICES ASSUME NEW c \in Connections
                 PROVE  Redecide(row[c][t], c \in push, d, changed) \in Row
      OBVIOUS
    <3>1. row[c][t] \in Row /\ (c \in push) \in BOOLEAN /\ changed \in BOOLEAN
      OBVIOUS
    <3> HIDE DEF changed
    <3> QED
      BY <3>1, RedecideType
  <2>2. row' = [c \in Connections |->
                  [row[c] EXCEPT ![t] = Redecide(@, c \in push, d, changed)]]
    BY <1>1 DEF SetLibraryIntent
  <2>3. row' \in [Connections -> [Titles -> Row]]
    <3> HIDE DEF changed
    <3> QED
      BY <2>1, <2>2
  <2>4. desired' \in [Titles -> Membership \cup {"none"}] /\ newer' \in [Titles -> SUBSET Connections]
    BY <1>1 DEF SetLibraryIntent
  <2>5. quiet' \subseteq Connections \X Titles /\ strayed' \subseteq Connections \X Titles
    <3> HIDE DEF changed
    <3> QED
      BY <1>1 DEF SetLibraryIntent, Retrying
  <2> QED
    BY <1>1, <2>3, <2>4, <2>5 DEF SetLibraryIntent
<1>2. ASSUME NEW c \in Connections, NEW t \in Titles, QueueProviderChange(c, t) PROVE TypeOK'
  <2>1. remote[c][t] \in Membership
    OBVIOUS
  <2>2. row' \in [Connections -> [Titles -> Row]]
    BY <1>2, <2>1 DEF QueueProviderChange, Row, RowState
  <2>3. desired' \in [Titles -> Membership \cup {"none"}]
    BY <1>2, <2>1 DEF QueueProviderChange
  <2>4. newer' \in [Titles -> SUBSET Connections]
    BY <1>2 DEF QueueProviderChange
  <2>5. /\ quiet' \subseteq Connections \X Titles
        /\ strayed' \subseteq Connections \X Titles
    BY <1>2 DEF QueueProviderChange, Waiting, Retrying
  <2>6. edited' \subseteq Connections \X Titles /\ foreign' \subseteq Connections \X Titles
    BY <1>2 DEF QueueProviderChange
  <2> QED
    BY <1>2, <2>2, <2>3, <2>4, <2>5, <2>6 DEF QueueProviderChange
<1>3. ASSUME NEW c \in Connections, ObserveSnapshot(c) PROVE TypeOK'
  BY <1>3 DEF ObserveSnapshot
<1>4. ASSUME NEW c \in Connections, ClearConnection(c) PROVE TypeOK'
  <2>1. \A t \in Titles : desired[t] # "none" => [state |-> "cleared", desired |-> desired[t]] \in Row
    BY DEF Row, RowState
  <2>2. row' \in [Connections -> [Titles -> Row]]
    BY <1>4, <2>1 DEF ClearConnection
  <2>3. remote' \in [Connections -> [Titles -> Membership]]
    <3>1. PICK gone \in SUBSET Titles :
             remote' = [remote EXCEPT ![c] = [t \in Titles |-> IF t \in gone THEN "out" ELSE @[t]]]
      BY <1>4 DEF ClearConnection
    <3> QED
      BY <3>1 DEF Membership
  <2>4. /\ edited' \subseteq Connections \X Titles /\ foreign' \subseteq Connections \X Titles
        /\ quiet' \subseteq Connections \X Titles /\ strayed' \subseteq Connections \X Titles
    BY <1>4 DEF ClearConnection, Renewed
  <2> QED
    BY <1>4, <2>2, <2>3, <2>4 DEF ClearConnection
<1>5. ASSUME NEW c \in Connections, SetPush(c) PROVE TypeOK'
  BY <1>5 DEF SetPush
<1>6. ASSUME NEW c \in Connections, NEW t \in Titles, RemoteEdit(c, t) PROVE TypeOK'
  <2>1. remote' \in [Connections -> [Titles -> Membership]]
    BY <1>6 DEF RemoteEdit
  <2> QED
    BY <1>6, <2>1 DEF RemoteEdit
<1>7. ASSUME NEW t \in Titles, Dispatch(t) PROVE TypeOK'
  <2>1. FlightTypeOK'
    BY <1>7, BeginType DEF Dispatch
  <2> QED
    BY <1>7, <2>1 DEF Dispatch, FlightTypeOK, Dispatcher
<1>8. ASSUME NEW h \in holder, RecordFails(h) PROVE TypeOK'
  <2>1. FlightTypeOK'
    BY <1>8, ReleaseType DEF RecordFails
  <2> QED
    BY <1>8, <2>1 DEF RecordFails, FlightTypeOK, Dispatcher
<1>9. ASSUME NEW c \in Connections, DeliverSkipped(c) PROVE TypeOK'
  BY <1>9 DEF DeliverSkipped, Assign
<1>10. ASSUME NEW h \in holder, NEW c \in Connections, Deliver(h, c) \/ DeliverFails(h, c)
       PROVE  TypeOK'
  <2>1. h.title \in Titles /\ loaded[c].desired \in Membership
    BY DEF Row
  <2>2. remote' \in [Connections -> [Titles -> Membership]]
    <3>1. CASE Write(h, c)
      BY <2>1, <3>1 DEF Write
    <3>2. CASE UNCHANGED remote
      BY <3>2
    <3> QED
      BY <1>10, <3>1, <3>2 DEF Deliver, DeliverFails, Attempt
  <2>3. /\ edited' \subseteq Connections \X Titles /\ foreign' \subseteq Connections \X Titles
    BY <1>10, <2>1 DEF Deliver, DeliverFails, Attempt, Write
  <2> QED
    BY <1>10, <2>2, <2>3 DEF Deliver, DeliverFails, Assign
<1>11. ASSUME NEW h \in holder, Commit(h) PROVE TypeOK'
  <2> DEFINE new(c) == IF outcome[c] \in {"none", loaded[c].state} THEN row[c][h.title].state
                       ELSE outcome[c]
  <2>1. h.title \in Titles
    OBVIOUS
  <2>2. \A c \in Connections : new(c) \in RowState
    BY <2>1 DEF Row, RowState
  <2>3. row' = [c \in Connections |-> [row[c] EXCEPT ![h.title].state = new(c)]]
    BY <1>11 DEF Commit
  <2>4. row' \in [Connections -> [Titles -> Row]]
    <3> HIDE DEF new
    <3>1. \A c \in Connections : [row[c] EXCEPT ![h.title].state = new(c)] \in [Titles -> Row]
      <4> SUFFICES ASSUME NEW c \in Connections
                   PROVE  [row[c] EXCEPT ![h.title].state = new(c)] \in [Titles -> Row]
        OBVIOUS
      <4>1. [row[c][h.title] EXCEPT !.state = new(c)] \in Row
        <5>1. row[c][h.title] \in Row
          BY <2>1
        <5> QED
          BY <2>2, <5>1, StateType
      <4> QED
        BY <2>1, <4>1
    <3> QED
      BY <2>3, <3>1
  <2>5. seen' \in [Connections -> [Titles -> Row]]
    <3>1. \A c \in Connections :
             outcome[c] # "none" => [seen[c] EXCEPT ![h.title].state = outcome[c]] \in [Titles -> Row]
      <4> SUFFICES ASSUME NEW c \in Connections, outcome[c] # "none"
                   PROVE  [seen[c] EXCEPT ![h.title].state = outcome[c]] \in [Titles -> Row]
        OBVIOUS
      <4>1. [seen[c][h.title] EXCEPT !.state = outcome[c]] \in Row
        <5>1. seen[c][h.title] \in Row /\ outcome[c] \in RowState
          BY <2>1 DEF RowState
        <5> QED
          BY <5>1, StateType
      <4> QED
        BY <2>1, <4>1
    <3> QED
      BY <1>11, <3>1 DEF Commit
  <2>6. titles' \in [Connections -> SUBSET Titles]
    BY <1>11 DEF Commit
  <2>7. FlightTypeOK'
    BY <1>11, ReleaseType DEF Commit
  <2> QED
    BY <1>11, <2>4, <2>5, <2>6, <2>7 DEF Commit, FlightTypeOK, Dispatcher
<1>12. ASSUME NEW c \in Connections, RetryReads(c) PROVE TypeOK'
  BY <1>12 DEF RetryReads
<1>13. ASSUME NEW c \in Connections, RetryQueues(c) PROVE TypeOK'
  <2>1. \A t \in Titles : /\ Flushed(c, t) \in Row
                          /\ Differs(c, t) => want[c][t] \in Membership
    BY FlushedType
  <2>2. row' \in [Connections -> [Titles -> Row]]
    BY <1>13, <2>1 DEF RetryQueues
  <2>3. seen' \in [Connections -> [Titles -> Row]]
    BY <1>13, <2>1 DEF RetryQueues, Row, RowState
  <2>4. titles' \in [Connections -> SUBSET Titles]
    BY <1>13 DEF RetryQueues
  <2> QED
    BY <1>13, <2>2, <2>3, <2>4 DEF RetryQueues
<1>14. ASSUME NEW c \in Connections, RetryConflicts(c) \/ RetryEnds(c) PROVE TypeOK'
  <2>1. Leave(c)
    BY <1>14 DEF RetryConflicts, RetryEnds
  <2>2. want' \in [Connections -> [Titles -> Membership \cup {"none"}]]
    BY <2>1 DEF Leave, NoIntents
  <2>3. seen' \in [Connections -> [Titles -> Row]]
    BY <2>1, NoRowType DEF Leave
  <2> QED
    BY <2>1, <2>2, <2>3 DEF Leave
<1>15. ASSUME NEW c \in Connections, NEW t \in Titles, RetryDispatches(c, t) PROVE TypeOK'
  <2>1. FlightTypeOK'
    BY <1>15, BeginType DEF RetryDispatches
  <2> QED
    BY <1>15, <2>1 DEF RetryDispatches, FlightTypeOK, Dispatcher
<1>16. ASSUME NEW c \in Connections, NEW t \in Titles, RetrySkips(c, t) PROVE TypeOK'
  BY <1>16 DEF RetrySkips
<1>17. CASE Crash
  <2>1. FlightTypeOK'
    BY <1>17, ReleaseType DEF Crash
  <2> QED
    BY <1>17, <2>1, NoRowType DEF Crash, FlightTypeOK, Dispatcher, NoIntents
<1>18. CASE UNCHANGED vars
  BY <1>18 DEF vars
<1>19. ASSUME NEW c \in Connections, SwitchAccount(c) PROVE TypeOK'
  <2>1. row' \in [Connections -> [Titles -> Row]]
    BY <1>19, NoRowType DEF SwitchAccount
  <2>2. remote' \in [Connections -> [Titles -> Membership]]
    BY <1>19 DEF SwitchAccount
  <2>3. /\ edited' \subseteq Connections \X Titles /\ foreign' \subseteq Connections \X Titles
        /\ quiet' \subseteq Connections \X Titles /\ strayed' \subseteq Connections \X Titles
    BY <1>19 DEF SwitchAccount, Renewed
  <2>4. /\ session' \in [Connections -> {"none", "read", "dispatching"}]
        /\ seen' \in [Connections -> [Titles -> Row]]
    BY <1>19, NoRowType DEF SwitchAccount
  <2>5. want' \in [Connections -> [Titles -> Membership \cup {"none"}]]
    <3>1. want[c] \in [Titles -> Membership \cup {"none"}]
      OBVIOUS
    <3> QED
      BY <1>19, <3>1 DEF SwitchAccount
  <2> QED
    BY <1>19, <2>1, <2>2, <2>3, <2>4, <2>5 DEF SwitchAccount
<1> QED
  BY <1>1, <1>2, <1>3, <1>4, <1>5, <1>6, <1>7, <1>8, <1>9, <1>10, <1>11, <1>12, <1>13, <1>14,
     <1>15, <1>16, <1>17, <1>18, <1>19 DEF Next, Undisturbed, Disturbed, Decide, Deliveries, Retry

LEMMA InitTyped == Init => TypeOK
BY NoRowType DEF Init, TypeOK, NoIntents, NoRows, Membership

\* Every variable keeps its type (the tables of models/streaming_library.py and the
\* rows that dispatches and syncs hold).
THEOREM TypeCorrect == Spec => []TypeOK
BY InitTyped, TypeStep, PTL DEF Spec

---------------------------------------------------------------------------
(* What the deliveries rest on.                                            *)

\* The decision the row of a connection was queued for is in doubt: see strayed.
Kept(c, t) == <<c, t>> \notin strayed

\* One dispatch holds the lock of the user, and only it has deliveries under way: what
\* it has yet to do or has done is pending in the database until it commits.
Exclusive ==
    /\ \A g, h \in holder : g = h
    /\ \A c \in Connections : outcome[c] # "none" => holder # {} /\ c \notin todo
    /\ \A h \in holder, c \in Connections :
         c \in todo \/ outcome[c] # "none" => row[c][h.title].state = "pending"

\* What waits was queued for the decision in force.
WaitingIsChosen ==
    \A c \in Connections, t \in Titles :
        row[c][t].state = "pending" /\ Kept(c, t) => row[c][t].desired = desired[t]

\* A sync that keeps rows keeps what the database holds.
HeldIsCurrent ==
    \A c \in Retrying, t \in Titles :
        Kept(c, t) =>
            /\ want[c][t] = desired[t]
            /\ seen[c][t] # NoRow => seen[c][t].desired = row[c][t].desired
            /\ seen[c][t].state = "pending" => seen[c][t].desired = want[c][t]

\* A dispatch works on what the database holds.
LoadedIsCurrent ==
    \A h \in holder, c \in todo :
        Kept(c, h.title) => loaded[c].desired = row[c][h.title].desired

\* What a dispatch has sent, before and after its commit.
SentReached ==
    \A h \in holder, c \in Connections :
        outcome[c] = "applied" /\ <<c, h.title>> \notin foreign /\ Kept(c, h.title)
            => remote[c][h.title] = row[c][h.title].desired

RowReached ==
    \A c \in Connections, t \in Titles :
        row[c][t].state = "applied" /\ <<c, t>> \notin foreign /\ Kept(c, t)
            => remote[c][t] = row[c][t].desired

\* A settled delivery agrees with the decision, and so does the copy a sync keeps.
Settled ==
    \A c \in Connections, t \in Titles :
        <<c, t>> \in quiet /\ Kept(c, t) =>
            /\ row[c][t].state \in {"cleared", "observed"}
            /\ row[c][t].desired = desired[t]
            /\ c \in Retrying => seen[c][t] = row[c][t] /\ want[c][t] = desired[t]

\* There is no delivery of a title nobody has decided about, and nothing to settle.
Undecided ==
    \A t \in Titles : desired[t] = "none" =>
        \A c \in Connections :
            row[c][t].state = "none" /\ want[c][t] = "none" /\ <<c, t>> \notin quiet

\* Everything but the types.
Parts ==
    /\ Exclusive
    /\ WaitingIsChosen
    /\ HeldIsCurrent
    /\ LoadedIsCurrent
    /\ SentReached
    /\ RowReached
    /\ Settled
    /\ Undecided

LEMMA FrameStep ==
    ASSUME Parts, UNCHANGED <<desired, row, remote, flight, session, want, seen, history>>
    PROVE  Parts'
BY DEF Parts, Exclusive, WaitingIsChosen, HeldIsCurrent, LoadedIsCurrent, SentReached, RowReached,
       Settled, Undecided, Kept, Retrying, flight, history

\* The owner's change counts as foreign from then on.
LEMMA RemoteEditStep ==
    ASSUME TypeOK, Parts, NEW c \in Connections, NEW t \in Titles, RemoteEdit(c, t)
    PROVE  Parts'
<1> USE DEF RemoteEdit, durable, flight, resync, Kept, Retrying
<1>1. Exclusive' /\ WaitingIsChosen' /\ HeldIsCurrent' /\ LoadedIsCurrent' /\ Settled'
      /\ Undecided'
  BY DEF Parts, Exclusive, WaitingIsChosen, HeldIsCurrent, LoadedIsCurrent, Settled, Undecided
<1>2. \A d \in Connections, u \in Titles :
         <<d, u>> \notin foreign' => <<d, u>> \notin foreign /\ remote'[d][u] = remote[d][u]
  BY DEF TypeOK
<1>3. SentReached' /\ RowReached'
  BY <1>2 DEF Parts, SentReached, RowReached, TypeOK
<1> QED
  BY <1>1, <1>3 DEF Parts

\* Nothing is under way once the lock is released.
LEMMA ReleaseStep ==
    ASSUME Parts, Release, UNCHANGED <<desired, row, remote, history>>, HeldIsCurrent', Settled',
           Undecided'
    PROVE  Parts'
BY DEF Parts, Release, Exclusive, WaitingIsChosen, LoadedIsCurrent, SentReached, RowReached, Kept,
       history

LEMMA RecordFailsStep ==
    ASSUME Parts, NEW h \in holder, RecordFails(h)
    PROVE  Parts'
<1>1. HeldIsCurrent' /\ Settled' /\ Undecided'
  BY DEF RecordFails, Parts, HeldIsCurrent, Settled, Undecided, Kept, Retrying, durable, resync, history
<1> QED
  BY <1>1, ReleaseStep DEF RecordFails, durable, world

LEMMA CrashStep == ASSUME TypeOK, Parts, Crash PROVE Parts'
<1>1. Retrying' = {}
  BY DEF Crash, Retrying
<1>2. HeldIsCurrent' /\ Settled' /\ Undecided'
  BY <1>1 DEF Crash, Parts, HeldIsCurrent, Settled, Undecided, NoIntents, Kept, durable, history
<1> QED
  BY <1>2, ReleaseStep DEF Crash, durable, world

\* A dispatch starts from the database, or from rows a sync keeps of it.
LEMMA BeginStep ==
    ASSUME TypeOK, Parts, NEW t \in Titles, NEW by \in Connections \cup {Fresh},
           NEW held \in SUBSET Connections, Begin(t, by, held),
           \A c \in held : c \in Retrying /\ seen[c][t] # NoRow,
           UNCHANGED <<durable, world, resync, history>>
    PROVE  Parts'
<1> USE DEF Begin, UserLockFree, durable, world, resync, history, Kept, Retrying
<1>1. WaitingIsChosen' /\ HeldIsCurrent' /\ RowReached' /\ Settled' /\ Undecided'
  BY DEF Parts, WaitingIsChosen, HeldIsCurrent, RowReached, Settled, Undecided
<1>2. \A c \in Connections : outcome'[c] = "none"
  BY DEF Parts, Exclusive
<1>3. Exclusive' /\ SentReached'
  BY <1>2 DEF Exclusive, SentReached, Waiting
<1>4. LoadedIsCurrent'
  <2> SUFFICES ASSUME NEW c \in Waiting(t), Kept(c, t)
               PROVE  loaded'[c].desired = row[c][t].desired
    BY DEF LoadedIsCurrent
  <2>1. c \in Connections
    BY DEF Waiting
  <2>2. c \in held => seen[c][t].desired = row[c][t].desired
    BY DEF Parts, HeldIsCurrent
  <2> QED
    BY <2>1, <2>2
<1> QED
  BY <1>1, <1>3, <1>4 DEF Parts

\* An attempt changes the outcome of its own destination, and the world there.
LEMMA AttemptStep ==
    ASSUME TypeOK, Parts, NEW h \in holder, NEW c \in todo, NEW s \in {"none", "applied", "cancelled"},
           Assign(c, s), Write(h, c) \/ UNCHANGED <<remote, foreign>>,
           s = "applied" => Write(h, c),
           UNCHANGED <<durable, holder, loaded, resync, quiet, strayed>>
    PROVE  Parts'
<1> USE DEF durable, resync, Kept, Retrying
<1>1. h.title \in Titles /\ c \in Connections
  BY DEF TypeOK
<1>2. WaitingIsChosen' /\ HeldIsCurrent' /\ Settled' /\ Undecided'
  BY DEF Parts, WaitingIsChosen, HeldIsCurrent, Settled, Undecided
<1>3. Exclusive' /\ LoadedIsCurrent'
  BY <1>1 DEF Parts, Exclusive, LoadedIsCurrent, Assign, TypeOK
<1>4. \A d \in Connections, u \in Titles :
         <<d, u>> # <<c, h.title>> =>
            remote'[d][u] = remote[d][u] /\ (<<d, u>> \in foreign' <=> <<d, u>> \in foreign)
  BY <1>1 DEF Write, TypeOK
<1>5. SentReached'
  <2> SUFFICES ASSUME NEW d \in Connections, outcome'[d] = "applied",
                      <<d, h.title>> \notin foreign', Kept(d, h.title)
               PROVE  remote'[d][h.title] = row[d][h.title].desired
    BY DEF SentReached, Parts, Exclusive
  <2>1. CASE d = c
    <3>1. s = "applied" /\ remote'[c][h.title] = loaded[c].desired
      BY <1>1, <2>1 DEF Assign, Write, TypeOK
    <3> QED
      BY <2>1, <3>1 DEF Parts, LoadedIsCurrent
  <2>2. CASE d # c
    <3>1. outcome[d] = "applied" /\ <<d, h.title>> \notin foreign
      BY <1>1, <1>4, <2>2 DEF Assign, TypeOK
    <3> QED
      BY <1>1, <1>4, <2>2, <3>1 DEF Parts, SentReached
  <2> QED
    BY <2>1, <2>2
<1>6. RowReached'
  <2> SUFFICES ASSUME NEW d \in Connections, NEW u \in Titles, row[d][u].state = "applied",
                      <<d, u>> \notin foreign', Kept(d, u)
               PROVE  remote'[d][u] = row[d][u].desired
    BY DEF RowReached
  <2>1. <<d, u>> # <<c, h.title>>
    BY DEF Parts, Exclusive, TypeOK
  <2> QED
    BY <1>4, <2>1 DEF Parts, RowReached
<1> QED
  BY <1>2, <1>3, <1>5, <1>6 DEF Parts

LEMMA DeliverStep ==
    ASSUME TypeOK, Parts, NEW h \in holder, NEW c \in Connections,
           DeliverSkipped(c) \/ Deliver(h, c) \/ DeliverFails(h, c)
    PROVE  Parts'
<1> USE DEF world, history
<1>1. CASE DeliverSkipped(c)
  BY <1>1, AttemptStep DEF DeliverSkipped
<1>2. CASE Deliver(h, c)
  BY <1>2, AttemptStep DEF Deliver
<1>3. CASE DeliverFails(h, c)
  BY <1>3, AttemptStep DEF DeliverFails, Attempt
<1> QED
  BY <1>1, <1>2, <1>3

\* The commit changes states only, and only of rows that waited.
LEMMA CommitStep ==
    ASSUME TypeOK, Parts, NEW h \in holder, Commit(h)
    PROVE  Parts'
<1> USE DEF world, history, Kept, Retrying
<1>1. h.title \in Titles
  BY DEF TypeOK
<1>2. \A c \in Connections, t \in Titles :
         /\ row'[c][t].desired = row[c][t].desired
         /\ \/ row'[c][t].state = row[c][t].state
            \/ /\ t = h.title /\ outcome[c] # "none" /\ row[c][t].state = "pending"
               /\ row'[c][t].state = outcome[c]
  <2> SUFFICES ASSUME NEW c \in Connections, NEW t \in Titles
               PROVE  /\ row'[c][t].desired = row[c][t].desired
                      /\ \/ row'[c][t].state = row[c][t].state
                         \/ /\ t = h.title /\ outcome[c] # "none" /\ row[c][t].state = "pending"
                            /\ row'[c][t].state = outcome[c]
    OBVIOUS
  <2> DEFINE new == IF outcome[c] \in {"none", loaded[c].state} THEN row[c][h.title].state
                    ELSE outcome[c]
  <2>1. row'[c] = [row[c] EXCEPT ![h.title].state = new]
    BY DEF Commit
  <2>2. row[c][t] \in Row /\ row[c][h.title] \in Row /\ row[c] \in [Titles -> Row]
    BY <1>1 DEF TypeOK
  <2>3. outcome[c] # "none" => row[c][h.title].state = "pending"
    BY DEF Parts, Exclusive
  <2>4. CASE t = h.title
    <3>1. row'[c][t] = [row[c][t] EXCEPT !.state = new]
      BY <2>1, <2>2, <2>4
    <3>2. row'[c][t].state = new /\ row'[c][t].desired = row[c][t].desired
      BY <2>2, <3>1 DEF Row
    <3> QED
      BY <2>3, <2>4, <3>2
  <2>5. CASE t # h.title
    BY <2>1, <2>2, <2>5
  <2> QED
    BY <2>4, <2>5
<1>3. \A c \in Connections, t \in Titles :
         \/ seen'[c][t] = seen[c][t]
         \/ /\ t = h.title /\ outcome[c] # "none" /\ seen[c][t] # NoRow
            /\ seen'[c][t].desired = seen[c][t].desired
            /\ seen'[c][t].state = outcome[c]
  <2> SUFFICES ASSUME NEW c \in Connections, NEW t \in Titles, seen'[c][t] # seen[c][t]
               PROVE  /\ t = h.title /\ outcome[c] # "none" /\ seen[c][t] # NoRow
                      /\ seen'[c][t].desired = seen[c][t].desired
                      /\ seen'[c][t].state = outcome[c]
    OBVIOUS
  <2>1. /\ outcome[c] # "none" /\ seen[c][h.title] # NoRow
        /\ seen'[c] = [seen[c] EXCEPT ![h.title].state = outcome[c]]
    BY DEF Commit
  <2>2. seen[c] \in [Titles -> Row] /\ seen[c][t] \in Row
    BY DEF TypeOK
  <2>3. t = h.title
    BY <2>1, <2>2
  <2>4. seen'[c][t] = [seen[c][t] EXCEPT !.state = outcome[c]]
    BY <2>1, <2>2, <2>3
  <2> QED
    BY <2>1, <2>2, <2>3, <2>4 DEF Row
<1>4. outcome \in [Connections -> {"none", "applied", "cancelled"}]
  BY DEF TypeOK
<1>5. UNCHANGED <<desired, remote, session, want, foreign, quiet, strayed>> /\ Release
  BY DEF Commit
<1>6. WaitingIsChosen'
  BY <1>2, <1>4, <1>5 DEF Parts, WaitingIsChosen
<1>7. HeldIsCurrent'
  <2> SUFFICES ASSUME NEW c \in Retrying, NEW t \in Titles, Kept(c, t)
               PROVE  /\ seen'[c][t] # NoRow => seen'[c][t].desired = row'[c][t].desired
                      /\ seen'[c][t].state = "pending" => seen'[c][t].desired = want[c][t]
    BY <1>5 DEF Parts, HeldIsCurrent
  <2>1. c \in Connections
    OBVIOUS
  <2>2. /\ seen[c][t] # NoRow => seen[c][t].desired = row[c][t].desired
        /\ seen[c][t].state = "pending" => seen[c][t].desired = want[c][t]
    BY DEF Parts, HeldIsCurrent
  <2> QED
    BY <1>2, <1>3, <1>4, <2>1, <2>2
<1>8. RowReached'
  <2> SUFFICES ASSUME NEW c \in Connections, NEW t \in Titles, row'[c][t].state = "applied",
                      <<c, t>> \notin foreign, Kept(c, t)
               PROVE  remote[c][t] = row[c][t].desired
    BY <1>2, <1>5 DEF RowReached
  <2>1. CASE row[c][t].state = "applied"
    BY <2>1 DEF Parts, RowReached
  <2>2. CASE t = h.title /\ outcome[c] = "applied"
    BY <2>2 DEF Parts, SentReached
  <2> QED
    BY <1>2, <2>1, <2>2
<1>9. Settled'
  <2> SUFFICES ASSUME NEW c \in Connections, NEW t \in Titles, <<c, t>> \in quiet, Kept(c, t)
               PROVE  row'[c][t] = row[c][t] /\ seen'[c][t] = seen[c][t]
    BY <1>5 DEF Parts, Settled
  <2>1. ~(t = h.title /\ outcome[c] # "none")
    BY DEF Parts, Settled, Exclusive
  <2>2. row[c][t] \in Row /\ row'[c][t].state = row[c][t].state
    BY <1>2, <2>1 DEF TypeOK
  <2>3. row'[c][t] = row[c][t]
    <3> DEFINE new == IF outcome[c] \in {"none", loaded[c].state} THEN row[c][h.title].state
                      ELSE outcome[c]
    <3>1. row'[c] = [row[c] EXCEPT ![h.title].state = new]
      BY DEF Commit
    <3>2. t = h.title => new = row[c][t].state
      BY <2>1
    <3>3. row[c] \in [Titles -> Row]
      BY DEF TypeOK
    <3>4. CASE t # h.title
      BY <3>1, <3>3, <3>4
    <3>5. CASE t = h.title
      <4>1. row'[c][t] = [row[c][t] EXCEPT !.state = row[c][t].state]
        BY <3>1, <3>2, <3>3, <3>5
      <4> QED
        BY <2>2, <4>1 DEF Row
    <3> QED
      BY <3>4, <3>5
  <2> QED
    BY <1>3, <2>1, <2>3
<1>10. Exclusive' /\ LoadedIsCurrent' /\ SentReached'
  BY <1>5 DEF Release, Exclusive, LoadedIsCurrent, SentReached
<1>11. Undecided'
  BY <1>2, <1>5 DEF Parts, Undecided
<1> QED
  BY <1>6, <1>7, <1>8, <1>9, <1>10, <1>11 DEF Parts

---------------------------------------------------------------------------
(* Decisions and clears, with the lock of the user free.                   *)

\* Nothing is under way, so what a decision changes concerns rows and syncs only.
LEMMA LockFreeStep ==
    ASSUME Parts, UserLockFree, UNCHANGED flight
    PROVE  Exclusive' /\ LoadedIsCurrent' /\ SentReached'
BY DEF Parts, UserLockFree, flight, Exclusive, LoadedIsCurrent, SentReached

LEMMA SetLibraryIntentStep ==
    ASSUME TypeOK, Parts, NEW t \in Titles, NEW d \in Membership, SetLibraryIntent(t, d)
    PROVE  Parts'
<1> USE DEF SetLibraryIntent, world, flight, resync
<1> DEFINE changed == desired[t] \notin {"none", d}
<1>1. Exclusive' /\ LoadedIsCurrent' /\ SentReached'
  BY LockFreeStep
<1>2. \A c \in Connections, u \in Titles :
         row'[c][u] = IF u = t THEN Redecide(row[c][t], c \in push, d, changed) ELSE row[c][u]
  BY DEF TypeOK
<1>3. \A u \in Titles : desired'[u] = IF u = t THEN d ELSE desired[u]
  BY DEF TypeOK
<1>4. /\ \A c \in Connections, u \in Titles :
            u # t \/ row'[c][u].state = "applied" => (Kept(c, u)' => Kept(c, u))
      /\ \A c \in Retrying : ~Kept(c, t)'
  <2> HIDE DEF changed
  <2> QED
    BY DEF Kept
<1>5. \A c \in Connections :
         /\ row'[c][t].state = "pending" => row'[c][t].desired = d
         /\ row'[c][t].state = "applied" => row'[c][t] = row[c][t]
  <2> SUFFICES ASSUME NEW c \in Connections
               PROVE  /\ row'[c][t].state = "pending" => row'[c][t].desired = d
                      /\ row'[c][t].state = "applied" => row'[c][t] = row[c][t]
    OBVIOUS
  <2>1. row[c][t] \in Row
    BY DEF TypeOK
  <2>2. row'[c][t] = Redecide(row[c][t], c \in push, d, changed)
    BY <1>2
  <2> HIDE DEF changed
  <2> QED
    BY <2>1, <2>2 DEF Redecide, Row
<1>6. WaitingIsChosen'
  <2> HIDE DEF SetLibraryIntent
  <2> QED
    BY <1>2, <1>3, <1>4, <1>5 DEF Parts, WaitingIsChosen
<1>7. RowReached'
  <2> UNCHANGED <<remote, foreign>>
    OBVIOUS
  <2> HIDE DEF SetLibraryIntent
  <2> QED
    BY <1>2, <1>4, <1>5 DEF Parts, RowReached
<1>8. HeldIsCurrent'
  <2> SUFFICES ASSUME NEW c \in Retrying, NEW u \in Titles, Kept(c, u)'
               PROVE  /\ want[c][u] = desired'[u]
                      /\ seen[c][u] # NoRow => seen[c][u].desired = row'[c][u].desired
                      /\ seen[c][u].state = "pending" => seen[c][u].desired = want[c][u]
    BY DEF HeldIsCurrent, Retrying
  <2>1. u # t /\ Kept(c, u) /\ c \in Connections
    <3>1. c \in Connections
      BY DEF Retrying
    <3> QED
      BY <1>4, <3>1
  <2> QED
    BY <1>2, <1>3, <2>1 DEF Parts, HeldIsCurrent
<1>9. Settled'
  <2>1. \A c \in Connections, u \in Titles : <<c, u>> \in quiet' => u # t /\ <<c, u>> \in quiet
    BY DEF Of
  <2>2. Retrying' = Retrying /\ UNCHANGED <<want, seen>>
    BY DEF Retrying
  <2> HIDE DEF SetLibraryIntent
  <2> QED
    BY <1>2, <1>3, <1>4, <2>1, <2>2 DEF Parts, Settled
<1>10. Undecided'
  <2>1. quiet' \subseteq quiet /\ UNCHANGED want
    OBVIOUS
  <2> HIDE DEF SetLibraryIntent
  <2> QED
    BY <1>2, <1>3, <2>1 DEF Parts, Undecided, Membership
<1> QED
  BY <1>1, <1>6, <1>7, <1>8, <1>9, <1>10 DEF Parts

LEMMA QueueProviderChangeStep ==
    ASSUME TypeOK, Parts, NEW s \in Connections, NEW t \in Titles, QueueProviderChange(s, t)
    PROVE  Parts'
<1> USE DEF QueueProviderChange, flight, resync
<1> DEFINE m == remote[s][t]
<1>1. Exclusive' /\ LoadedIsCurrent' /\ SentReached'
  BY LockFreeStep
<1>2. Retrying' = Retrying /\ Retrying \subseteq Connections
      /\ UNCHANGED <<want, seen>>
  BY DEF Retrying
<1>3. \A c \in Connections, u \in Titles :
         row'[c][u] = IF u # t THEN row[c][u]
                      ELSE IF c = s THEN [state |-> "observed", desired |-> m]
                      ELSE IF c \in push THEN [state |-> "pending", desired |-> m]
                      ELSE row[c][u]
  BY DEF TypeOK
<1>4. \A u \in Titles : desired'[u] = IF u = t THEN m ELSE desired[u]
  BY DEF TypeOK
<1>5. /\ \A c \in Connections, u \in Titles :
            u # t \/ c \notin push \cup {s} => (Kept(c, u)' => Kept(c, u))
      /\ \A c \in Connections :
            row[c][t].state = "pending" /\ c # s /\ c \notin push => ~Kept(c, t)'
      /\ \A c \in Retrying : ~Kept(c, t)'
  BY DEF Waiting, Kept
<1>11. m \in Membership
  BY DEF TypeOK
<1> HIDE DEF m
<1>6. WaitingIsChosen'
  <2> SUFFICES ASSUME NEW c \in Connections, NEW u \in Titles, row'[c][u].state = "pending",
                      Kept(c, u)'
               PROVE  row'[c][u].desired = desired'[u]
    BY DEF WaitingIsChosen
  <2>1. CASE u = t
    BY <1>3, <1>4, <1>5, <2>1
  <2>2. CASE u # t
    BY <1>3, <1>4, <1>5, <2>2 DEF Parts, WaitingIsChosen
  <2> QED
    BY <2>1, <2>2
<1>7. RowReached'
  <2> SUFFICES ASSUME NEW c \in Connections, NEW u \in Titles, row'[c][u].state = "applied",
                      <<c, u>> \notin foreign', Kept(c, u)'
               PROVE  remote[c][u] = row'[c][u].desired
    BY DEF RowReached
  <2>1. row'[c][u] = row[c][u] /\ <<c, u>> # <<s, t>>
    BY <1>3
  <2>2. u # t \/ c \notin push \cup {s}
    BY <1>3
  <2> QED
    BY <1>5, <2>1, <2>2 DEF Parts, RowReached
<1>8. HeldIsCurrent'
  <2> HIDE DEF QueueProviderChange
  <2> SUFFICES ASSUME NEW c \in Retrying, NEW u \in Titles, Kept(c, u)'
               PROVE  /\ want[c][u] = desired'[u]
                      /\ seen[c][u] # NoRow => seen[c][u].desired = row'[c][u].desired
                      /\ seen[c][u].state = "pending" => seen[c][u].desired = want[c][u]
    BY <1>2 DEF HeldIsCurrent
  <2>1. Kept(c, u) /\ row'[c][u] = row[c][u] /\ desired'[u] = desired[u]
    BY <1>2, <1>3, <1>4, <1>5
  <2> QED
    BY <2>1 DEF Parts, HeldIsCurrent
<1>9. Settled'
  <2> SUFFICES ASSUME NEW c \in Connections, NEW u \in Titles, <<c, u>> \in quiet', Kept(c, u)'
               PROVE  /\ row'[c][u].state \in {"cleared", "observed"}
                      /\ row'[c][u].desired = desired'[u]
                      /\ c \in Retrying => seen[c][u] = row'[c][u] /\ want[c][u] = desired'[u]
    BY <1>2 DEF Settled
  <2>1. CASE u = t
    <3>1. c = s /\ c \notin Retrying
      BY <1>5, <2>1 DEF Of
    <3> QED
      BY <1>3, <1>4, <2>1, <3>1
  <2>2. CASE u # t
    <3>1. <<c, u>> \in quiet /\ Kept(c, u)
      BY <1>5, <2>2 DEF Of
    <3> QED
      BY <1>3, <1>4, <2>2, <3>1 DEF Parts, Settled
  <2> QED
    BY <2>1, <2>2
<1>10. Undecided'
  <2>1. \A c \in Connections, u \in Titles : u # t /\ <<c, u>> \in quiet' => <<c, u>> \in quiet
    OBVIOUS
  <2> HIDE DEF QueueProviderChange
  <2> QED
    BY <1>2, <1>3, <1>4, <1>11, <2>1 DEF Parts, Undecided, Membership
<1> QED
  BY <1>1, <1>6, <1>7, <1>8, <1>9, <1>10 DEF Parts

LEMMA ClearStep ==
    ASSUME TypeOK, Parts, NEW s \in Connections, ClearConnection(s)
    PROVE  Parts'
<1> USE DEF ClearConnection, flight, resync
<1>1. Exclusive' /\ LoadedIsCurrent' /\ SentReached'
  BY LockFreeStep
<1>2. \A c \in Connections, u \in Titles :
         IF c = s /\ desired[u] # "none"
         THEN row'[c][u].state = "cleared" /\ row'[c][u].desired = desired[u]
         ELSE row'[c][u] = row[c][u] /\ (<<c, u>> \in quiet' => <<c, u>> \in quiet)
  BY DEF TypeOK
<1>11. \A c \in Connections, u \in Titles :
         c # s => remote'[c][u] = remote[c][u] /\ (<<c, u>> \in foreign' <=> <<c, u>> \in foreign)
  BY DEF TypeOK
<1>3. Retrying' = Retrying /\ Retrying \subseteq Connections
      /\ UNCHANGED <<desired, want, seen>>
  BY DEF Retrying
<1>4. \A c \in Connections, u \in Titles :
         Kept(c, u)' => (c = s /\ c \notin Retrying) \/ (c # s /\ Kept(c, u))
  BY DEF Kept, Renewed
<1> HIDE DEF ClearConnection
<1>5. \A u \in Titles : row'[s][u].state = "cleared" \/ row'[s][u].state = "none"
  BY <1>2 DEF Parts, Undecided
<1>6. WaitingIsChosen'
  <2> SUFFICES ASSUME NEW c \in Connections, NEW u \in Titles, row'[c][u].state = "pending",
                      Kept(c, u)'
               PROVE  row'[c][u].desired = desired[u]
    BY <1>3 DEF WaitingIsChosen
  <2>1. c # s
    BY <1>5
  <2>2. Kept(c, u) /\ row'[c][u] = row[c][u]
    BY <1>2, <1>4, <2>1
  <2> QED
    BY <2>2 DEF Parts, WaitingIsChosen
<1>7. HeldIsCurrent'
  <2> SUFFICES ASSUME NEW c \in Retrying, NEW u \in Titles, Kept(c, u)'
               PROVE  Kept(c, u) /\ row'[c][u] = row[c][u]
    BY <1>3 DEF Parts, HeldIsCurrent
  <2> QED
    BY <1>2, <1>3, <1>4
<1>8. Settled'
  <2> SUFFICES ASSUME NEW c \in Connections, NEW u \in Titles, <<c, u>> \in quiet', Kept(c, u)'
               PROVE  /\ row'[c][u].state \in {"cleared", "observed"}
                      /\ row'[c][u].desired = desired[u]
                      /\ c \in Retrying => seen[c][u] = row'[c][u] /\ want[c][u] = desired[u]
    BY <1>3 DEF Settled
  <2>1. CASE c = s
    <3>1. desired[u] # "none" /\ c \notin Retrying
      BY <1>2, <1>4, <2>1 DEF Parts, Undecided
    <3> QED
      BY <1>2, <2>1, <3>1
  <2>2. CASE c # s
    BY <1>2, <1>4, <2>2 DEF Parts, Settled
  <2> QED
    BY <2>1, <2>2
<1>9. Undecided'
  BY <1>2, <1>3 DEF Parts, Undecided
<1>10. RowReached'
  <2> SUFFICES ASSUME NEW c \in Connections, NEW u \in Titles, row'[c][u].state = "applied",
                      <<c, u>> \notin foreign', Kept(c, u)'
               PROVE  remote'[c][u] = row'[c][u].desired
    BY DEF RowReached
  <2>1. c # s /\ row'[c][u] = row[c][u]
    BY <1>2, <1>5
  <2> QED
    BY <1>4, <1>11, <2>1 DEF Parts, RowReached
<1> QED
  BY <1>1, <1>6, <1>7, <1>8, <1>9, <1>10 DEF Parts

LEMMA SwitchAccountStep ==
    ASSUME TypeOK, Parts, NEW s \in Connections, SwitchAccount(s)
    PROVE  Parts'
<1> USE DEF SwitchAccount, flight, resync
<1>1. Exclusive' /\ LoadedIsCurrent' /\ SentReached'
  BY LockFreeStep
<1>2. \A c \in Connections, u \in Titles :
         /\ c # s => /\ row'[c][u] = row[c][u] /\ remote'[c][u] = remote[c][u]
                     /\ <<c, u>> \in foreign' <=> <<c, u>> \in foreign
                     /\ Kept(c, u)' => Kept(c, u)
                     /\ <<c, u>> \in quiet' <=> <<c, u>> \in quiet
         /\ c = s => row'[c][u].state = "none" /\ <<c, u>> \notin quiet'
  BY DEF TypeOK, Kept, NoRows, NoRow, Renewed
<1>3. \A u \in Titles : s \in Retrying => ~Kept(s, u)'
  BY DEF Kept, Renewed
<1>4. Retrying' \subseteq Retrying /\ Retrying \subseteq Connections /\ UNCHANGED desired
  BY DEF Retrying, TypeOK
<1>5. \A c \in Connections :
         /\ c # s => want'[c] = want[c] /\ seen'[c] = seen[c]
         /\ \A u \in Titles : want'[c][u] = want[c][u] \/ want'[c][u] = "none"
  BY DEF TypeOK
<1> HIDE DEF SwitchAccount
<1>6. WaitingIsChosen'
  <2> SUFFICES ASSUME NEW c \in Connections, NEW u \in Titles, row'[c][u].state = "pending",
                      Kept(c, u)'
               PROVE  row'[c][u].desired = desired[u]
    BY <1>4 DEF WaitingIsChosen
  <2>1. c # s
    BY <1>2
  <2>2. row'[c][u] = row[c][u] /\ Kept(c, u)
    BY <1>2, <2>1
  <2> QED
    BY <2>2 DEF Parts, WaitingIsChosen
<1>7. HeldIsCurrent'
  <2> SUFFICES ASSUME NEW c \in Retrying', NEW u \in Titles, Kept(c, u)'
               PROVE  /\ c \in Retrying /\ Kept(c, u) /\ row'[c][u] = row[c][u]
                      /\ want'[c] = want[c] /\ seen'[c] = seen[c]
    BY <1>4 DEF Parts, HeldIsCurrent
  <2> QED
    BY <1>2, <1>3, <1>4, <1>5
<1>8. RowReached'
  BY <1>2 DEF Parts, RowReached
<1>9. Settled'
  BY <1>2, <1>4, <1>5 DEF Parts, Settled
<1>10. Undecided'
  <2> SUFFICES ASSUME NEW u \in Titles, desired[u] = "none", NEW c \in Connections
               PROVE  row'[c][u].state = "none" /\ want'[c][u] = "none" /\ <<c, u>> \notin quiet'
    BY <1>4 DEF Undecided
  <2> QED
    BY <1>2, <1>5 DEF Parts, Undecided
<1> QED
  BY <1>1, <1>6, <1>7, <1>8, <1>9, <1>10 DEF Parts

---------------------------------------------------------------------------
(* The retry of a sync.                                                    *)

LEMMA RetryReadsStep ==
    ASSUME TypeOK, Parts, NEW s \in Connections, RetryReads(s)
    PROVE  Parts'
<1> USE DEF RetryReads, durable, world, flight, history
<1>1. Exclusive' /\ WaitingIsChosen' /\ LoadedIsCurrent' /\ SentReached' /\ RowReached'
  BY DEF Parts, Exclusive, WaitingIsChosen, LoadedIsCurrent, SentReached, RowReached, Kept
<1>2. Retrying' = Retrying \cup {s}
  BY DEF Retrying, TypeOK
<1>3. \A c \in Connections :
         /\ want'[c] = IF c = s THEN desired ELSE want[c]
         /\ seen'[c] = IF c = s THEN row[c] ELSE seen[c]
  BY DEF TypeOK
<1>4. HeldIsCurrent' /\ Settled' /\ Undecided'
  BY <1>2, <1>3 DEF Parts, HeldIsCurrent, WaitingIsChosen, Settled, Undecided, Kept, Retrying
<1> QED
  BY <1>1, <1>4 DEF Parts

LEMMA LeaveStep ==
    ASSUME TypeOK, Parts, NEW s \in Connections, Leave(s)
    PROVE  Parts'
<1> USE DEF Leave, durable, world, flight, history
<1>1. Exclusive' /\ WaitingIsChosen' /\ LoadedIsCurrent' /\ SentReached' /\ RowReached'
  BY DEF Parts, Exclusive, WaitingIsChosen, LoadedIsCurrent, SentReached, RowReached, Kept
<1>2. Retrying' = Retrying \ {s}
  BY DEF Retrying, TypeOK
<1>3. \A c \in Connections :
         /\ want'[c] = IF c = s THEN NoIntents ELSE want[c]
         /\ seen'[c] = IF c = s THEN NoRows ELSE seen[c]
  BY DEF TypeOK
<1>4. HeldIsCurrent' /\ Settled' /\ Undecided'
  BY <1>2, <1>3 DEF Parts, HeldIsCurrent, Settled, Undecided, Kept, Retrying, NoIntents
<1> QED
  BY <1>1, <1>4 DEF Parts

\* What the flush makes of one row, and of the copy the sync keeps of it.
Agrees(s, t) ==
    /\ Kept(s, t) =>
          /\ row'[s][t] # row[s][t] =>
                row'[s][t].state = "pending" /\ row'[s][t].desired = desired[t]
          /\ seen'[s][t] # NoRow => seen'[s][t].desired = row'[s][t].desired
          /\ seen'[s][t].state = "pending" => seen'[s][t].desired = want[s][t]
    /\ <<s, t>> \in quiet /\ Kept(s, t) => row'[s][t] = row[s][t] /\ seen'[s][t] = seen[s][t]
    /\ desired[t] = "none" => row'[s][t] = row[s][t]

LEMMA FlushEffect ==
    ASSUME TypeOK, Parts, NEW s \in Connections, RetryQueues(s), NEW t \in Titles
    PROVE  Agrees(s, t)
<1> USE DEF Agrees
<1>1. /\ row'[s][t] = Flushed(s, t)
      /\ seen'[s][t] = IF Differs(s, t) THEN [state |-> "pending", desired |-> want[s][t]]
                       ELSE seen[s][t]
      /\ Missing(s, t) => row[s][t] = NoRow
      /\ s \in Retrying
  BY DEF RetryQueues, TypeOK, Retrying
<1>2. row[s][t] \in Row /\ seen[s][t] \in Row
  BY DEF TypeOK
<1>3. Kept(s, t) =>
         /\ want[s][t] = desired[t]
         /\ seen[s][t] # NoRow => seen[s][t].desired = row[s][t].desired
         /\ seen[s][t].state = "pending" => seen[s][t].desired = want[s][t]
  BY <1>1 DEF Parts, HeldIsCurrent
<1>4. <<s, t>> \in quiet /\ Kept(s, t) =>
         /\ row[s][t].state \in {"cleared", "observed"}
         /\ row[s][t].desired = want[s][t] /\ seen[s][t] = row[s][t]
  BY <1>1 DEF Parts, Settled
<1>5. desired[t] = "none" => want[s][t] = "none"
  BY DEF Parts, Undecided
<1>6. CASE Missing(s, t)
  <2>1. ~Differs(s, t) /\ row'[s][t] = [state |-> "pending", desired |-> want[s][t]]
    BY <1>1, <1>6 DEF Missing, Differs, Flushed
  <2>2. seen'[s][t] = NoRow /\ NoRow.state = "none" /\ want[s][t] # "none"
    BY <1>1, <1>6, <2>1 DEF Missing, NoRow
  <2>3. ~(<<s, t>> \in quiet /\ Kept(s, t))
    BY <1>1, <1>4, <1>6, <2>2
  <2> QED
    BY <1>3, <1>5, <2>1, <2>2, <2>3
<1>7. CASE Differs(s, t)
  <2>1. /\ row'[s][t] = [state |-> IF seen[s][t].state = "pending" THEN row[s][t].state
                                   ELSE "pending",
                         desired |-> IF seen[s][t].desired = want[s][t] THEN row[s][t].desired
                                     ELSE want[s][t]]
        /\ seen'[s][t] = [state |-> "pending", desired |-> want[s][t]]
    BY <1>1, <1>7 DEF Missing, Differs, Flushed
  <2>2. ~(<<s, t>> \in quiet /\ Kept(s, t)) /\ desired[t] # "none"
    BY <1>4, <1>5, <1>7 DEF Differs
  <2>3. Kept(s, t) => seen[s][t].state # "pending"
    BY <1>3, <1>7 DEF Differs
  <2>4. Kept(s, t) => row'[s][t].desired = want[s][t]
    BY <1>3, <1>7, <2>1 DEF Differs
  <2> QED
    BY <1>3, <2>1, <2>2, <2>3, <2>4
<1>8. CASE ~Missing(s, t) /\ ~Differs(s, t)
  BY <1>1, <1>3, <1>8 DEF Flushed
<1> QED
  BY <1>6, <1>7, <1>8

LEMMA RetryQueuesStep ==
    ASSUME TypeOK, Parts, NEW s \in Connections, RetryQueues(s)
    PROVE  Parts'
<1> USE DEF RetryQueues, world, flight, history
<1>1. Exclusive' /\ LoadedIsCurrent' /\ SentReached'
  BY LockFreeStep
<1>2. \A c \in Connections \ {s} : row'[c] = row[c] /\ seen'[c] = seen[c]
  BY DEF TypeOK
<1>3. Retrying' = Retrying
  BY DEF Retrying, TypeOK
<1>4. \A t \in Titles : Agrees(s, t)
  BY FlushEffect
<1>5. UNCHANGED <<desired, want, remote, foreign, quiet, strayed>>
  OBVIOUS
<1> HIDE DEF RetryQueues
<1>6. WaitingIsChosen'
  BY <1>2, <1>4, <1>5 DEF Parts, WaitingIsChosen, Agrees, Kept
<1>7. HeldIsCurrent'
  <2> SUFFICES ASSUME NEW c \in Retrying, NEW t \in Titles, Kept(c, t)
               PROVE  /\ want[c][t] = desired[t]
                      /\ seen'[c][t] # NoRow => seen'[c][t].desired = row'[c][t].desired
                      /\ seen'[c][t].state = "pending" => seen'[c][t].desired = want[c][t]
    BY <1>3, <1>5 DEF HeldIsCurrent, Kept
  <2>1. c \in Connections
    BY DEF Retrying
  <2>2. CASE c = s
    BY <1>4, <2>2 DEF Parts, HeldIsCurrent, Agrees
  <2>3. CASE c # s
    BY <1>2, <2>1, <2>3 DEF Parts, HeldIsCurrent
  <2> QED
    BY <2>2, <2>3
<1>8. RowReached'
  BY <1>2, <1>4, <1>5 DEF Parts, RowReached, Agrees, Kept
<1>9. Settled'
  BY <1>2, <1>3, <1>4, <1>5 DEF Parts, Settled, Agrees, Kept
<1>10. Undecided'
  <2> SUFFICES ASSUME NEW t \in Titles, desired[t] = "none", NEW c \in Connections
               PROVE  row'[c][t].state = "none" /\ want[c][t] = "none" /\ <<c, t>> \notin quiet
    BY <1>5 DEF Undecided
  <2>1. row'[c][t] = row[c][t]
    BY <1>2, <1>4 DEF Agrees
  <2> QED
    BY <2>1 DEF Parts, Undecided
<1> QED
  BY <1>1, <1>6, <1>7, <1>8, <1>9, <1>10 DEF Parts

---------------------------------------------------------------------------
LEMMA PartsStep == TypeOK /\ Parts /\ [Next]_vars => Parts'
<1> SUFFICES ASSUME TypeOK, Parts, [Next]_vars PROVE Parts'
  OBVIOUS
<1>1. ASSUME NEW t \in Titles, NEW d \in Membership, SetLibraryIntent(t, d) PROVE Parts'
  BY <1>1, SetLibraryIntentStep
<1>2. ASSUME NEW c \in Connections, NEW t \in Titles, QueueProviderChange(c, t) PROVE Parts'
  BY <1>2, QueueProviderChangeStep
<1>3. ASSUME NEW c \in Connections, NEW t \in Titles, RemoteEdit(c, t) PROVE Parts'
  BY <1>3, RemoteEditStep
<1>4. ASSUME NEW c \in Connections, ObserveSnapshot(c) \/ SetPush(c) PROVE Parts'
  BY <1>4, FrameStep DEF ObserveSnapshot, SetPush, resync, world
<1>5. ASSUME NEW c \in Connections, ClearConnection(c) PROVE Parts'
  BY <1>5, ClearStep
<1>6. ASSUME NEW t \in Titles, Dispatch(t) PROVE Parts'
  BY <1>6, BeginStep DEF Dispatch
<1>7. ASSUME NEW h \in holder, RecordFails(h) PROVE Parts'
  BY <1>7, RecordFailsStep
<1>8. ASSUME NEW h \in holder, Commit(h) PROVE Parts'
  BY <1>8, CommitStep
<1>9. ASSUME NEW c \in Connections, DeliverSkipped(c) PROVE Parts'
  <2>1. PICK h \in holder : TRUE
    BY <1>9 DEF DeliverSkipped, TypeOK
  <2> QED
    BY <1>9, <2>1, DeliverStep
<1>10. ASSUME NEW h \in holder, NEW c \in Connections, Deliver(h, c) \/ DeliverFails(h, c)
       PROVE  Parts'
  BY <1>10, DeliverStep
<1>11. ASSUME NEW c \in Connections, RetryReads(c) PROVE Parts'
  BY <1>11, RetryReadsStep
<1>12. ASSUME NEW c \in Connections, RetryQueues(c) PROVE Parts'
  BY <1>12, RetryQueuesStep
<1>13. ASSUME NEW c \in Connections, RetryConflicts(c) \/ RetryEnds(c) PROVE Parts'
  BY <1>13, LeaveStep DEF RetryConflicts, RetryEnds
<1>14. ASSUME NEW c \in Connections, NEW t \in Titles, RetryDispatches(c, t) PROVE Parts'
  <2>1. c \in Retrying
    BY <1>14 DEF RetryDispatches, Retrying
  <2> QED
    BY <1>14, <2>1, BeginStep DEF RetryDispatches
<1>15. ASSUME NEW c \in Connections, NEW t \in Titles, RetrySkips(c, t) PROVE Parts'
  BY <1>15, FrameStep DEF RetrySkips, durable, world
<1>16. CASE Crash
  BY <1>16, CrashStep
<1>17. CASE UNCHANGED vars
  BY <1>17, FrameStep DEF vars, durable, world, resync
<1>18. ASSUME NEW c \in Connections, SwitchAccount(c) PROVE Parts'
  BY <1>18, SwitchAccountStep
<1> QED
  BY <1>1, <1>2, <1>3, <1>4, <1>5, <1>6, <1>7, <1>8, <1>9, <1>10, <1>11, <1>12, <1>13, <1>14,
     <1>15, <1>16, <1>17, <1>18 DEF Next, Undisturbed, Disturbed, Decide, Deliveries, Retry

LEMMA InitParts == Init => Parts
<1> SUFFICES ASSUME Init PROVE Parts
  OBVIOUS
<1>1. \A c \in Connections, t \in Titles : row[c][t].state = "none" /\ want[c][t] = "none"
  BY DEF Init, NoRows, NoRow, NoIntents
<1>2. Retrying = {} /\ holder = {} /\ quiet = {} /\ \A c \in Connections : outcome[c] = "none"
  BY DEF Init, Retrying
<1> QED
  BY <1>1, <1>2 DEF Parts, Exclusive, WaitingIsChosen, HeldIsCurrent, LoadedIsCurrent, SentReached,
     RowReached, Settled, Undecided

LEMMA InductiveInvariant == Spec => [](TypeOK /\ Parts)
<1>1. Init => TypeOK /\ Parts
  BY InitTyped, InitParts
<1>2. TypeOK /\ Parts /\ [Next]_vars => (TypeOK /\ Parts)'
  BY TypeStep, PartsStep
<1> QED
  BY <1>1, <1>2, PTL DEF Spec

\* A delivery applied for the decision in force has reached the provider, unless the
\* owner changed it there since or the delivery is in doubt: decided, cleared or moved to
\* another account while a sync of the connection kept rows, or passed over while it
\* waited (dispatch_library_deliveries).
THEOREM AppliedReachedTheorem == Spec => []AppliedReached
<1>1. TypeOK /\ Parts => AppliedReached
  BY DEF Parts, RowReached, AppliedReached, Applied, Kept
<1> QED
  BY <1>1, InductiveInvariant, PTL

\* No dispatch sends an older decision than the one in force, to a connection whose
\* delivery is not in doubt: a choice or a provider's change beside a sync that keeps
\* rows puts it in doubt (dispatch_library_deliveries, set_library_intent).
THEOREM SentIsChosenTheorem == Spec => []SentIsChosen
<1>1. TypeOK /\ Parts => SentIsChosen
  <2> SUFFICES ASSUME TypeOK, Parts, NEW h \in holder, NEW c \in todo, Kept(c, h.title)
               PROVE  loaded[c].desired = desired[h.title]
    BY DEF SentIsChosen, Kept
  <2>1. h.title \in Titles /\ c \in Connections
    BY DEF TypeOK
  <2>2. row[c][h.title].state = "pending" /\ loaded[c].desired = row[c][h.title].desired
    BY <2>1 DEF Parts, Exclusive, LoadedIsCurrent
  <2> QED
    BY <2>1, <2>2 DEF Parts, WaitingIsChosen
<1> QED
  BY <1>1, InductiveInvariant, PTL

\* What a clear or the connection itself settled is left alone, unless a sync of the
\* connection kept rows when it was settled, one that outlived its cancelled job
\* included (clear_pending_library_deliveries, queue_provider_library_changes).
THEOREM QuietStaysTheorem == Spec => []QuietStays
<1>1. TypeOK /\ Parts => QuietStays
  BY DEF Parts, Settled, Exclusive, QuietStays, Kept
<1> QED
  BY <1>1, InductiveInvariant, PTL
=============================================================================
