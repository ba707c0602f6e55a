------------------------ MODULE CycleDelivery_proofs -----------------------
(***************************************************************************)
(* Proofs about CycleDelivery, for any sets of batches, destinations,      *)
(* titles and scores, and any bounds.                                      *)
(***************************************************************************)
EXTENDS CycleDelivery, TLAPS

Fanned == [item : Items, value : Rated, to : Targets]

\* No destination is being written without a batch, and no write is under way without
\* a destination.
Scoped == (job = {} => target = {}) /\ (target = {} => sending = {})

LEMMA ScopeStep == TypeOK /\ Scoped /\ [Next]_vars => Scoped'
<1> SUFFICES ASSUME TypeOK, Scoped, [Next]_vars PROVE Scoped'
  OBVIOUS
<1> USE DEF Scoped, durable, batch, cycle, flight, local, user, history
<1>1. ASSUME NEW b \in Batches, CycleStarts(b) \/ Finalize(b) \/ RetryBegins(b)
      PROVE  Scoped'
  BY <1>1 DEF CycleStarts, Finalize, RetryBegins
<1>2. ASSUME NEW b \in Batches, NEW t \in Targets, Flush(b, t) \/ Acknowledge(b, t)
      PROVE  Scoped'
  BY <1>2 DEF Flush, FlushBegins, FlushWithheld, TurnsTo, Acknowledge
<1>3. ASSUME NEW t \in Targets, NEW w \in Write, FlushWrites(t, w) \/ FlushWriteFails(t, w)
      PROVE  Scoped'
  BY <1>3 DEF FlushWrites, FlushWriteFails
<1>4. ASSUME NEW t \in Targets, FlushFails(t) PROVE Scoped'
  BY <1>4 DEF FlushFails
<1>5. CASE CycleFails \/ DeliveryEnds \/ Crash
  BY <1>5 DEF CycleFails, DeliveryEnds, Crash, TypeOK
<1>6. ASSUME NEW i \in Items, NEW v \in Rated, Edit(i, v) PROVE Scoped'
  BY <1>6 DEF Edit
<1>7. ASSUME NEW w \in Write, LocalFanOut(w) PROVE Scoped'
  BY <1>7 DEF LocalFanOut, FanOut
<1>8. ASSUME NEW f \in Fanned, LocalWrite(f) PROVE Scoped'
  BY <1>8 DEF LocalWrite
<1>9. ASSUME NEW t \in Connections, Switch(t) PROVE Scoped'
  BY <1>9 DEF Switch
<1>10. CASE UNCHANGED vars
  BY <1>10 DEF vars
<1> QED
  BY <1>1, <1>2, <1>3, <1>4, <1>5, <1>6, <1>7, <1>8, <1>9, <1>10
     DEF Next, Undisturbed, Disturbed, Delivery, Environment, Fanned

\* The types are preserved by every step.
LEMMA TypeStep == TypeOK /\ Scoped /\ [Next]_vars => TypeOK'
<1> SUFFICES ASSUME TypeOK, Scoped, [Next]_vars PROVE TypeOK'
  OBVIOUS
<1> USE TargetAssumption, NothingAssumption, BoundAssumption
        DEF TypeOK, durable, batch, cycle, flight, local, user, history, Rated
<1>1. ASSUME NEW b \in Batches, CycleStarts(b) PROVE TypeOK'
  BY <1>1 DEF CycleStarts, NoEntry
<1>2. ASSUME NEW b \in Batches, Finalize(b) PROVE TypeOK'
  <2>1. PICK a \in Acceptable :
            /\ rating' = [i \in Items |-> IF a[i] = Nothing THEN rating[i] ELSE a[i]]
            /\ ratings' = [ratings EXCEPT ![b] = a]
            /\ stateNew' = a
            /\ superseded' = [c \in Batches |->
                    IF c = b THEN {}
                    ELSE superseded[c] \cup {i \in Items : a[i] # Nothing}]
            /\ reached' = {r \in reached : a[r[2]] = Nothing}
    BY <1>2 DEF Finalize
  <2>2. a \in [Items -> Rated]
    BY DEF Acceptable
  <2>3. /\ rating' \in [Items -> Rated]
        /\ ratings' \in [Batches -> [Items -> Rated]]
        /\ stateNew' \in [Items -> Rated]
    BY <2>1, <2>2
  <2>4. superseded' \in [Batches -> SUBSET Items]
    <3>1. \A c \in Batches : superseded[c] \in SUBSET Items
      OBVIOUS
    <3>2. \A c \in Batches : (IF c = b THEN {}
                ELSE superseded[c] \cup {i \in Items : a[i] # Nothing}) \in SUBSET Items
      BY <3>1
    <3> QED
      BY <2>1, <3>2
  <2>5. reached' \subseteq Targets \X Items
    BY <2>1
  <2>6. removed' \in [Batches -> SUBSET Items]
    BY <1>2 DEF Finalize
  <2>7. fence' \in [Batches -> [Targets -> 0..MaxSwitches]]
    BY <1>2 DEF Finalize
  <2>8. targets' \in [Batches -> SUBSET Targets] /\ todo' \subseteq Targets
    BY <1>2 DEF Finalize, SameIdentities
  <2>9. pending' \subseteq Batches /\ job' \subseteq Batches
    BY <1>2 DEF Finalize
  <2>10. target' \subseteq todo'
    BY <1>2 DEF Finalize, Scoped
  <2> QED
    BY <1>2, <2>3, <2>4, <2>5, <2>6, <2>7, <2>8, <2>9, <2>10 DEF Finalize
<1>3. CASE CycleFails
  BY <1>3 DEF CycleFails, Unregister, NoEntry
<1>4. ASSUME NEW b \in Batches, RetryBegins(b) PROVE TypeOK'
  <2>1. stateNew' \in [Items -> Rated] /\ stateGone' \subseteq Items
    BY <1>4 DEF RetryBegins
  <2>2. job' \subseteq Batches /\ todo' \subseteq Targets
    <3>1. targets[b] \subseteq Targets
      OBVIOUS
    <3> QED
      BY <1>4, <3>1 DEF RetryBegins
  <2>3. target' \subseteq todo'
    BY <1>4 DEF RetryBegins, CycleLockFree, Scoped
  <2> QED
    BY <1>4, <2>1, <2>2, <2>3 DEF RetryBegins
<1>5. ASSUME NEW b \in Batches, NEW t \in Targets, Flush(b, t) PROVE TypeOK'
  <2>1. /\ TurnsTo(b, t)
        /\ sending' \subseteq Write /\ withheld' \subseteq withheld \cup {<<b, t>>}
    BY <1>5 DEF Flush, FlushBegins, FlushWithheld
  <2>2. stateNew' \in [Items -> Rated] /\ stateGone' \subseteq Items
    BY <2>1 DEF TurnsTo, CurrentRatings, CurrentRemovals
  <2>3. target' \subseteq todo' /\ failed' \in BOOLEAN
    BY <2>1 DEF TurnsTo
  <2>4. withheld' \subseteq Batches \X Targets
    BY <2>1
  <2>5. UNCHANGED <<durable, active, captured, job, todo, local, remote, user, superseded,
                    reached>>
    BY <2>1 DEF TurnsTo
  <2> QED
    BY <2>1, <2>2, <2>3, <2>4, <2>5
<1>6. ASSUME NEW b \in Batches, NEW t \in Targets, Acknowledge(b, t) PROVE TypeOK'
  BY <1>6 DEF Acknowledge
<1>7. ASSUME NEW t \in Targets, NEW w \in Write, FlushWrites(t, w) PROVE TypeOK'
  BY <1>7 DEF FlushWrites, Write, Offers
<1>8. ASSUME NEW t \in Targets, NEW w \in Write, FlushWriteFails(t, w) PROVE TypeOK'
  <2>1. remote' \in [Targets -> [Items -> Rated]]
    <3>1. CASE UNCHANGED remote
      BY <3>1
    <3>2. CASE remote' = [remote EXCEPT ![t][w.item] = w.value]
      BY <3>2 DEF Write
    <3> QED
      BY <1>8, <3>1, <3>2 DEF FlushWriteFails
  <2>2. reached' \subseteq Targets \X Items
    BY <1>8 DEF FlushWriteFails, Write, Offers
  <2> QED
    BY <1>8, <2>1, <2>2 DEF FlushWriteFails
<1>9. ASSUME NEW t \in Targets, FlushFails(t) PROVE TypeOK'
  BY <1>9 DEF FlushFails
<1>10. CASE DeliveryEnds
  BY <1>10 DEF DeliveryEnds, Unregister, NoEntry
<1>11. ASSUME NEW i \in Items, NEW v \in Rated, Edit(i, v) PROVE TypeOK'
  BY <1>11 DEF Edit, Write
<1>12. ASSUME NEW w \in Write, LocalFanOut(w) PROVE TypeOK'
  <2>1. w.item \in Items /\ w.value \in Rated
    BY DEF Write
  <2>2. /\ stateNew' \in [Items -> Rated] /\ stateGone' \subseteq Items
        /\ queued' \subseteq Write
    BY <1>12, <2>1 DEF LocalFanOut, FanOut, Defer
  <2>3. fanning' \subseteq [item : Items, value : Rated, to : Targets]
    BY <1>12, <2>1 DEF LocalFanOut, FanOut
  <2> QED
    BY <1>12, <2>2, <2>3 DEF LocalFanOut, FanOut
<1>13. ASSUME NEW f \in Fanned, LocalWrite(f) PROVE TypeOK'
  <2>1. f.item \in Items /\ f.value \in Rated /\ f.to \in Targets
    BY DEF Fanned
  <2>2. remote' \in [Targets -> [Items -> Rated]]
    <3>1. CASE UNCHANGED remote
      BY <3>1
    <3>2. CASE remote' = [remote EXCEPT ![f.to][f.item] = f.value]
      BY <2>1, <3>2
    <3> QED
      BY <1>13, <3>1, <3>2 DEF LocalWrite
  <2>3. reached' \subseteq Targets \X Items
    BY <1>13, <2>1 DEF LocalWrite, Offers
  <2> QED
    BY <1>13, <2>2, <2>3 DEF LocalWrite
<1>14. ASSUME NEW t \in Connections, Switch(t) PROVE TypeOK'
  BY <1>14 DEF Switch, NoEntry
<1>15. CASE Crash
  <2>1. /\ captured' \in [Targets -> 0..MaxSwitches] /\ stateNew' \in [Items -> Rated]
        /\ active' \subseteq Batches /\ stateGone' \subseteq Items /\ touched' \subseteq Items
    BY <1>15 DEF Crash, Unregister, NoEntry
  <2>2. /\ job' \subseteq Batches /\ todo' \subseteq Targets /\ target' \subseteq todo'
        /\ sending' \subseteq Write /\ failed' \in BOOLEAN /\ queued' \subseteq Write
        /\ fanning' \subseteq [item : Items, value : Rated, to : Targets]
    BY <1>15 DEF Crash
  <2> QED
    BY <1>15, <2>1, <2>2 DEF Crash
<1>16. CASE UNCHANGED vars
  BY <1>16 DEF vars
<1> QED
  BY <1>1, <1>2, <1>3, <1>4, <1>5, <1>6, <1>7, <1>8, <1>9, <1>10, <1>11, <1>12, <1>13,
     <1>14, <1>15, <1>16 DEF Next, Undisturbed, Disturbed, Delivery, Environment, Fanned

LEMMA InitTyped == Init => TypeOK /\ Scoped
<1>1. Init => Scoped
  BY DEF Init, Scoped
<1>2. Init => TypeOK
  <2> SUFFICES ASSUME Init PROVE TypeOK
    OBVIOUS
  <2>1. 0 \in 0..MaxSwitches /\ 0 \in 0..MaxEdits
    BY BoundAssumption
  <2>2. NoEntry \in [Items -> Rated]
    BY DEF NoEntry, Rated
  <2>3. /\ rating \in [Items -> Rated]
        /\ ratings \in [Batches -> [Items -> Rated]]
        /\ stateNew \in [Items -> Rated]
        /\ remote \in [Targets -> [Items -> Rated]]
    BY <2>2 DEF Init
  <2>4. /\ version \in [Targets -> 0..MaxSwitches]
        /\ fence \in [Batches -> [Targets -> 0..MaxSwitches]]
        /\ captured \in [Targets -> 0..MaxSwitches]
        /\ edits \in [Items -> 0..MaxEdits]
    BY <2>1 DEF Init
  <2>5. /\ removed \in [Batches -> SUBSET Items]
        /\ superseded \in [Batches -> SUBSET Items]
        /\ targets \in [Batches -> SUBSET Targets]
        /\ done \in [Batches -> SUBSET Targets]
    BY DEF Init
  <2> QED
    BY <2>3, <2>4, <2>5 DEF Init, TypeOK
<1> QED
  BY <1>1, <1>2

\* Every variable keeps its type (the tables and the in-memory state of
\* core/sync_delivery.py and core/pull_cycle.py).
THEOREM TypeCorrect == Spec => []TypeOK
<1>1. TypeOK /\ Scoped /\ [Next]_vars => (TypeOK /\ Scoped)'
  BY TypeStep, ScopeStep
<1> QED
  BY <1>1, InitTyped, PTL DEF Spec

---------------------------------------------------------------------------
(* What the acknowledgements rest on.                                      *)

\* An accepted rating no later batch and no edit has replaced.
Live(b, i) == ratings[b][i] # Nothing /\ i \notin superseded[b] /\ Untouched(i)

\* A batch is acknowledged only where it is addressed, and not before it is saved.
Marks ==
    \A b \in Batches :
        /\ done[b] \subseteq targets[b]
        /\ active = {b} /\ job = {} => targets[b] = {}
        /\ job = {b} => todo \subseteq targets[b]

\* The tasks of local edits are about edited titles.
Edited ==
    /\ \A w \in queued : ~Untouched(w.item)
    /\ \A f \in fanning : ~Untouched(f.item)

\* No identity is newer than that of the connection.
Fences ==
    \A t \in Targets :
        /\ captured[t] <= version[t]
        /\ \A b \in Batches : fence[b][t] <= version[t]

\* A live rating of a batch is the canonical one, and the state in use carries it.
Canonical == \A b \in Batches, i \in Items : Live(b, i) => ratings[b][i] = rating[i]

Carried ==
    \A b \in Batches, i \in Items : job = {b} /\ Live(b, i) => stateNew[i] = rating[i]

\* While a destination is written, a live rating is there or on its way.
Written ==
    \A b \in Batches, t \in Targets \ {Queues}, i \in Items :
        /\ job = {b} /\ target = {t} /\ SameAccount(b, t) /\ ~failed
        /\ <<b, t>> \notin withheld /\ Live(b, i)
        => \/ remote[t][i] = rating[i]
           \/ \E w \in sending : w.item = i /\ w.value = rating[i]

\* What a finalization does to the ratings.
LEMMA FinalizeEffect ==
    ASSUME TypeOK, NEW c \in Batches, Finalize(c), NEW b \in Batches, NEW i \in Items,
           Live(b, i)'
    PROVE  IF b = c THEN ratings'[b][i] = rating'[i] /\ stateNew'[i] = rating'[i]
           ELSE Live(b, i) /\ rating'[i] = rating[i] /\ ratings'[b] = ratings[b]
<1>1. PICK a \in Acceptable :
          /\ rating' = [k \in Items |-> IF a[k] = Nothing THEN rating[k] ELSE a[k]]
          /\ ratings' = [ratings EXCEPT ![c] = a]
          /\ stateNew' = a
          /\ superseded' = [d \in Batches |->
                  IF d = c THEN {}
                  ELSE superseded[d] \cup {k \in Items : a[k] # Nothing}]
  BY DEF Finalize
<1>2. /\ ratings \in [Batches -> [Items -> Rated]]
      /\ superseded \in [Batches -> SUBSET Items]
      /\ edits' = edits
  BY DEF TypeOK, Finalize, user
<1>3. CASE b = c
  BY <1>1, <1>2, <1>3 DEF Live
<1>4. CASE b # c
  <2>1. ratings'[b] = ratings[b]
    BY <1>1, <1>2, <1>4
  <2>2. superseded'[b] = superseded[b] \cup {k \in Items : a[k] # Nothing}
    BY <1>1, <1>4
  <2>3. a[i] = Nothing
    BY <2>2 DEF Live
  <2> QED
    BY <1>1, <1>2, <1>4, <2>1, <2>2, <2>3 DEF Live, Untouched
<1> QED
  BY <1>3, <1>4

\* Outside a finalization a live rating was live and is unchanged.
LEMMA LiveStep ==
    ASSUME TypeOK, [Next]_vars, \A c \in Batches : ~Finalize(c),
           NEW b \in Batches, NEW i \in Items, Live(b, i)'
    PROVE  Live(b, i) /\ rating'[i] = rating[i] /\ ratings'[b] = ratings[b]
                      /\ fence' = fence
<1> USE DEF Live, Untouched, durable, batch, user, history
<1>1. ASSUME NEW k \in Items, NEW v \in Rated, Edit(k, v)
      PROVE  /\ Live(b, i) /\ rating'[i] = rating[i]
             /\ ratings'[b] = ratings[b] /\ fence' = fence
  BY <1>1 DEF Edit, TypeOK
<1>2. CASE UNCHANGED <<rating, ratings, fence, edits, superseded>>
  BY <1>2
<1>3. ASSUME NEW c \in Batches, NEW t \in Targets,
             CycleStarts(c) \/ RetryBegins(c) \/ Flush(c, t) \/ Acknowledge(c, t)
                \/ FlushFails(t) \/ Switch(t)
      PROVE  UNCHANGED <<rating, ratings, fence, edits, superseded>>
  BY <1>3 DEF CycleStarts, RetryBegins, Flush, FlushBegins, FlushWithheld, TurnsTo,
              Acknowledge, FlushFails, Switch
<1>4. ASSUME NEW w \in Write, NEW t \in Targets,
             FlushWrites(t, w) \/ FlushWriteFails(t, w) \/ LocalFanOut(w)
      PROVE  UNCHANGED <<rating, ratings, fence, edits, superseded>>
  BY <1>4 DEF FlushWrites, FlushWriteFails, LocalFanOut, FanOut
<1>5. ASSUME NEW f \in Fanned, LocalWrite(f)
      PROVE  UNCHANGED <<rating, ratings, fence, edits, superseded>>
  BY <1>5 DEF LocalWrite
<1>6. CASE CycleFails \/ DeliveryEnds \/ Crash
  BY <1>2, <1>6 DEF CycleFails, DeliveryEnds, Crash
<1>7. CASE UNCHANGED vars
  BY <1>2, <1>7 DEF vars
<1>8. PICK t \in Targets : t = Queues
  BY TargetAssumption
<1> QED
  BY <1>1, <1>2, <1>3, <1>4, <1>5, <1>6, <1>7, <1>8, TargetAssumption
     DEF Next, Undisturbed, Disturbed, Delivery, Environment, Fanned

\* The acknowledgements of a batch stay within its destinations.
LEMMA MarksStep == TypeOK /\ Marks /\ [Next]_vars => Marks'
<1> SUFFICES ASSUME TypeOK, Marks, [Next]_vars PROVE Marks'
  OBVIOUS
<1> USE DEF TypeOK, Marks, durable, batch, cycle, flight, local, user, history
<1>1. ASSUME NEW b \in Batches, CycleStarts(b) PROVE Marks'
  BY <1>1 DEF CycleStarts, CycleLockFree
<1>2. ASSUME NEW b \in Batches, Finalize(b) PROVE Marks'
  BY <1>2 DEF Finalize, CycleLockFree
<1>3. CASE CycleFails
  BY <1>3 DEF CycleFails, Unregister, CycleLockFree
<1>4. ASSUME NEW b \in Batches, RetryBegins(b) PROVE Marks'
  BY <1>4 DEF RetryBegins, CycleLockFree
<1>5. ASSUME NEW b \in Batches, NEW t \in Targets, Flush(b, t) PROVE Marks'
  BY <1>5 DEF Flush, FlushBegins, FlushWithheld, TurnsTo, CycleLockFree
<1>6. ASSUME NEW b \in Batches, NEW t \in Targets, Acknowledge(b, t) PROVE Marks'
  BY <1>6 DEF Acknowledge, CycleLockFree
<1>7. ASSUME NEW t \in Targets, NEW w \in Write, FlushWrites(t, w) PROVE Marks'
  BY <1>7 DEF FlushWrites, CycleLockFree
<1>8. ASSUME NEW t \in Targets, NEW w \in Write, FlushWriteFails(t, w) PROVE Marks'
  BY <1>8 DEF FlushWriteFails, CycleLockFree
<1>9. ASSUME NEW t \in Targets, FlushFails(t) PROVE Marks'
  BY <1>9 DEF FlushFails, CycleLockFree
<1>10. CASE DeliveryEnds
  BY <1>10 DEF DeliveryEnds, Unregister, CycleLockFree
<1>11. ASSUME NEW i \in Items, NEW v \in Rated, Edit(i, v) PROVE Marks'
  BY <1>11 DEF Edit, CycleLockFree
<1>12. ASSUME NEW w \in Write, LocalFanOut(w) PROVE Marks'
  BY <1>12 DEF LocalFanOut, FanOut, CycleLockFree
<1>13. ASSUME NEW f \in Fanned, LocalWrite(f) PROVE Marks'
  BY <1>13 DEF LocalWrite, CycleLockFree
<1>14. ASSUME NEW t \in Connections, Switch(t) PROVE Marks'
  BY <1>14 DEF Switch, CycleLockFree
<1>15. CASE Crash
  BY <1>15 DEF Crash, Unregister, CycleLockFree
<1>16. CASE UNCHANGED vars
  BY <1>16 DEF vars, CycleLockFree
<1> QED
  BY <1>1, <1>2, <1>3, <1>4, <1>5, <1>6, <1>7, <1>8, <1>9, <1>10, <1>11, <1>12,
     <1>13, <1>14, <1>15, <1>16
     DEF Next, Undisturbed, Disturbed, Delivery, Environment, Fanned

LEMMA EditedStep == TypeOK /\ Edited /\ [Next]_vars => Edited'
<1> SUFFICES ASSUME TypeOK, Edited, [Next]_vars PROVE Edited'
  OBVIOUS
<1> USE DEF Edited, Untouched, durable, batch, cycle, flight, local, user, history
<1>1. ASSUME NEW b \in Batches, CycleStarts(b) PROVE Edited'
  BY <1>1 DEF CycleStarts
<1>2. ASSUME NEW b \in Batches, Finalize(b) PROVE Edited'
  BY <1>2 DEF Finalize
<1>3. CASE CycleFails
  BY <1>3 DEF CycleFails, Unregister
<1>4. ASSUME NEW b \in Batches, RetryBegins(b) PROVE Edited'
  BY <1>4 DEF RetryBegins
<1>5. ASSUME NEW b \in Batches, NEW t \in Targets, Flush(b, t) PROVE Edited'
  BY <1>5 DEF Flush, FlushBegins, FlushWithheld, TurnsTo
<1>6. ASSUME NEW b \in Batches, NEW t \in Targets, Acknowledge(b, t) PROVE Edited'
  BY <1>6 DEF Acknowledge
<1>7. ASSUME NEW t \in Targets, NEW w \in Write, FlushWrites(t, w) PROVE Edited'
  BY <1>7 DEF FlushWrites
<1>8. ASSUME NEW t \in Targets, NEW w \in Write, FlushWriteFails(t, w) PROVE Edited'
  BY <1>8 DEF FlushWriteFails
<1>9. ASSUME NEW t \in Targets, FlushFails(t) PROVE Edited'
  BY <1>9 DEF FlushFails
<1>10. CASE DeliveryEnds
  BY <1>10 DEF DeliveryEnds, Unregister
<1>11. ASSUME NEW i \in Items, NEW v \in Rated, Edit(i, v) PROVE Edited'
  <2>1. \A k \in Items : edits[k] # 0 => edits'[k] # 0
    BY <1>11 DEF Edit, TypeOK
  <2>2. edits'[i] # 0
    BY <1>11 DEF Edit, TypeOK
  <2>3. \A w \in queued' : edits'[w.item] # 0
    BY <1>11, <2>1, <2>2 DEF Edit, TypeOK, Write
  <2>4. \A f \in fanning' : edits'[f.item] # 0
    BY <1>11, <2>1 DEF Edit, TypeOK
  <2> QED
    BY <2>3, <2>4
<1>12. ASSUME NEW w \in Write, LocalFanOut(w) PROVE Edited'
  BY <1>12 DEF LocalFanOut, FanOut
<1>13. ASSUME NEW f \in Fanned, LocalWrite(f) PROVE Edited'
  BY <1>13 DEF LocalWrite
<1>14. ASSUME NEW t \in Connections, Switch(t) PROVE Edited'
  BY <1>14 DEF Switch
<1>15. CASE Crash
  BY <1>15 DEF Crash, Unregister
<1>16. CASE UNCHANGED vars
  BY <1>16 DEF vars
<1> QED
  BY <1>1, <1>2, <1>3, <1>4, <1>5, <1>6, <1>7, <1>8, <1>9, <1>10, <1>11, <1>12,
     <1>13, <1>14, <1>15, <1>16
     DEF Next, Undisturbed, Disturbed, Delivery, Environment, Fanned

LEMMA FencesStep == TypeOK /\ Fences /\ [Next]_vars => Fences'
<1> SUFFICES ASSUME TypeOK, Fences, [Next]_vars PROVE Fences'
  OBVIOUS
<1> USE DEF TypeOK, Fences, durable, batch, cycle, flight, local, user, history
<1>1. ASSUME NEW b \in Batches, CycleStarts(b) PROVE Fences'
  BY <1>1 DEF CycleStarts
<1>2. ASSUME NEW b \in Batches, Finalize(b) PROVE Fences'
  BY <1>2 DEF Finalize
<1>3. CASE CycleFails
  BY <1>3 DEF CycleFails, Unregister
<1>4. ASSUME NEW b \in Batches, RetryBegins(b) PROVE Fences'
  BY <1>4 DEF RetryBegins
<1>5. ASSUME NEW b \in Batches, NEW t \in Targets, Flush(b, t) PROVE Fences'
  BY <1>5 DEF Flush, FlushBegins, FlushWithheld, TurnsTo
<1>6. ASSUME NEW b \in Batches, NEW t \in Targets, Acknowledge(b, t) PROVE Fences'
  BY <1>6 DEF Acknowledge
<1>7. ASSUME NEW t \in Targets, NEW w \in Write, FlushWrites(t, w) PROVE Fences'
  BY <1>7 DEF FlushWrites
<1>8. ASSUME NEW t \in Targets, NEW w \in Write, FlushWriteFails(t, w) PROVE Fences'
  BY <1>8 DEF FlushWriteFails
<1>9. ASSUME NEW t \in Targets, FlushFails(t) PROVE Fences'
  BY <1>9 DEF FlushFails
<1>10. CASE DeliveryEnds
  BY <1>10 DEF DeliveryEnds, Unregister
<1>11. ASSUME NEW i \in Items, NEW v \in Rated, Edit(i, v) PROVE Fences'
  BY <1>11 DEF Edit
<1>12. ASSUME NEW w \in Write, LocalFanOut(w) PROVE Fences'
  BY <1>12 DEF LocalFanOut, FanOut
<1>13. ASSUME NEW f \in Fanned, LocalWrite(f) PROVE Fences'
  BY <1>13 DEF LocalWrite
<1>14. ASSUME NEW t \in Connections, Switch(t) PROVE Fences'
  BY <1>14 DEF Switch
<1>15. CASE Crash
  BY <1>15 DEF Crash, Unregister
<1>16. CASE UNCHANGED vars
  BY <1>16 DEF vars
<1> QED
  BY <1>1, <1>2, <1>3, <1>4, <1>5, <1>6, <1>7, <1>8, <1>9, <1>10, <1>11, <1>12,
     <1>13, <1>14, <1>15, <1>16
     DEF Next, Undisturbed, Disturbed, Delivery, Environment, Fanned

LEMMA CanonicalStep == TypeOK /\ Canonical /\ [Next]_vars => Canonical'
<1> SUFFICES ASSUME TypeOK, Canonical, [Next]_vars,
                    NEW b \in Batches, NEW i \in Items, Live(b, i)'
             PROVE  ratings'[b][i] = rating'[i]
  BY DEF Canonical
<1>1. CASE \E c \in Batches : Finalize(c)
  BY <1>1, FinalizeEffect DEF Canonical
<1>2. CASE \A c \in Batches : ~Finalize(c)
  BY <1>2, LiveStep DEF Canonical
<1> QED
  BY <1>1, <1>2

\* The state a batch is delivered from keeps its live ratings: what is deferred into
\* it is about edited titles.
LEMMA CarriedStep ==
    TypeOK /\ Edited /\ Canonical /\ Carried /\ [Next]_vars => Carried'
<1> SUFFICES ASSUME TypeOK, Edited, Canonical, Carried, [Next]_vars,
                    NEW b \in Batches, NEW i \in Items, job' = {b}, Live(b, i)'
             PROVE  stateNew'[i] = rating'[i]
  BY DEF Carried
<1>1. ASSUME NEW c \in Batches, Finalize(c) PROVE stateNew'[i] = rating'[i]
  <2>1. c = b
    BY <1>1 DEF Finalize
  <2> QED
    BY <1>1, <2>1, FinalizeEffect
<1>2. CASE \A c \in Batches : ~Finalize(c)
  <2>1. Live(b, i) /\ rating'[i] = rating[i]
    BY <1>2, LiveStep
  <2>2. job = {b} => stateNew[i] = rating[i]
    BY <2>1 DEF Carried
  <2>3. CASE job = {b} /\ stateNew'[i] = stateNew[i]
    BY <2>1, <2>2, <2>3
  <2>4. ASSUME NEW c \in Batches, CycleStarts(c) PROVE FALSE
    BY <2>4 DEF CycleStarts, CycleLockFree, flight
  <2>5. CASE CycleFails
    BY <2>5 DEF CycleFails, flight
  <2>6. ASSUME NEW c \in Batches, RetryBegins(c) PROVE stateNew'[i] = rating'[i]
    BY <2>1, <2>6 DEF RetryBegins, Canonical
  <2>7. ASSUME NEW c \in Batches, NEW t \in Targets, Flush(c, t)
        PROVE  stateNew'[i] = rating'[i]
    BY <2>1, <2>2, <2>7 DEF Flush, FlushBegins, FlushWithheld, TurnsTo, CurrentRatings
  <2>8. ASSUME NEW c \in Batches, NEW t \in Targets, Acknowledge(c, t)
        PROVE  stateNew'[i] = rating'[i]
    BY <2>3, <2>8 DEF Acknowledge, cycle
  <2>9. ASSUME NEW t \in Targets, NEW w \in Write, FlushWrites(t, w) \/ FlushWriteFails(t, w)
        PROVE  stateNew'[i] = rating'[i]
    BY <2>3, <2>9 DEF FlushWrites, FlushWriteFails, cycle
  <2>10. ASSUME NEW t \in Targets, FlushFails(t) PROVE stateNew'[i] = rating'[i]
    BY <2>3, <2>10 DEF FlushFails, cycle
  <2>11. CASE DeliveryEnds \/ Crash
    BY <2>11 DEF DeliveryEnds, Crash
  <2>12. ASSUME NEW k \in Items, NEW v \in Rated, Edit(k, v) PROVE stateNew'[i] = rating'[i]
    BY <2>3, <2>12 DEF Edit, cycle, flight
  <2>13. ASSUME NEW w \in Write, LocalFanOut(w) PROVE stateNew'[i] = rating'[i]
    <3>1. w.item # i
      BY <2>1, <2>13 DEF LocalFanOut, FanOut, Edited, Live
    <3> QED
      BY <2>3, <2>13, <3>1 DEF LocalFanOut, FanOut, Defer, flight, TypeOK
  <2>14. ASSUME NEW f \in Fanned, LocalWrite(f) PROVE stateNew'[i] = rating'[i]
    BY <2>3, <2>14 DEF LocalWrite, cycle, flight
  <2>15. ASSUME NEW t \in Connections, Switch(t) PROVE stateNew'[i] = rating'[i]
    BY <2>3, <2>15 DEF Switch, cycle, flight
  <2>16. CASE UNCHANGED vars
    BY <2>3, <2>16 DEF vars, cycle, flight
  <2> QED
    BY <1>2, <2>4, <2>5, <2>6, <2>7, <2>8, <2>9, <2>10, <2>11, <2>12, <2>13, <2>14, <2>15,
       <2>16 DEF Next, Undisturbed, Disturbed, Delivery, Environment, Fanned
<1> QED
  BY <1>1, <1>2

\* The writes under way to a destination are those of canonical ratings; no
\* finalization moves the ratings beneath them.
LEMMA InFlightStep ==
    TypeOK /\ Scoped /\ InFlightIsCurrent /\ [Next]_vars => InFlightIsCurrent'
<1> SUFFICES ASSUME TypeOK, Scoped, InFlightIsCurrent, [Next]_vars PROVE InFlightIsCurrent'
  OBVIOUS
<1> USE DEF InFlightIsCurrent, Untouched
<1>1. CASE sending' \subseteq sending /\ UNCHANGED <<rating, edits>>
  BY <1>1
<1>2. CASE sending' = {}
  BY <1>2
<1>3. ASSUME NEW b \in Batches, CycleStarts(b) \/ RetryBegins(b) PROVE InFlightIsCurrent'
  BY <1>1, <1>3 DEF CycleStarts, RetryBegins, flight, durable, user
<1>4. ASSUME NEW b \in Batches, Finalize(b) PROVE InFlightIsCurrent'
  BY <1>2, <1>4 DEF Finalize, Scoped
<1>5. ASSUME NEW b \in Batches, NEW t \in Targets, Flush(b, t)
      PROVE  InFlightIsCurrent'
  <2>1. UNCHANGED <<rating, edits>>
    BY <1>5 DEF Flush, FlushBegins, FlushWithheld, TurnsTo, durable, user
  <2>2. ASSUME NEW w \in sending' PROVE w.value = rating[w.item]
    <3>1. CASE SameAccount(b, t) /\ t # Queues
      BY <1>5, <2>2, <3>1 DEF Flush, FlushBegins, FlushWithheld, TurnsTo, CurrentRatings,
                              CurrentRemovals, Write
    <3>2. CASE ~(SameAccount(b, t) /\ t # Queues)
      BY <1>5, <2>2, <3>2 DEF Flush, FlushBegins, FlushWithheld, TurnsTo
    <3> QED
      BY <3>1, <3>2
  <2> QED
    BY <2>1, <2>2
<1>6. ASSUME NEW b \in Batches, NEW t \in Targets, Acknowledge(b, t)
      PROVE  InFlightIsCurrent'
  BY <1>1, <1>6 DEF Acknowledge, user
<1>7. ASSUME NEW t \in Targets, NEW w \in Write, FlushWrites(t, w) \/ FlushWriteFails(t, w)
      PROVE  InFlightIsCurrent'
  BY <1>1, <1>7 DEF FlushWrites, FlushWriteFails, durable, user
<1>8. ASSUME NEW t \in Targets, FlushFails(t) PROVE InFlightIsCurrent'
  BY <1>1, <1>8 DEF FlushFails, durable, user
<1>9. CASE CycleFails \/ DeliveryEnds \/ Crash
  BY <1>1, <1>2, <1>9 DEF CycleFails, DeliveryEnds, Crash, durable, flight
<1>10. ASSUME NEW i \in Items, NEW v \in Rated, Edit(i, v) PROVE InFlightIsCurrent'
  <2>1. /\ sending' = sending
        /\ \A k \in Items : edits'[k] = 0 => edits[k] = 0 /\ rating'[k] = rating[k]
    BY <1>10 DEF Edit, flight, TypeOK
  <2>2. \A w \in sending : w.item \in Items
    BY DEF TypeOK, Write
  <2> QED
    BY <2>1, <2>2
<1>11. ASSUME NEW w \in Write, LocalFanOut(w) PROVE InFlightIsCurrent'
  BY <1>1, <1>11 DEF LocalFanOut, FanOut, durable, flight, user
<1>12. ASSUME NEW f \in Fanned, LocalWrite(f) PROVE InFlightIsCurrent'
  BY <1>1, <1>12 DEF LocalWrite, durable, flight, user
<1>13. ASSUME NEW t \in Connections, Switch(t) PROVE InFlightIsCurrent'
  BY <1>1, <1>13 DEF Switch, flight, user
<1>14. CASE UNCHANGED vars
  BY <1>1, <1>14 DEF vars, durable, flight, user
<1> QED
  BY <1>3, <1>4, <1>5, <1>6, <1>7, <1>8, <1>9, <1>10, <1>11, <1>12, <1>13, <1>14
     DEF Next, Undisturbed, Disturbed, Delivery, Environment, Fanned

\* What one write does to a live rating at a destination.
LEMMA WriteEffect ==
    ASSUME TypeOK, InFlightIsCurrent, NEW u \in Targets, NEW w \in sending,
           \/ UNCHANGED remote
           \/ remote' = [remote EXCEPT ![u][w.item] = w.value],
           NEW t \in Targets, NEW i \in Items, Untouched(i), remote[t][i] = rating[i]
    PROVE  remote'[t][i] = rating[i]
<1>1. /\ remote \in [Targets -> [Items -> Rated]]
      /\ w.item \in Items /\ (w.item = i => w.value = rating[i])
  BY DEF TypeOK, Write, InFlightIsCurrent
<1>2. CASE UNCHANGED remote
  BY <1>2
<1>3. CASE remote' = [remote EXCEPT ![u][w.item] = w.value]
  <2>1. CASE t = u
    BY <1>1, <1>3, <2>1
  <2>2. CASE t # u
    BY <1>1, <1>3, <2>2
  <2> QED
    BY <2>1, <2>2
<1> QED
  BY <1>2, <1>3

\* A write of a local edit is about another title; a replaced account has another
\* identity than any fence.
LEMMA LocalWriteEffect ==
    ASSUME TypeOK, Edited, NEW f \in Fanned, LocalWrite(f), NEW t \in Targets,
           NEW i \in Items, Untouched(i)
    PROVE  remote'[t][i] = remote[t][i]
<1>1. f.item # i /\ f.item \in Items /\ f.to \in Targets
  BY DEF Edited, LocalWrite, Fanned
<1>2. remote \in [Targets -> [Items -> Rated]]
  BY DEF TypeOK
<1>3. CASE f.to = t
  BY <1>1, <1>2, <1>3 DEF LocalWrite
<1>4. CASE f.to # t
  BY <1>1, <1>2, <1>4 DEF LocalWrite
<1> QED
  BY <1>3, <1>4

LEMMA SwitchEffect ==
    ASSUME TypeOK, Fences, NEW u \in Connections, Switch(u), NEW b \in Batches,
           NEW t \in Targets, SameAccount(b, t)'
    PROVE  SameAccount(b, t) /\ remote'[t] = remote[t] /\ t # u
<1>1. /\ version \in [Targets -> 0..MaxSwitches] /\ u \in Targets
      /\ fence \in [Batches -> [Targets -> 0..MaxSwitches]]
      /\ remote \in [Targets -> [Items -> Rated]]
      /\ fence' = fence
  BY TargetAssumption DEF TypeOK, Switch, batch
<1>2. fence[b][t] \in 0..MaxSwitches /\ version[t] \in 0..MaxSwitches
      /\ fence[b][t] <= version[t]
  BY <1>1 DEF Fences
<1>3. t # u
  BY <1>1, <1>2, BoundAssumption DEF Switch, SameAccount
<1> QED
  BY <1>1, <1>3 DEF Switch, SameAccount

\* A batch is pending exactly while a destination of it has not acknowledged, and what
\* is attempted has not.  No batch is without destinations: the queues have no account.
Retained ==
    /\ version[Queues] = 0 /\ captured[Queues] = 0
    /\ \A b \in Batches : b \in pending <=> ~(targets[b] \subseteq done[b])
    /\ \A b \in Batches : job = {b} => todo \cap done[b] = {}

\* It stays so, also across crashes between the last write and its acknowledgement.
LEMMA RetainedStep == TypeOK /\ Marks /\ Retained /\ [Next]_vars => Retained'
<1> SUFFICES ASSUME TypeOK, Marks, Retained, [Next]_vars PROVE Retained'
  OBVIOUS
<1> USE DEF TypeOK, Retained, durable, batch, cycle, flight, local, user, history
<1>1. ASSUME NEW b \in Batches, CycleStarts(b) PROVE Retained'
  BY <1>1 DEF CycleStarts, CycleLockFree
<1>2. ASSUME NEW b \in Batches, Finalize(b) PROVE Retained'
  <2>1. targets[b] = {} /\ done[b] = {}
    BY <1>2 DEF Finalize, Marks
  <2>2. Queues \in SameIdentities
    BY TargetAssumption DEF SameIdentities
  <2>3. /\ targets' = [targets EXCEPT ![b] = SameIdentities]
        /\ pending' = pending \cup {b} /\ done' = done
        /\ job' = {b} /\ todo' = SameIdentities
        /\ version' = version /\ captured' = captured
    BY <1>2 DEF Finalize
  <2>4. SameIdentities \subseteq Targets
    BY DEF SameIdentities
  <2> QED
    BY <2>1, <2>2, <2>3, <2>4
<1>3. ASSUME NEW b \in Batches, RetryBegins(b) PROVE Retained'
  BY <1>3 DEF RetryBegins
<1>4. ASSUME NEW b \in Batches, NEW t \in Targets, Acknowledge(b, t) PROVE Retained'
  <2>1. /\ t \in todo /\ todo' = todo \ {t} /\ job = {b}
        /\ done' = [done EXCEPT ![b] = @ \cup {t}]
        /\ pending' = IF targets[b] \subseteq done[b] \cup {t} THEN pending \ {b} ELSE pending
        /\ UNCHANGED <<version, captured, targets, job>>
    BY <1>4 DEF Acknowledge
  <2>2. t \in targets[b] \ done[b]
    BY <2>1 DEF Marks
  <2>3. b \in pending
    BY <2>2
  <2> QED
    BY <2>1, <2>2, <2>3
<1>5. ASSUME NEW b \in Batches, NEW t \in Targets, Flush(b, t) PROVE Retained'
  BY <1>5 DEF Flush, FlushBegins, FlushWithheld, TurnsTo
<1>6. ASSUME NEW t \in Targets,
             \/ FlushFails(t)
             \/ \E w \in Write : FlushWrites(t, w) \/ FlushWriteFails(t, w)
      PROVE Retained'
  BY <1>6 DEF FlushWrites, FlushWriteFails, FlushFails
<1>12. ASSUME NEW w \in Write, LocalFanOut(w) PROVE Retained'
  BY <1>12 DEF LocalFanOut, FanOut
<1>7. ASSUME NEW f \in Fanned, LocalWrite(f) PROVE Retained'
  BY <1>7 DEF LocalWrite
<1>8. ASSUME NEW k \in Items, NEW v \in Rated, Edit(k, v) PROVE Retained'
  BY <1>8 DEF Edit
<1>9. ASSUME NEW t \in Connections, Switch(t) PROVE Retained'
  BY <1>9, TargetAssumption DEF Switch
<1>10. ASSUME CycleFails \/ DeliveryEnds \/ Crash PROVE Retained'
  BY <1>10, TargetAssumption DEF CycleFails, DeliveryEnds, Crash, Unregister
<1>11. CASE UNCHANGED vars
  BY <1>11 DEF vars
<1> QED
  BY <1>1, <1>2, <1>3, <1>4, <1>5, <1>6, <1>7, <1>8, <1>9, <1>10, <1>11, <1>12
     DEF Next, Undisturbed, Disturbed, Delivery, Environment, Fanned

\* What was withheld from a destination counts as sent only once it is flushed again.
LEMMA WithheldStep ==
    ASSUME TypeOK, Fences, [Next]_vars, NEW b \in Batches, NEW t \in Targets,
           SameAccount(b, t)', <<b, t>> \in withheld
    PROVE  <<b, t>> \in withheld' \/ FlushBegins(b, t) \/ (Crash /\ t \notin done[b])
<1> USE DEF durable, batch, cycle, flight, local, user, history
<1>1. CASE withheld' = withheld
  BY <1>1
<1>2. ASSUME NEW c \in Batches, CycleStarts(c) \/ RetryBegins(c) \/ Finalize(c)
      PROVE  withheld' = withheld
  BY <1>2 DEF CycleStarts, RetryBegins, Finalize
<1>3. ASSUME NEW c \in Batches, NEW u \in Targets, Flush(c, u)
      PROVE  <<b, t>> \in withheld' \/ FlushBegins(b, t)
  BY <1>3 DEF Flush, FlushBegins, FlushWithheld
<1>4. ASSUME NEW u \in Targets,
             \/ FlushFails(u)
             \/ \E c \in Batches : Acknowledge(c, u)
             \/ \E w \in Write : FlushWrites(u, w) \/ FlushWriteFails(u, w)
      PROVE  withheld' = withheld
  BY <1>4 DEF FlushFails, Acknowledge, FlushWrites, FlushWriteFails
<1>5. ASSUME NEW w \in Write, LocalFanOut(w) PROVE withheld' = withheld
  BY <1>5 DEF LocalFanOut, FanOut
<1>6. ASSUME NEW f \in Fanned, LocalWrite(f) PROVE withheld' = withheld
  BY <1>6 DEF LocalWrite
<1>7. ASSUME NEW k \in Items, NEW v \in Rated, Edit(k, v) PROVE withheld' = withheld
  BY <1>7 DEF Edit
<1>8. ASSUME NEW u \in Connections, Switch(u) PROVE <<b, t>> \in withheld'
  BY <1>8, SwitchEffect DEF Switch
<1>9. CASE CycleFails \/ DeliveryEnds \/ UNCHANGED vars
  BY <1>9 DEF CycleFails, DeliveryEnds, vars
<1>10. ASSUME Crash PROVE <<b, t>> \in withheld' \/ t \notin done[b]
  BY <1>10 DEF Crash
<1> QED
  BY <1>1, <1>2, <1>3, <1>4, <1>5, <1>6, <1>7, <1>8, <1>9, <1>10
     DEF Next, Undisturbed, Disturbed, Delivery, Environment, Fanned

Strong == /\ TypeOK /\ Scoped /\ Marks /\ Edited /\ Fences
          /\ Canonical /\ Carried /\ InFlightIsCurrent /\ Retained

LEMMA WrittenStep == Strong /\ Written /\ [Next]_vars => Written'
<1> SUFFICES ASSUME Strong, Written, [Next]_vars, NEW b \in Batches,
                    NEW t \in Targets \ {Queues}, NEW i \in Items,
                    job' = {b}, target' = {t}, SameAccount(b, t)', ~failed',
                    <<b, t>> \notin withheld', Live(b, i)'
             PROVE  \/ remote'[t][i] = rating'[i]
                    \/ \E w \in sending' : w.item = i /\ w.value = rating'[i]
  BY DEF Written
<1> DEFINE Goal == \/ remote'[t][i] = rating'[i]
                   \/ \E w \in sending' : w.item = i /\ w.value = rating'[i]
<1>1. ASSUME NEW c \in Batches, Finalize(c) PROVE FALSE
  BY <1>1 DEF Finalize, Strong, Scoped
<1>2. /\ Live(b, i) /\ rating'[i] = rating[i] /\ ratings'[b] = ratings[b]
      /\ fence' = fence
  BY <1>1, LiveStep DEF Strong
<1>3. Untouched(i) /\ ratings[b][i] = rating[i] /\ rating[i] # Nothing
      /\ rating[i] \in Rated
  BY <1>2 DEF Live, Strong, Canonical, TypeOK
<1>17. ~Crash
  BY DEF Crash
<1>18. target = {t} => <<b, t>> \notin withheld
  BY <1>17, WithheldStep DEF Strong, FlushBegins, TurnsTo
<1>4. CASE job = {b} /\ target = {t} /\ SameAccount(b, t) /\ ~failed
           /\ sending' = sending /\ remote'[t][i] = remote[t][i]
  BY <1>2, <1>4, <1>18 DEF Written
<1>5. ASSUME NEW c \in Batches, CycleStarts(c) \/ RetryBegins(c) PROVE FALSE
  BY <1>5 DEF CycleStarts, RetryBegins, CycleLockFree, flight, Strong, Scoped
<1>6. CASE CycleFails \/ DeliveryEnds \/ Crash
  BY <1>6 DEF CycleFails, DeliveryEnds, Crash, flight
<1>7. ASSUME NEW c \in Batches, NEW u \in Targets, Flush(c, u) PROVE Goal
  <2>1. c = b /\ u = t /\ SameAccount(b, t) /\ job = {b}
    BY <1>7 DEF Flush, FlushBegins, FlushWithheld, TurnsTo, SameAccount, durable, batch
  <2>0. FlushBegins(b, t)
    BY <1>7, <2>1 DEF Flush, FlushWithheld
  <2>2. CurrentRatings[i] = rating[i]
    BY <1>2, <2>1 DEF Strong, Carried, CurrentRatings
  <2>3. [item |-> i, value |-> rating[i]] \in Write
    BY <1>3 DEF Write
  <2>4. [item |-> i, value |-> rating[i]] \in sending'
    BY <1>3, <2>0, <2>1, <2>2, <2>3 DEF FlushBegins
  <2> QED
    BY <1>2, <2>4
<1>8. ASSUME NEW c \in Batches, NEW u \in Targets, Acknowledge(c, u) PROVE FALSE
  BY <1>8 DEF Acknowledge
<1>9. ASSUME NEW u \in Targets, NEW w \in Write, FlushWrites(u, w) PROVE Goal
  <2>1. /\ job = {b} /\ target = {t} /\ u = t /\ SameAccount(b, t) /\ ~failed
        /\ w \in sending /\ sending' = sending \ {w}
        /\ remote' = [remote EXCEPT ![u][w.item] = w.value]
    BY <1>9 DEF FlushWrites, SameAccount, durable, batch
  <2>2. CASE remote[t][i] = rating[i]
    BY <1>2, <1>3, <2>1, <2>2, WriteEffect DEF Strong
  <2>3. ASSUME NEW z \in sending, z.item = i, z.value = rating[i] PROVE Goal
    <3>1. CASE z = w
      BY <1>2, <2>1, <2>3, <3>1 DEF Strong, TypeOK
    <3>2. CASE z # w
      BY <1>2, <2>1, <2>3, <3>2
    <3> QED
      BY <3>1, <3>2
  <2> QED
    BY <1>2, <1>18, <2>1, <2>2, <2>3 DEF Written
<1>10. ASSUME NEW u \in Targets, NEW w \in Write, FlushWriteFails(u, w) PROVE FALSE
  BY <1>10 DEF FlushWriteFails
<1>11. ASSUME NEW u \in Targets, FlushFails(u) PROVE FALSE
  BY <1>11 DEF FlushFails
<1>12. ASSUME NEW k \in Items, NEW v \in Rated, Edit(k, v) PROVE Goal
  BY <1>4, <1>12 DEF Edit, SameAccount, batch, flight
<1>13. ASSUME NEW w \in Write, LocalFanOut(w) PROVE Goal
  BY <1>4, <1>13 DEF LocalFanOut, FanOut, SameAccount, durable, batch, flight
<1>14. ASSUME NEW f \in Fanned, LocalWrite(f) PROVE Goal
  <2>1. remote'[t][i] = remote[t][i]
    BY <1>3, <1>14, LocalWriteEffect DEF Strong
  <2> QED
    BY <1>4, <1>14, <2>1 DEF LocalWrite, SameAccount, durable, batch, flight
<1>15. ASSUME NEW u \in Connections, Switch(u) PROVE Goal
  <2>1. SameAccount(b, t) /\ remote'[t] = remote[t]
    BY <1>15, SwitchEffect DEF Strong
  <2> QED
    BY <1>4, <1>15, <2>1 DEF Switch, flight
<1>16. CASE UNCHANGED vars
  BY <1>4, <1>16 DEF vars, SameAccount, durable, batch, flight
<1> QED
  BY <1>1, <1>5, <1>6, <1>7, <1>8, <1>9, <1>10, <1>11, <1>12, <1>13, <1>14, <1>15, <1>16
     DEF Next, Undisturbed, Disturbed, Delivery, Environment, Fanned

LEMMA AcknowledgedStep ==
    Strong /\ Written /\ AcknowledgedIsDelivered /\ [Next]_vars => AcknowledgedIsDelivered'
<1> SUFFICES ASSUME Strong, Written, AcknowledgedIsDelivered, [Next]_vars, NEW b \in Batches,
                    NEW t \in Targets \ {Queues}, NEW i \in Items,
                    t \in done'[b], SameAccount(b, t)', <<b, t>> \notin withheld',
                    Live(b, i)'
             PROVE  remote'[t][i] = rating'[i]
  BY DEF AcknowledgedIsDelivered, Live
<1> DEFINE Goal == remote'[t][i] = rating'[i]
<1>1. ASSUME NEW c \in Batches, Finalize(c) PROVE Goal
  <2>1. b # c /\ t \in done[b] /\ <<b, t>> \notin withheld
    BY <1>1 DEF Finalize, Strong, Marks
  <2>2. Live(b, i) /\ rating'[i] = rating[i]
    BY <1>1, <2>1, FinalizeEffect DEF Strong
  <2>3. SameAccount(b, t)
    BY <1>1, <2>1 DEF Finalize, SameAccount, Strong, TypeOK
  <2> QED
    BY <1>1, <2>1, <2>2, <2>3 DEF Finalize, AcknowledgedIsDelivered, Live
<1>2. CASE \A c \in Batches : ~Finalize(c)
  <2>1. Live(b, i) /\ rating'[i] = rating[i] /\ fence' = fence /\ Untouched(i)
    BY <1>2, LiveStep DEF Strong, Live
  <2>15. t \in done[b] => <<b, t>> \notin withheld
    BY WithheldStep DEF Strong, Retained, FlushBegins, TurnsTo
  <2>2. t \in done[b] /\ SameAccount(b, t) => remote[t][i] = rating[i]
    BY <2>1, <2>15 DEF AcknowledgedIsDelivered, Live
  <2>3. CASE UNCHANGED <<version, done, remote>>
    BY <2>1, <2>2, <2>3 DEF SameAccount
  <2>4. ASSUME NEW c \in Batches, CycleStarts(c) \/ RetryBegins(c) PROVE Goal
    BY <2>3, <2>4 DEF CycleStarts, RetryBegins, durable
  <2>5. CASE CycleFails \/ DeliveryEnds \/ Crash
    BY <2>3, <2>5 DEF CycleFails, DeliveryEnds, Crash, durable
  <2>6. ASSUME NEW c \in Batches, NEW u \in Targets, Flush(c, u) PROVE Goal
    BY <2>3, <2>6 DEF Flush, FlushBegins, FlushWithheld, TurnsTo, durable
  <2>7. ASSUME NEW c \in Batches, NEW u \in Targets, Acknowledge(c, u) PROVE Goal
    <3>1. UNCHANGED <<version, remote>> /\ SameAccount(b, t)
      BY <2>1, <2>7 DEF Acknowledge, SameAccount
    <3>2. CASE t \in done[b]
      BY <2>1, <2>2, <3>1, <3>2
    <3>3. CASE t \notin done[b]
      <4>1. c = b /\ u = t
        BY <2>7, <3>3 DEF Acknowledge, Strong, TypeOK
      <4>2. remote[t][i] = rating[i]
        BY <2>1, <2>7, <3>1, <4>1 DEF Acknowledge, Written, history
      <4> QED
        BY <2>1, <3>1, <4>2
    <3> QED
      BY <3>2, <3>3
  <2>8. ASSUME NEW u \in Targets, NEW w \in Write, FlushWrites(u, w) \/ FlushWriteFails(u, w)
        PROVE  Goal
    <3>1. /\ UNCHANGED <<version, done>> /\ w \in sending
          /\ \/ UNCHANGED remote
             \/ remote' = [remote EXCEPT ![u][w.item] = w.value]
      BY <2>8 DEF FlushWrites, FlushWriteFails, durable
    <3>2. remote[t][i] = rating[i]
      BY <2>1, <2>2, <3>1 DEF SameAccount
    <3>3. remote'[t][i] = rating[i]
      BY <2>1, <3>1, <3>2, WriteEffect DEF Strong
    <3> QED
      BY <2>1, <3>3
  <2>9. ASSUME NEW u \in Targets, FlushFails(u) PROVE Goal
    BY <2>3, <2>9 DEF FlushFails, durable
  <2>10. ASSUME NEW k \in Items, NEW v \in Rated, Edit(k, v) PROVE Goal
    BY <2>3, <2>10 DEF Edit
  <2>11. ASSUME NEW w \in Write, LocalFanOut(w) PROVE Goal
    BY <2>3, <2>11 DEF LocalFanOut, FanOut, durable
  <2>12. ASSUME NEW f \in Fanned, LocalWrite(f) PROVE Goal
    <3>1. remote'[t][i] = remote[t][i]
      BY <2>1, <2>12, LocalWriteEffect DEF Strong
    <3> QED
      BY <2>1, <2>2, <2>12, <3>1 DEF LocalWrite, SameAccount, durable
  <2>13. ASSUME NEW u \in Connections, Switch(u) PROVE Goal
    <3>1. SameAccount(b, t) /\ remote'[t] = remote[t]
      BY <2>13, SwitchEffect DEF Strong
    <3> QED
      BY <2>1, <2>2, <2>13, <3>1 DEF Switch
  <2>14. CASE UNCHANGED vars
    BY <2>3, <2>14 DEF vars, durable
  <2> QED
    BY <1>2, <2>4, <2>5, <2>6, <2>7, <2>8, <2>9, <2>10, <2>11, <2>12, <2>13, <2>14
       DEF Next, Undisturbed, Disturbed, Delivery, Environment, Fanned
<1> QED
  BY <1>1, <1>2

Inductive == Strong /\ Written /\ AcknowledgedIsDelivered

LEMMA InitInductive == Init => Inductive
<1> SUFFICES ASSUME Init PROVE Inductive
  OBVIOUS
<1>1. TypeOK /\ Scoped
  BY InitTyped
<1>2. Marks /\ Edited /\ InFlightIsCurrent
  BY DEF Init, Marks, Edited, InFlightIsCurrent
<1>7. Retained
  BY TargetAssumption DEF Init, Retained
<1>3. Fences
  BY DEF Init, Fences
<1>4. \A b \in Batches, i \in Items : ~Live(b, i)
  BY DEF Init, Live, NoEntry
<1>5. Canonical /\ Carried /\ Written
  BY <1>4 DEF Canonical, Carried, Written
<1>6. AcknowledgedIsDelivered
  BY <1>4 DEF AcknowledgedIsDelivered, Live
<1> QED
  BY <1>1, <1>2, <1>3, <1>5, <1>6, <1>7 DEF Inductive, Strong

LEMMA InductiveInvariant == Spec => []Inductive
<1>1. Inductive /\ [Next]_vars => Inductive'
  BY TypeStep, ScopeStep, MarksStep, EditedStep, FencesStep, CanonicalStep, CarriedStep,
     InFlightStep, RetainedStep, WrittenStep, AcknowledgedStep DEF Inductive, Strong
<1> QED
  BY InitInductive, <1>1, PTL DEF Spec

\* An acknowledged destination holds what was accepted, unless it refused the writes of
\* the batch when its turn came, which counts as delivered (_deliver_cycle,
\* fan_out_changes).
THEOREM AcknowledgedTheorem == Spec => []AcknowledgedIsDelivered
BY InductiveInvariant, PTL DEF Inductive

\* A retry never replays a rating over a newer one (_flush_pull_cycle,
\* retry_cycle_deliveries).
THEOREM InFlightTheorem == Spec => []InFlightIsCurrent
BY InductiveInvariant, PTL DEF Inductive, Strong

---------------------------------------------------------------------------
(* The abstract specification.                                             *)

\* A batch is saved by its finalization and changed by acknowledgements alone.
LEMMA BatchFrame ==
    ASSUME [Next]_vars, \A b \in Batches : ~Finalize(b),
           \A b \in Batches, t \in Targets : ~Acknowledge(b, t)
    PROVE  UNCHANGED <<targets, done, pending>>
<1> USE DEF durable, batch
<1>1. ASSUME NEW b \in Batches,
             \/ CycleStarts(b) \/ RetryBegins(b) \/ \E t \in Targets : Flush(b, t)
      PROVE  UNCHANGED <<targets, done, pending>>
  BY <1>1 DEF CycleStarts, RetryBegins, Flush, FlushBegins, FlushWithheld, TurnsTo
<1>2. ASSUME NEW t \in Targets,
             \/ FlushFails(t)
             \/ \E w \in Write : FlushWrites(t, w) \/ FlushWriteFails(t, w)
      PROVE  UNCHANGED <<targets, done, pending>>
  BY <1>2 DEF FlushWrites, FlushWriteFails, FlushFails
<1>7. ASSUME NEW w \in Write, LocalFanOut(w) PROVE UNCHANGED <<targets, done, pending>>
  BY <1>7 DEF LocalFanOut, FanOut
<1>3. ASSUME NEW f \in Fanned, LocalWrite(f) PROVE UNCHANGED <<targets, done, pending>>
  BY <1>3 DEF LocalWrite
<1>4. ASSUME NEW k \in Items, NEW v \in Rated, Edit(k, v)
      PROVE  UNCHANGED <<targets, done, pending>>
  BY <1>4 DEF Edit
<1>5. ASSUME NEW t \in Connections, Switch(t) PROVE UNCHANGED <<targets, done, pending>>
  BY <1>5 DEF Switch
<1>6. ASSUME CycleFails \/ DeliveryEnds \/ Crash \/ UNCHANGED vars
      PROVE  UNCHANGED <<targets, done, pending>>
  BY <1>6 DEF CycleFails, DeliveryEnds, Crash, vars
<1> QED
  BY <1>1, <1>2, <1>3, <1>4, <1>5, <1>6, <1>7
     DEF Next, Undisturbed, Disturbed, Delivery, Environment, Fanned

\* Every step of CycleDelivery is a step of Outbox or leaves its variables alone.
LEMMA OutboxStep ==
    TypeOK /\ Marks /\ Retained /\ [Next]_vars => [Abstract!Next]_(Abstract!vars)
<1> SUFFICES ASSUME TypeOK, Marks, Retained, [Next]_vars
             PROVE  [Abstract!Next]_(Abstract!vars)
  OBVIOUS
<1> DEFINE phase == [b \in Batches |-> BatchPhase(b)]
           owed == [b \in Batches |-> targets[b] \ done[b]]
<1> USE DEF Retained
<1>0. targets \in [Batches -> SUBSET Targets] /\ done \in [Batches -> SUBSET Targets]
  BY DEF TypeOK
<1>1. ASSUME NEW b \in Batches, Finalize(b) PROVE Abstract!Next
  <2>1. /\ targets' = [targets EXCEPT ![b] = SameIdentities]
        /\ pending' = pending \cup {b} /\ done' = done
    BY <1>1 DEF Finalize
  <2>2. targets[b] = {} /\ done[b] = {} /\ b \notin pending
    BY <1>1 DEF Finalize, Marks
  <2>3. PICK T \in SUBSET Targets : T = SameIdentities /\ Queues \in T
    BY TargetAssumption DEF SameIdentities
  <2>4. phase[b] = "absent"
    BY <2>2 DEF BatchPhase
  <2>5. phase' = [phase EXCEPT ![b] = "pending"]
    BY <1>0, <2>1 DEF BatchPhase
  <2>6. owed' = [owed EXCEPT ![b] = T]
    <3>1. targets'[b] \ done'[b] = T
      BY <1>0, <2>1, <2>2, <2>3
    <3>2. \A d \in Batches \ {b} : targets'[d] = targets[d] /\ done'[d] = done[d]
      BY <1>0, <2>1
    <3> QED
      BY <3>1, <3>2
  <2>7. Abstract!Accept(b, T)
    BY <2>3, <2>4, <2>5, <2>6 DEF Abstract!Accept
  <2> QED
    BY <2>7 DEF Abstract!Next
<1>2. ASSUME NEW b \in Batches, NEW t \in Targets, Acknowledge(b, t) PROVE Abstract!Next
  <2>1. /\ t \in todo /\ job = {b} /\ targets' = targets
        /\ done' = [done EXCEPT ![b] = @ \cup {t}]
        /\ pending' = IF targets[b] \subseteq done[b] \cup {t} THEN pending \ {b} ELSE pending
    BY <1>2 DEF Acknowledge, TypeOK, batch
  <2>2. t \in targets[b] \ done[b] /\ b \in pending
    BY <2>1 DEF Marks
  <2>3. owed' = [owed EXCEPT ![b] = @ \ {t}]
    BY <1>0, <2>1
  <2>4. targets[b] \subseteq done[b] \cup {t} <=> owed[b] = {t}
    BY <2>2
  <2>5. phase' = [phase EXCEPT ![b] = IF owed[b] = {t} THEN "retired" ELSE @]
    <3>1. CASE owed[b] = {t}
      BY <1>0, <2>1, <2>2, <2>4, <3>1 DEF BatchPhase
    <3>2. CASE owed[b] # {t}
      BY <1>0, <2>1, <2>2, <2>4, <3>2 DEF BatchPhase
    <3> QED
      BY <3>1, <3>2
  <2>6. Abstract!Acknowledge(b, t)
    BY <2>2, <2>3, <2>5 DEF Abstract!Acknowledge
  <2> QED
    BY <2>6 DEF Abstract!Next
<1>3. ASSUME UNCHANGED <<targets, done, pending>> PROVE UNCHANGED Abstract!vars
  BY <1>3 DEF Abstract!vars, BatchPhase
<1> QED
  BY <1>1, <1>2, <1>3, BatchFrame

\* CycleDelivery implements Outbox: a batch that was accepted stays pending exactly until
\* each of its destinations has acknowledged it (core/sync_delivery.py), whatever fails.
THEOREM OutboxTheorem == Spec => OutboxImplemented
<1>1. Init => Abstract!Init
  BY DEF Init, Abstract!Init, BatchPhase
<1>2. Inductive => TypeOK /\ Marks /\ Retained
  BY DEF Inductive, Strong
<1> QED
  BY <1>1, <1>2, InductiveInvariant, OutboxStep, PTL
     DEF Spec, Abstract!Spec, OutboxImplemented

---------------------------------------------------------------------------
(* Where the rating a user gave can be lost on its way.                    *)

\* The rating last given to a title waits in the state of the registered cycle.
Deferred(i) ==
    active # {} /\ IF rating[i] = Nothing THEN i \in stateGone ELSE stateNew[i] = rating[i]

\* It was offered to the destination or is still on its way there.
OnItsWay(t, i) ==
    \/ <<t, i>> \in reached
    \/ [item |-> i, value |-> rating[i]] \in queued
    \/ [item |-> i, value |-> rating[i], to |-> t] \in fanning
    \/ Deferred(i)

\* What loses a deferred rating: the end of its cycle, finalize unless it is a removal,
\* and the task of an older edit of the title that comes to be deferred after it.
Overtaken(i) == \E w \in queued : w.item = i /\ w.value # rating[i] /\ LocalFanOut(w)

Drops(i) ==
    \/ CycleFails \/ DeliveryEnds \/ Overtaken(i)
    \/ rating[i] # Nothing /\ \E b \in Batches : Finalize(b)

\* A destination that refuses writes when the task of the edit meets no cycle.
PassedOver(t, i) ==
    /\ active = {}
    /\ \E w \in queued, refusing \in SUBSET (Targets \ {Queues}) :
          w.item = i /\ w.value = rating[i] /\ t \in refusing /\ FanOut(w, refusing)

\* The rating the user last gave a title sets out for every destination, and what is on
\* its way is lost only like this.
EditsReach ==
    [][\A t \in Targets \ {Queues}, i \in Items :
        /\ \A v \in Rated : Edit(i, v) => OnItsWay(t, i)'
        /\ OnItsWay(t, i) /\ ~OnItsWay(t, i)' =>
            Crash \/ PassedOver(t, i) \/ (Deferred(i) /\ Drops(i))]_vars

\* An edit sets out for every destination, and only a crash, a destination that refuses
\* writes when the edit fans out, or one of the four ways to drop what a cycle has
\* deferred loses it: edit_lost shows one of those (defer_fan_out, fan_out_changes,
\* _finalize).
THEOREM EditsReachTheorem == Spec => EditsReach
<1>1. ASSUME TypeOK, NEW t \in Targets \ {Queues}, NEW i \in Items, NEW v \in Rated,
             Edit(i, v)
      PROVE  OnItsWay(t, i)'
  BY <1>1 DEF Edit, OnItsWay, TypeOK
<1>2. ASSUME TypeOK, Edited, [Next]_vars, NEW t \in Targets \ {Queues}, NEW i \in Items,
             OnItsWay(t, i), ~OnItsWay(t, i)'
      PROVE  Crash \/ PassedOver(t, i) \/ (Deferred(i) /\ Drops(i))
  <2>0. rating \in [Items -> Rated] /\ stateNew \in [Items -> Rated]
    BY <1>2 DEF TypeOK
  <2> USE DEF durable, batch, cycle, flight, local, user, history
  <2>1. ASSUME NEW b \in Batches, CycleStarts(b) PROVE FALSE
    BY <1>2, <2>1 DEF CycleStarts, CycleLockFree, OnItsWay, Deferred
  <2>2. ASSUME CycleFails \/ DeliveryEnds PROVE Deferred(i) /\ Drops(i)
    BY <1>2, <2>2 DEF CycleFails, DeliveryEnds, OnItsWay, Drops
  <2>3. ASSUME NEW b \in Batches, Finalize(b) PROVE Deferred(i) /\ Drops(i)
    <3>1. PICK a \in Acceptable :
              /\ rating' = [k \in Items |-> IF a[k] = Nothing THEN rating[k] ELSE a[k]]
              /\ stateNew' = a
              /\ reached' = {r \in reached : a[r[2]] = Nothing}
      BY <2>3 DEF Finalize
    <3>2. UNCHANGED <<queued, fanning, active, stateGone>> /\ active # {}
      BY <2>3 DEF Finalize
    <3>3. a[i] = Nothing
      BY <1>2, <2>0, <3>1, <3>2 DEF OnItsWay, Deferred
    <3>4. rating'[i] = rating[i]
      BY <3>1, <3>3
    <3>5. <<t, i>> \in reached => <<t, i>> \in reached'
      BY <3>1, <3>3
    <3>6. Deferred(i)
      BY <1>2, <3>2, <3>4, <3>5 DEF OnItsWay
    <3>7. rating[i] # Nothing
      BY <1>2, <3>2, <3>4, <3>6 DEF OnItsWay, Deferred
    <3> QED
      BY <2>3, <3>6, <3>7 DEF Drops
  <2>4. ASSUME NEW b \in Batches, RetryBegins(b) PROVE FALSE
    BY <1>2, <2>4 DEF RetryBegins, CycleLockFree, OnItsWay, Deferred
  <2>5. ASSUME NEW b \in Batches, NEW u \in Targets, Flush(b, u) PROVE FALSE
    <3>1. UNCHANGED <<rating, reached, queued, fanning, active>>
      BY <2>5 DEF Flush, FlushBegins, FlushWithheld, TurnsTo
    <3>2. stateNew[i] = rating[i] => stateNew'[i] = rating[i]
      BY <2>0, <2>5 DEF Flush, FlushBegins, FlushWithheld, TurnsTo, CurrentRatings
    <3>3. i \in stateGone /\ rating[i] = Nothing => i \in stateGone'
      BY <2>5 DEF Flush, FlushBegins, FlushWithheld, TurnsTo, CurrentRemovals
    <3> QED
      BY <1>2, <3>1, <3>2, <3>3 DEF OnItsWay, Deferred
  <2>6. ASSUME NEW u \in Targets,
               \/ FlushFails(u)
               \/ \E b \in Batches : Acknowledge(b, u)
               \/ \E w \in Write : FlushWrites(u, w) \/ FlushWriteFails(u, w)
        PROVE FALSE
    <3>1. /\ UNCHANGED <<rating, queued, fanning, active, stateNew, stateGone>>
          /\ reached \subseteq reached'
      BY <2>6 DEF FlushFails, Acknowledge, FlushWrites, FlushWriteFails
    <3> QED
      BY <1>2, <3>1 DEF OnItsWay, Deferred
  <2>7. ASSUME NEW k \in Items, NEW v \in Rated, Edit(k, v) PROVE FALSE
    <3>1. k # i
      BY <1>1, <1>2, <2>7
    <3>2. /\ rating'[i] = rating[i] /\ queued \subseteq queued'
          /\ UNCHANGED <<fanning, active, stateNew, stateGone>>
          /\ <<t, i>> \in reached => <<t, i>> \in reached'
      BY <2>0, <2>7, <3>1 DEF Edit
    <3> QED
      BY <1>2, <3>2 DEF OnItsWay, Deferred
  <2>8. ASSUME NEW w \in Write, LocalFanOut(w)
        PROVE  PassedOver(t, i) \/ (Deferred(i) /\ Drops(i))
    <3>0. PICK refusing \in SUBSET (Targets \ {Queues}) : FanOut(w, refusing)
      BY <2>8 DEF LocalFanOut
    <3>1. UNCHANGED <<rating, reached, active>>
      BY <3>0 DEF FanOut
    <3>2. w \in queued /\ queued' = queued \ {w}
      BY <3>0 DEF FanOut
    <3>3. CASE w.item = i /\ w.value = rating[i]
      <4>1. CASE active = {}
        <5>1. CASE t \notin refusing
          <6>1. [item |-> w.item, value |-> w.value, to |-> t] \in fanning'
            BY <3>0, <4>1, <5>1 DEF FanOut
          <6> QED
            BY <1>2, <3>1, <3>3, <6>1 DEF OnItsWay
        <5>2. CASE t \in refusing
          BY <3>0, <3>2, <3>3, <4>1, <5>2 DEF PassedOver
        <5> QED
          BY <5>1, <5>2
      <4>2. CASE active # {}
        BY <1>2, <2>0, <3>0, <3>1, <3>3, <4>2 DEF FanOut, Defer, OnItsWay, Deferred
      <4> QED
        BY <4>1, <4>2
    <3>4. CASE ~(w.item = i /\ w.value = rating[i])
      <4>1. w # [item |-> i, value |-> rating[i]]
        BY <3>4
      <4>2. /\ [item |-> i, value |-> rating[i]] \in queued =>
                  [item |-> i, value |-> rating[i]] \in queued'
            /\ fanning \subseteq fanning'
        BY <3>0, <3>2, <4>1 DEF FanOut
      <4>3. Deferred(i) /\ ~Deferred(i)'
        BY <1>2, <3>1, <4>2 DEF OnItsWay
      <4>4. w.item = i
        BY <2>0, <3>0, <3>1, <4>3 DEF FanOut, Defer, Deferred
      <4> QED
        BY <2>8, <3>2, <3>4, <4>3, <4>4 DEF Drops, Overtaken
    <3> QED
      BY <3>3, <3>4
  <2>9. ASSUME NEW f \in Fanned, LocalWrite(f) PROVE FALSE
    <3>1. /\ UNCHANGED <<rating, queued, active, stateNew, stateGone>>
          /\ fanning' = fanning \ {f} /\ reached' = reached \cup Offers(f.to, f)
      BY <2>9 DEF LocalWrite
    <3>2. f = [item |-> i, value |-> rating[i], to |-> t]
      BY <1>2, <3>1 DEF OnItsWay, Deferred
    <3>3. edits[i] > 0
      BY <1>2, <2>9, <3>2 DEF LocalWrite, Edited, Untouched, TypeOK
    <3>4. <<t, i>> \in reached'
      BY <3>1, <3>2, <3>3 DEF Offers
    <3> QED
      BY <1>2, <3>4 DEF OnItsWay
  <2>10. ASSUME NEW u \in Connections, Switch(u) PROVE FALSE
    BY <1>2, <2>10 DEF Switch, OnItsWay, Deferred
  <2>11. CASE UNCHANGED vars
    BY <1>2, <2>11 DEF vars, OnItsWay, Deferred
  <2> QED
    BY <1>2, <2>1, <2>2, <2>3, <2>4, <2>5, <2>6, <2>7, <2>8, <2>9, <2>10, <2>11
       DEF Next, Undisturbed, Disturbed, Delivery, Environment, Fanned
<1>3. TypeOK /\ Edited /\ [Next]_vars =>
        [\A t \in Targets \ {Queues}, i \in Items :
            /\ \A v \in Rated : Edit(i, v) => OnItsWay(t, i)'
            /\ OnItsWay(t, i) /\ ~OnItsWay(t, i)' =>
                Crash \/ PassedOver(t, i) \/ (Deferred(i) /\ Drops(i))]_vars
  BY <1>1, <1>2
<1> QED
  BY <1>3, InductiveInvariant, PTL DEF Spec, EditsReach, Inductive, Strong
=============================================================================
