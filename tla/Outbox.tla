------------------------------ MODULE Outbox -------------------------------
(***************************************************************************)
(* What is promised of the batches that pull cycles leave behind, without  *)
(* ratings, accounts, locks or processes: a batch is accepted once, for    *)
(* some destinations; each of them acknowledges it once; and the batch is  *)
(* retired by the last acknowledgement and by nothing else.  CycleDelivery *)
(* implements it destination by destination, AccountSync row by row.       *)
(***************************************************************************)
CONSTANTS Batches, Targets

VARIABLES
    phase,  \* "absent", "pending" or "retired", for every batch
    owed    \* the destinations that have yet to acknowledge it

vars == <<phase, owed>>

Init ==
    /\ phase = [b \in Batches |-> "absent"]
    /\ owed = [b \in Batches |-> {}]

Accept(b, T) ==
    /\ phase[b] = "absent" /\ T # {}
    /\ phase' = [phase EXCEPT ![b] = "pending"]
    /\ owed' = [owed EXCEPT ![b] = T]

Acknowledge(b, t) ==
    /\ t \in owed[b]
    /\ owed' = [owed EXCEPT ![b] = @ \ {t}]
    /\ phase' = [phase EXCEPT ![b] = IF owed[b] = {t} THEN "retired" ELSE @]

Next ==
    \E b \in Batches :
        \/ \E T \in SUBSET Targets : Accept(b, T)
        \/ \E t \in Targets : Acknowledge(b, t)

Spec == Init /\ [][Next]_vars
=============================================================================
