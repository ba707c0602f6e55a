-------------------------- MODULE MCCycleDelivery --------------------------
(* Instances of CycleDelivery for TLC.                                      *)
EXTENDS CycleDelivery

CONSTANT b1    \* the batch whose flushes may be refused

BatchesSpec == Init /\ [][Next /\ withheld' \subseteq {b1} \X Targets]_vars /\ Fairness
=============================================================================
