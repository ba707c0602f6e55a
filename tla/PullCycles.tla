---------------------------- MODULE PullCycles -----------------------------
(***************************************************************************)
(* What the account pull cycles of one user promise, without workers,      *)
(* locks, flags or processes: cycles are open one at a time, the canonical *)
(* changes of a cycle are accepted while it is open and never taken back,  *)
(* and a cycle that has ended stays ended.  AccountSync implements it.     *)
(***************************************************************************)
CONSTANT Cycles

VARIABLES
    phase,    \* "none", "open" or "ended", for every cycle
    accepted  \* the cycles whose canonical changes are committed

vars == <<phase, accepted>>

Init ==
    /\ phase = [c \in Cycles |-> "none"]
    /\ accepted = {}

Open(c) ==
    /\ phase[c] = "none"
    /\ \A d \in Cycles : phase[d] # "open"
    /\ phase' = [phase EXCEPT ![c] = "open"]
    /\ UNCHANGED accepted

Accept(c) ==
    /\ phase[c] = "open"
    /\ accepted' = accepted \cup {c}
    /\ UNCHANGED phase

End(c) ==
    /\ phase[c] = "open"
    /\ phase' = [phase EXCEPT ![c] = "ended"]
    /\ UNCHANGED accepted

Next == \E c \in Cycles : Open(c) \/ Accept(c) \/ End(c)

Spec == Init /\ [][Next]_vars
=============================================================================
