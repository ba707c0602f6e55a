---------------------------- MODULE Generations ----------------------------
(***************************************************************************)
(* What the statistics of an account promise to whoever reads them: there  *)
(* is at most one published generation, it appears whole, it describes the *)
(* facts and the metadata of the moment it appears, and it stays until the *)
(* next one replaces it or until the removal of what it shows takes it     *)
(* away.                                                                   *)
(***************************************************************************)
EXTENDS Naturals

CONSTANT None  \* no generation

VARIABLES
    facts,     \* revision of the facts of the account
    shared,    \* revision of the metadata all accounts share
    shape,     \* version of the calculation
    published  \* the generation readers are shown, or None

gVars == <<facts, shared, shape, published>>

GInit ==
    /\ facts = 0 /\ shared = 0 /\ shape = 0
    /\ published = None

\* Facts, metadata or the calculation change; readers keep what they have.
Change ==
    /\ facts' >= facts /\ shared' >= shared /\ shape' >= shape
    /\ <<facts, shared, shape>>' # <<facts, shared, shape>>
    /\ UNCHANGED published

\* A change that takes away something the generation shows.
Remove ==
    /\ \/ facts' > facts /\ UNCHANGED shared
       \/ shared' > shared /\ UNCHANGED facts
    /\ published' = None
    /\ UNCHANGED shape

Generate ==
    /\ published' = [facts |-> facts, shared |-> shared, shape |-> shape]
    /\ UNCHANGED <<facts, shared, shape>>

GNext == Change \/ Remove \/ Generate

GSpec == GInit /\ [][GNext]_gVars
=============================================================================
