-------------------------- MODULE Imports_proofs --------------------------
(***************************************************************************)
(* Proofs about ImportSessions and, for any number of jobs, ImportHandoff. *)
(* The invariant of a session adds to the properties what a task may       *)
(* assume of the row when it writes: a commit that holds the locks finds   *)
(* it committing, and a failure handler, which holds none, finds it as it  *)
(* read it or cancelled.                                                   *)
(***************************************************************************)
EXTENDS ImportSessions, ImportHandoff, TLAPS

\* Every step of the rows, the tasks and the requests keeps the invariant.
LEMMA ImportsStep == ImportsInv /\ [ImportsNext]_importVars => ImportsInv'
<1> SUFFICES ASSUME ImportsInv, [ImportsNext]_importVars PROVE ImportsInv'
  OBVIOUS
<1> USE DEF ImportsInv, ImportsTypeOK, RowsTypeOK, TasksTypeOK, FlagsTypeOK, Drafted, Unlocked, SameAccount, Available,
            Cancelled, RemoveAbandoned, PrepareFinishes, CommitFinishes
<1>1. CASE UploadHistory
  <2> USE <1>1 DEF UploadHistory, importRows, importMemory
  <2>1. ImportsTypeOK'
    <3>1. RowsTypeOK'
      OBVIOUS
    <3>2. TasksTypeOK'
      OBVIOUS
    <3>3. FlagsTypeOK'
      OBVIOUS
    <3>4. QED
      BY <3>1, <3>2, <3>3
  <2>2. TasksKnow'
    BY DEF TasksKnow
  <2>3. RowsAgree'
    BY DEF RowsAgree
  <2>4. AppliedIsCommitted'
    BY DEF AppliedIsCommitted
  <2>5. DraftHasSession'
    BY DEF DraftHasSession, RowsAgree
  <2>6. QED
    BY <2>1, <2>2, <2>3, <2>4, <2>5
<1>2. CASE StageFirstSnapshot
  <2> USE <1>2 DEF StageFirstSnapshot, importRows, importMemory
  <2>1. ImportsTypeOK'
    <3>1. RowsTypeOK'
      OBVIOUS
    <3>2. TasksTypeOK'
      OBVIOUS
    <3>3. FlagsTypeOK'
      OBVIOUS
    <3>4. QED
      BY <3>1, <3>2, <3>3
  <2>2. TasksKnow'
    BY DEF TasksKnow
  <2>3. RowsAgree'
    BY DEF RowsAgree
  <2>4. AppliedIsCommitted'
    BY DEF AppliedIsCommitted
  <2>5. DraftHasSession'
    BY DEF DraftHasSession, RowsAgree
  <2>6. QED
    BY <2>1, <2>2, <2>3, <2>4, <2>5
<1>3. CASE StagingEnds
  <2> USE <1>3 DEF StagingEnds, importRows, importMemory
  <2>1. ImportsTypeOK'
    <3>1. RowsTypeOK'
      OBVIOUS
    <3>2. TasksTypeOK'
      OBVIOUS
    <3>3. FlagsTypeOK'
      OBVIOUS
    <3>4. QED
      BY <3>1, <3>2, <3>3
  <2>2. TasksKnow'
    BY DEF TasksKnow
  <2>3. RowsAgree'
    BY DEF RowsAgree
  <2>4. AppliedIsCommitted'
    BY DEF AppliedIsCommitted
  <2>5. DraftHasSession'
    BY DEF DraftHasSession, RowsAgree
  <2>6. QED
    BY <2>1, <2>2, <2>3, <2>4, <2>5
<1>4. CASE PrepareSession
  <2> USE <1>4 DEF PrepareSession, importRows, importMemory
  <2>1. ImportsTypeOK'
    <3>1. RowsTypeOK'
      OBVIOUS
    <3>2. TasksTypeOK'
      OBVIOUS
    <3>3. FlagsTypeOK'
      OBVIOUS
    <3>4. QED
      BY <3>1, <3>2, <3>3
  <2>2. TasksKnow'
    BY DEF TasksKnow
  <2>3. RowsAgree'
    BY DEF RowsAgree
  <2>4. AppliedIsCommitted'
    BY DEF AppliedIsCommitted
  <2>5. DraftHasSession'
    BY DEF DraftHasSession, RowsAgree
  <2>6. QED
    BY <2>1, <2>2, <2>3, <2>4, <2>5
<1>5. CASE PrepareEnds
  <2> USE <1>5 DEF PrepareEnds, importRows, importMemory
  <2>1. ImportsTypeOK'
    <3>1. RowsTypeOK'
      OBVIOUS
    <3>2. TasksTypeOK'
      OBVIOUS
    <3>3. FlagsTypeOK'
      OBVIOUS
    <3>4. QED
      BY <3>1, <3>2, <3>3
  <2>2. TasksKnow'
    BY DEF TasksKnow
  <2>3. RowsAgree'
    BY DEF RowsAgree
  <2>4. AppliedIsCommitted'
    BY DEF AppliedIsCommitted
  <2>5. DraftHasSession'
    BY DEF DraftHasSession, RowsAgree
  <2>6. QED
    BY <2>1, <2>2, <2>3, <2>4, <2>5
<1>6. CASE PrepareFails
  <2> USE <1>6 DEF PrepareFails, importRows, importMemory
  <2>1. ImportsTypeOK'
    <3>1. RowsTypeOK'
      OBVIOUS
    <3>2. TasksTypeOK'
      OBVIOUS
    <3>3. FlagsTypeOK'
      OBVIOUS
    <3>4. QED
      BY <3>1, <3>2, <3>3
  <2>2. TasksKnow'
    BY DEF TasksKnow
  <2>3. RowsAgree'
    BY DEF RowsAgree
  <2>4. AppliedIsCommitted'
    BY DEF AppliedIsCommitted
  <2>5. DraftHasSession'
    BY DEF DraftHasSession, RowsAgree
  <2>6. QED
    BY <2>1, <2>2, <2>3, <2>4, <2>5
<1>7. CASE PrepareFailed
  <2> USE <1>7 DEF PrepareFailed, importRows, importMemory
  <2>1. ImportsTypeOK'
    <3>1. RowsTypeOK'
      OBVIOUS
    <3>2. TasksTypeOK'
      OBVIOUS
    <3>3. FlagsTypeOK'
      OBVIOUS
    <3>4. QED
      BY <3>1, <3>2, <3>3
  <2>2. TasksKnow'
    BY DEF TasksKnow
  <2>3. RowsAgree'
    BY DEF RowsAgree
  <2>4. AppliedIsCommitted'
    BY DEF AppliedIsCommitted, TasksKnow
  <2>5. DraftHasSession'
    BY DEF DraftHasSession, RowsAgree
  <2>6. QED
    BY <2>1, <2>2, <2>3, <2>4, <2>5
<1>8. CASE AcceptCommit
  <2> USE <1>8 DEF AcceptCommit, importRows, importMemory
  <2>1. ImportsTypeOK'
    <3>1. RowsTypeOK'
      OBVIOUS
    <3>2. TasksTypeOK'
      OBVIOUS
    <3>3. FlagsTypeOK'
      OBVIOUS
    <3>4. QED
      BY <3>1, <3>2, <3>3
  <2>2. TasksKnow'
    BY DEF TasksKnow
  <2>3. RowsAgree'
    BY DEF RowsAgree
  <2>4. AppliedIsCommitted'
    BY DEF AppliedIsCommitted
  <2>5. DraftHasSession'
    BY DEF DraftHasSession, RowsAgree
  <2>6. QED
    BY <2>1, <2>2, <2>3, <2>4, <2>5
<1>9. CASE PollImport
  <2> USE <1>9 DEF PollImport, importRows, importMemory
  <2>1. ImportsTypeOK'
    <3>1. RowsTypeOK'
      OBVIOUS
    <3>2. TasksTypeOK'
      OBVIOUS
    <3>3. FlagsTypeOK'
      OBVIOUS
    <3>4. QED
      BY <3>1, <3>2, <3>3
  <2>2. TasksKnow'
    BY DEF TasksKnow, RowsAgree
  <2>3. RowsAgree'
    BY DEF RowsAgree
  <2>4. AppliedIsCommitted'
    BY DEF AppliedIsCommitted
  <2>5. DraftHasSession'
    BY DEF DraftHasSession, RowsAgree
  <2>6. QED
    BY <2>1, <2>2, <2>3, <2>4, <2>5
<1>10. CASE CommitBegins
  <2> USE <1>10 DEF CommitBegins, importRows, importMemory
  <2>1. ImportsTypeOK'
    <3>1. RowsTypeOK'
      OBVIOUS
    <3>2. TasksTypeOK'
      OBVIOUS
    <3>3. FlagsTypeOK'
      OBVIOUS
    <3>4. QED
      BY <3>1, <3>2, <3>3
  <2>2. TasksKnow'
    BY DEF TasksKnow
  <2>3. RowsAgree'
    BY DEF RowsAgree
  <2>4. AppliedIsCommitted'
    BY DEF AppliedIsCommitted
  <2>5. DraftHasSession'
    BY DEF DraftHasSession, RowsAgree
  <2>6. QED
    BY <2>1, <2>2, <2>3, <2>4, <2>5
<1>11. CASE CommitChecks
  <2> USE <1>11 DEF CommitChecks, importRows, importMemory
  <2>1. ImportsTypeOK'
    <3>1. RowsTypeOK'
      OBVIOUS
    <3>2. TasksTypeOK'
      OBVIOUS
    <3>3. FlagsTypeOK'
      OBVIOUS
    <3>4. QED
      BY <3>1, <3>2, <3>3
  <2>2. TasksKnow'
    BY DEF TasksKnow
  <2>3. RowsAgree'
    BY DEF RowsAgree
  <2>4. AppliedIsCommitted'
    BY DEF AppliedIsCommitted
  <2>5. DraftHasSession'
    BY DEF DraftHasSession, RowsAgree
  <2>6. QED
    BY <2>1, <2>2, <2>3, <2>4, <2>5
<1>12. CASE CommitEnds
  <2> USE <1>12 DEF CommitEnds, importRows, importMemory
  <2>1. ImportsTypeOK'
    <3>1. RowsTypeOK'
      BY DEF AppliedIsCommitted, TasksKnow
    <3>2. TasksTypeOK'
      OBVIOUS
    <3>3. FlagsTypeOK'
      OBVIOUS
    <3>4. QED
      BY <3>1, <3>2, <3>3
  <2>2. TasksKnow'
    BY DEF TasksKnow
  <2>3. RowsAgree'
    BY DEF RowsAgree
  <2>4. AppliedIsCommitted'
    BY DEF AppliedIsCommitted, TasksKnow
  <2>5. DraftHasSession'
    BY DEF DraftHasSession, RowsAgree
  <2>6. QED
    BY <2>1, <2>2, <2>3, <2>4, <2>5
<1>13. CASE CommitRaises
  <2> USE <1>13 DEF CommitRaises, importRows, importMemory
  <2>1. ImportsTypeOK'
    <3>1. RowsTypeOK'
      OBVIOUS
    <3>2. TasksTypeOK'
      OBVIOUS
    <3>3. FlagsTypeOK'
      OBVIOUS
    <3>4. QED
      BY <3>1, <3>2, <3>3
  <2>2. TasksKnow'
    BY DEF TasksKnow
  <2>3. RowsAgree'
    BY DEF RowsAgree
  <2>4. AppliedIsCommitted'
    BY DEF AppliedIsCommitted
  <2>5. DraftHasSession'
    BY DEF DraftHasSession, RowsAgree
  <2>6. QED
    BY <2>1, <2>2, <2>3, <2>4, <2>5
<1>14. CASE PullEnds
  <2> USE <1>14 DEF PullEnds, importRows, importMemory
  <2>1. ImportsTypeOK'
    <3>1. RowsTypeOK'
      OBVIOUS
    <3>2. TasksTypeOK'
      OBVIOUS
    <3>3. FlagsTypeOK'
      OBVIOUS
    <3>4. QED
      BY <3>1, <3>2, <3>3
  <2>2. TasksKnow'
    BY DEF TasksKnow
  <2>3. RowsAgree'
    BY DEF RowsAgree
  <2>4. AppliedIsCommitted'
    BY DEF AppliedIsCommitted
  <2>5. DraftHasSession'
    BY DEF DraftHasSession, RowsAgree
  <2>6. QED
    BY <2>1, <2>2, <2>3, <2>4, <2>5
<1>15. CASE CommitAborts
  <2> USE <1>15 DEF CommitAborts, importRows, importMemory
  <2>1. ImportsTypeOK'
    <3>1. RowsTypeOK'
      OBVIOUS
    <3>2. TasksTypeOK'
      OBVIOUS
    <3>3. FlagsTypeOK'
      OBVIOUS
    <3>4. QED
      BY <3>1, <3>2, <3>3
  <2>2. TasksKnow'
    BY DEF TasksKnow
  <2>3. RowsAgree'
    BY DEF RowsAgree
  <2>4. AppliedIsCommitted'
    BY DEF AppliedIsCommitted
  <2>5. DraftHasSession'
    BY DEF DraftHasSession, RowsAgree
  <2>6. QED
    BY <2>1, <2>2, <2>3, <2>4, <2>5
<1>16. CASE CommitRejected
  <2> USE <1>16 DEF CommitRejected, importRows, importMemory
  <2>1. ImportsTypeOK'
    <3>1. RowsTypeOK'
      OBVIOUS
    <3>2. TasksTypeOK'
      OBVIOUS
    <3>3. FlagsTypeOK'
      OBVIOUS
    <3>4. QED
      BY <3>1, <3>2, <3>3
  <2>2. TasksKnow'
    BY DEF TasksKnow
  <2>3. RowsAgree'
    BY DEF RowsAgree
  <2>4. AppliedIsCommitted'
    BY DEF AppliedIsCommitted
  <2>5. DraftHasSession'
    BY DEF DraftHasSession, RowsAgree
  <2>6. QED
    BY <2>1, <2>2, <2>3, <2>4, <2>5
<1>17. CASE CommitReturns
  <2> USE <1>17 DEF CommitReturns, importRows, importMemory
  <2>1. ImportsTypeOK'
    <3>1. RowsTypeOK'
      OBVIOUS
    <3>2. TasksTypeOK'
      OBVIOUS
    <3>3. FlagsTypeOK'
      OBVIOUS
    <3>4. QED
      BY <3>1, <3>2, <3>3
  <2>2. TasksKnow'
    BY DEF TasksKnow
  <2>3. RowsAgree'
    BY DEF RowsAgree
  <2>4. AppliedIsCommitted'
    BY DEF AppliedIsCommitted
  <2>5. DraftHasSession'
    BY DEF DraftHasSession, RowsAgree
  <2>6. QED
    BY <2>1, <2>2, <2>3, <2>4, <2>5
<1>18. CASE CommitFails
  <2> USE <1>18 DEF CommitFails, importRows, importMemory
  <2>1. ImportsTypeOK'
    <3>1. RowsTypeOK'
      OBVIOUS
    <3>2. TasksTypeOK'
      OBVIOUS
    <3>3. FlagsTypeOK'
      OBVIOUS
    <3>4. QED
      BY <3>1, <3>2, <3>3
  <2>2. TasksKnow'
    BY DEF TasksKnow
  <2>3. RowsAgree'
    BY DEF RowsAgree
  <2>4. AppliedIsCommitted'
    BY DEF AppliedIsCommitted
  <2>5. DraftHasSession'
    BY DEF DraftHasSession, RowsAgree
  <2>6. QED
    BY <2>1, <2>2, <2>3, <2>4, <2>5
<1>19. CASE CommitFailed
  <2> USE <1>19 DEF CommitFailed, importRows, importMemory
  <2>1. ImportsTypeOK'
    <3>1. RowsTypeOK'
      OBVIOUS
    <3>2. TasksTypeOK'
      OBVIOUS
    <3>3. FlagsTypeOK'
      OBVIOUS
    <3>4. QED
      BY <3>1, <3>2, <3>3
  <2>2. TasksKnow'
    BY DEF TasksKnow
  <2>3. RowsAgree'
    BY DEF RowsAgree
  <2>4. AppliedIsCommitted'
    BY DEF AppliedIsCommitted, TasksKnow
  <2>5. DraftHasSession'
    BY DEF DraftHasSession, RowsAgree
  <2>6. QED
    BY <2>1, <2>2, <2>3, <2>4, <2>5
<1>20. CASE CancelImport
  <2> USE <1>20 DEF CancelImport, importRows, importMemory
  <2>1. ImportsTypeOK'
    <3>1. RowsTypeOK'
      OBVIOUS
    <3>2. TasksTypeOK'
      OBVIOUS
    <3>3. FlagsTypeOK'
      OBVIOUS
    <3>4. QED
      BY <3>1, <3>2, <3>3
  <2>2. TasksKnow'
    BY DEF TasksKnow
  <2>3. RowsAgree'
    BY DEF RowsAgree
  <2>4. AppliedIsCommitted'
    BY DEF AppliedIsCommitted
  <2>5. DraftHasSession'
    BY DEF DraftHasSession, RowsAgree
  <2>6. QED
    BY <2>1, <2>2, <2>3, <2>4, <2>5
<1>21. CASE CancelLocked
  <2> USE <1>21 DEF CancelLocked, importRows, importMemory
  <2>1. ImportsTypeOK'
    <3>1. RowsTypeOK'
      OBVIOUS
    <3>2. TasksTypeOK'
      OBVIOUS
    <3>3. FlagsTypeOK'
      OBVIOUS
    <3>4. QED
      BY <3>1, <3>2, <3>3
  <2>2. TasksKnow'
    BY DEF TasksKnow
  <2>3. RowsAgree'
    BY DEF RowsAgree
  <2>4. AppliedIsCommitted'
    BY DEF AppliedIsCommitted
  <2>5. DraftHasSession'
    BY DEF DraftHasSession, RowsAgree
  <2>6. QED
    BY <2>1, <2>2, <2>3, <2>4, <2>5
<1>22. CASE RemovalSignals
  <2> USE <1>22 DEF RemovalSignals, importRows, importMemory
  <2>1. ImportsTypeOK'
    <3>1. RowsTypeOK'
      OBVIOUS
    <3>2. TasksTypeOK'
      OBVIOUS
    <3>3. FlagsTypeOK'
      OBVIOUS
    <3>4. QED
      BY <3>1, <3>2, <3>3
  <2>2. TasksKnow'
    BY DEF TasksKnow
  <2>3. RowsAgree'
    BY DEF RowsAgree
  <2>4. AppliedIsCommitted'
    BY DEF AppliedIsCommitted
  <2>5. DraftHasSession'
    BY DEF DraftHasSession, RowsAgree
  <2>6. QED
    BY <2>1, <2>2, <2>3, <2>4, <2>5
<1>23. CASE RemovalBumps
  <2> USE <1>23 DEF RemovalBumps, importRows, importMemory
  <2>1. ImportsTypeOK'
    <3>1. RowsTypeOK'
      OBVIOUS
    <3>2. TasksTypeOK'
      OBVIOUS
    <3>3. FlagsTypeOK'
      OBVIOUS
    <3>4. QED
      BY <3>1, <3>2, <3>3
  <2>2. TasksKnow'
    BY DEF TasksKnow
  <2>3. RowsAgree'
    BY DEF RowsAgree
  <2>4. AppliedIsCommitted'
    BY DEF AppliedIsCommitted
  <2>5. DraftHasSession'
    BY DEF DraftHasSession, RowsAgree
  <2>6. QED
    BY <2>1, <2>2, <2>3, <2>4, <2>5
<1>24. CASE RemovalLocked
  <2> USE <1>24 DEF RemovalLocked, importRows, importMemory
  <2>1. ImportsTypeOK'
    <3>1. RowsTypeOK'
      OBVIOUS
    <3>2. TasksTypeOK'
      OBVIOUS
    <3>3. FlagsTypeOK'
      OBVIOUS
    <3>4. QED
      BY <3>1, <3>2, <3>3
  <2>2. TasksKnow'
    BY DEF TasksKnow
  <2>3. RowsAgree'
    BY DEF RowsAgree
  <2>4. AppliedIsCommitted'
    BY DEF AppliedIsCommitted
  <2>5. DraftHasSession'
    BY DEF DraftHasSession, RowsAgree
  <2>6. QED
    BY <2>1, <2>2, <2>3, <2>4, <2>5
<1>25. CASE ReplaceAccount
  <2> USE <1>25 DEF ReplaceAccount, importRows, importMemory
  <2>1. ImportsTypeOK'
    <3>1. RowsTypeOK'
      OBVIOUS
    <3>2. TasksTypeOK'
      OBVIOUS
    <3>3. FlagsTypeOK'
      OBVIOUS
    <3>4. QED
      BY <3>1, <3>2, <3>3
  <2>2. TasksKnow'
    BY DEF TasksKnow
  <2>3. RowsAgree'
    BY DEF RowsAgree
  <2>4. AppliedIsCommitted'
    BY DEF AppliedIsCommitted
  <2>5. DraftHasSession'
    BY DEF DraftHasSession, RowsAgree
  <2>6. QED
    BY <2>1, <2>2, <2>3, <2>4, <2>5
<1>26. CASE DraftExpires
  <2> USE <1>26 DEF DraftExpires, importRows, importMemory
  <2>1. ImportsTypeOK'
    <3>1. RowsTypeOK'
      OBVIOUS
    <3>2. TasksTypeOK'
      OBVIOUS
    <3>3. FlagsTypeOK'
      OBVIOUS
    <3>4. QED
      BY <3>1, <3>2, <3>3
  <2>2. TasksKnow'
    BY DEF TasksKnow
  <2>3. RowsAgree'
    BY DEF RowsAgree
  <2>4. AppliedIsCommitted'
    BY DEF AppliedIsCommitted
  <2>5. DraftHasSession'
    BY DEF DraftHasSession, RowsAgree
  <2>6. QED
    BY <2>1, <2>2, <2>3, <2>4, <2>5
<1>27. CASE CleanupExpired
  <2> USE <1>27 DEF CleanupExpired, importRows, importMemory
  <2>1. ImportsTypeOK'
    <3>1. RowsTypeOK'
      OBVIOUS
    <3>2. TasksTypeOK'
      OBVIOUS
    <3>3. FlagsTypeOK'
      OBVIOUS
    <3>4. QED
      BY <3>1, <3>2, <3>3
  <2>2. TasksKnow'
    BY DEF TasksKnow
  <2>3. RowsAgree'
    BY DEF RowsAgree
  <2>4. AppliedIsCommitted'
    BY DEF AppliedIsCommitted
  <2>5. DraftHasSession'
    BY DEF DraftHasSession, RowsAgree
  <2>6. QED
    BY <2>1, <2>2, <2>3, <2>4, <2>5
<1>28. CASE RestartImports
  <2> USE <1>28 DEF RestartImports, importRows, importMemory
  <2>1. ImportsTypeOK'
    <3>1. RowsTypeOK'
      OBVIOUS
    <3>2. TasksTypeOK'
      OBVIOUS
    <3>3. FlagsTypeOK'
      OBVIOUS
    <3>4. QED
      BY <3>1, <3>2, <3>3
  <2>2. TasksKnow'
    <3>1. CASE status' = "preparing"
      BY <3>1 DEF TasksKnow, RowsAgree
    <3>2. CASE status' # "preparing"
      BY <3>2 DEF TasksKnow, RowsAgree
    <3>3. QED
      BY <3>1, <3>2
  <2>3. RowsAgree'
    BY DEF RowsAgree
  <2>4. AppliedIsCommitted'
    BY DEF AppliedIsCommitted
  <2>5. DraftHasSession'
    BY DEF DraftHasSession, RowsAgree
  <2>6. QED
    BY <2>1, <2>2, <2>3, <2>4, <2>5
<1>29. CASE UNCHANGED importVars
  BY <1>29 DEF importVars, importRows, importMemory, TasksKnow, RowsAgree, AppliedIsCommitted, DraftHasSession
<1>30. QED
  BY <1>1, <1>2, <1>3, <1>4, <1>5, <1>6, <1>7, <1>8, <1>9, <1>10, <1>11, <1>12, <1>13, <1>14, <1>15, <1>16, <1>17, <1>18, <1>19, <1>20, <1>21, <1>22, <1>23, <1>24, <1>25, <1>26, <1>27, <1>28, <1>29
     DEF ImportsNext, ImportsCalm, PrepareWorks, CommitWorks

LEMMA ImportsInvariant == ImportsSpec => []ImportsInv
<1>1. ImportsInit => ImportsInv
  <2> SUFFICES ASSUME ImportsInit PROVE ImportsInv
    OBVIOUS
  <2>1. origin \in {"file", "connection"}
    BY OriginsAssumption DEF ImportsInit
  <2>2. RowsTypeOK
    BY <2>1 DEF ImportsInit, RowsTypeOK
  <2>3. TasksTypeOK /\ FlagsTypeOK
    BY DEF ImportsInit, TasksTypeOK, FlagsTypeOK
  <2>4. TasksKnow /\ RowsAgree /\ AppliedIsCommitted /\ DraftHasSession
    BY DEF ImportsInit, TasksKnow, RowsAgree, AppliedIsCommitted, DraftHasSession
  <2>5. QED
    BY <2>2, <2>3, <2>4 DEF ImportsInv, ImportsTypeOK
<1>2. QED
  BY <1>1, ImportsStep, PTL DEF ImportsSpec

---------------------------------------------------------------------------
\* The rows and the tasks of an import always have their types.
THEOREM ImportsTypeCorrect == ImportsSpec => []ImportsTypeOK
<1>1. ImportsInv => ImportsTypeOK
  BY DEF ImportsInv
<1>2. QED
  BY <1>1, ImportsInvariant, PTL

\* The viewing history is applied exactly when the import is committed.
THEOREM AppliedCorrect == ImportsSpec => []AppliedIsCommitted
<1>1. ImportsInv => AppliedIsCommitted
  BY DEF ImportsInv
<1>2. QED
  BY <1>1, ImportsInvariant, PTL

\* No connection waits for a draft that is gone.
THEOREM DraftCorrect == ImportsSpec => []DraftHasSession
<1>1. ImportsInv => DraftHasSession
  BY DEF ImportsInv
<1>2. QED
  BY <1>1, ImportsInvariant, PTL

\* No cancelled import, and no import of another account, is ever applied.
THEOREM CancelledCorrect == ImportsSpec => CancelledStaysOut
<1> DEFINE Stays == applied' # applied =>
              /\ status = "committing"
              /\ origin = "file" \/ conn = "own" \/ removing = "locking"
<1>1. ImportsInv /\ [ImportsNext]_importVars => [Stays]_importVars
  <2> SUFFICES ASSUME ImportsInv, ImportsNext, applied' # applied PROVE Stays
    BY DEF importVars
  <2>1. CommitEnds
    BY DEF ImportsNext, ImportsCalm, PrepareWorks, CommitWorks, UploadHistory, StageFirstSnapshot, StagingEnds, PrepareSession, PrepareEnds, PrepareFails, PrepareFailed, AcceptCommit, PollImport, CommitBegins, CommitChecks, CommitRaises, PullEnds, CommitAborts, CommitRejected, CommitReturns, CommitFails, CommitFailed, CancelImport, CancelLocked, RemovalSignals, RemovalBumps, RemovalLocked, ReplaceAccount, DraftExpires, CleanupExpired, RestartImports
  <2>2. QED
    BY <2>1 DEF CommitEnds, ImportsInv, TasksKnow
<1>2. QED
  BY <1>1, ImportsInvariant, PTL DEF ImportsSpec, CancelledStaysOut

---------------------------------------------------------------------------
(* One decision about an import, and somebody to carry it out.             *)

Outcome ==
    IF applied > 0 THEN "applied"
    ELSE IF status = "none" \/ payload THEN "open" ELSE "dropped"

\* What an import was decided to be is not decided again.
DecidedOnce ==
    [][Outcome # "open" =>
          Outcome' = Outcome /\ (Outcome = "applied" => status' = status)]_importVars

\* Whoever decides first, a commit, a cancel, the removal of the connection, another
\* account or the expiry, the decision stands: no late failure handler, poll, restart or
\* clean-up reopens a dropped draft, drops an applied one or rewrites its status
\* (_commit_session, cancel_netflix_import, cleanup_expired_netflix_imports).
THEOREM DecidedOnceCorrect == ImportsSpec => DecidedOnce
<1> DEFINE Decided == Outcome # "open" =>
                         Outcome' = Outcome /\ (Outcome = "applied" => status' = status)
<1>1. ASSUME ImportsInv, [ImportsNext]_importVars PROVE Decided
  <2> USE <1>1 DEF ImportsInv, ImportsTypeOK, RowsTypeOK, AppliedIsCommitted, Outcome
  <2>1. CASE UploadHistory \/ StageFirstSnapshot
    BY <2>1 DEF UploadHistory, StageFirstSnapshot
  <2>2. CASE PrepareWorks
    BY <2>2 DEF PrepareWorks, PrepareSession, PrepareEnds, PrepareFails, PrepareFailed,
       importRows, PrepareFinishes, TasksKnow, RowsAgree
  <2>3. CASE CommitWorks
    <3>1. CASE CommitEnds
      BY <3>1 DEF CommitEnds, TasksKnow, RowsAgree
    <3>2. CASE CommitAborts \/ CommitRejected \/ CommitFailed
      BY <3>2 DEF CommitAborts, CommitRejected, CommitFailed, TasksKnow, RowsAgree,
         RemoveAbandoned, Cancelled
    <3> QED
      BY <2>3, <3>1, <3>2 DEF CommitWorks, CommitBegins, CommitChecks, CommitRaises,
         PullEnds, CommitReturns, CommitFails, importRows
  <2>4. CASE AcceptCommit \/ PollImport
    BY <2>4 DEF AcceptCommit, PollImport, importRows, RowsAgree
  <2>5. CASE CancelImport
    BY <2>5 DEF CancelImport, importRows
  <2>9. CASE CancelLocked
    <3>1. /\ applied' = applied
          /\ payload' = payload \/ payload' = FALSE
          /\ status' = status \/ status' = "cancelled"
          /\ status = "committed" => status' = status
      BY <2>9 DEF CancelLocked, Cancelled, Drafted
    <3>2. status = "none" => status' = status /\ payload' = payload
      BY <2>9 DEF CancelLocked, Drafted, Available
    <3> QED
      BY <3>1, <3>2
  <2>6. CASE RemovalSignals \/ RemovalBumps \/ RemovalLocked \/ ReplaceAccount
    BY <2>6 DEF RemovalSignals, RemovalBumps, RemovalLocked, ReplaceAccount, importRows,
       importMemory, Cancelled, Drafted
  <2>7. CASE DraftExpires \/ CleanupExpired \/ RestartImports
    BY <2>7 DEF DraftExpires, CleanupExpired, RestartImports, Cancelled, Drafted
  <2>8. CASE StagingEnds \/ UNCHANGED importVars
    BY <2>8 DEF StagingEnds, importVars, importRows
  <2> QED
    BY <2>1, <2>2, <2>3, <2>4, <2>5, <2>6, <2>7, <2>8, <2>9 DEF ImportsNext, ImportsCalm
<1>2. ImportsInv /\ [ImportsNext]_importVars => [Decided]_importVars
  BY <1>1
<1> QED
  BY <1>2, ImportsInvariant, PTL DEF ImportsSpec, DecidedOnce

\* A draft is erased with the decision about it, and until then the draft of a connection
\* is the one its baseline names, on the account it was read from.
DraftKept ==
    /\ status = "cancelled" => ~payload
    /\ origin = "connection" /\ payload /\ status \in Drafted =>
          (conn = "own" /\ baseline = "draft") \/ signalled

LEMMA DraftKeptStep == ImportsInv /\ DraftKept /\ [ImportsNext]_importVars => DraftKept'
<1> SUFFICES ASSUME ImportsInv, DraftKept, [ImportsNext]_importVars PROVE DraftKept'
  OBVIOUS
<1> USE DEF ImportsInv, ImportsTypeOK, RowsTypeOK, FlagsTypeOK, DraftKept, Drafted
<1>1. CASE UploadHistory \/ StageFirstSnapshot \/ StagingEnds
  BY <1>1 DEF UploadHistory, StageFirstSnapshot, StagingEnds
<1>2. CASE PrepareWorks
  BY <1>2 DEF PrepareWorks, PrepareSession, PrepareEnds, PrepareFails, PrepareFailed,
     importRows, PrepareFinishes, TasksKnow
<1>3. CASE CommitWorks
  <2>1. CASE CommitEnds
    BY <2>1 DEF CommitEnds
  <2>2. CASE CommitAborts
    BY <2>2 DEF CommitAborts, RemoveAbandoned, Cancelled
  <2>3. CASE CommitRejected \/ CommitFailed
    BY <2>3 DEF CommitRejected, CommitFailed, TasksKnow
  <2> QED
    BY <1>3, <2>1, <2>2, <2>3 DEF CommitWorks, CommitBegins, CommitChecks, CommitRaises,
       PullEnds, CommitReturns, CommitFails, importRows
<1>4. CASE AcceptCommit \/ PollImport
  BY <1>4 DEF AcceptCommit, PollImport, importRows
<1>5. CASE CancelImport
  BY <1>5 DEF CancelImport, importRows
<1>9. CASE CancelLocked
  <2>1. \/ UNCHANGED <<origin, status, payload, conn, baseline, signalled>>
        \/ status' = "cancelled" /\ payload' = FALSE
    BY <1>9 DEF CancelLocked, Cancelled
  <2> QED
    BY <2>1
<1>6. CASE RemovalSignals \/ RemovalBumps \/ RemovalLocked \/ ReplaceAccount
  BY <1>6 DEF RemovalSignals, RemovalBumps, RemovalLocked, ReplaceAccount, importRows,
     importMemory, Cancelled
<1>7. CASE DraftExpires \/ CleanupExpired \/ RestartImports
  BY <1>7 DEF DraftExpires, CleanupExpired, RestartImports, RemoveAbandoned, Cancelled
<1>8. CASE UNCHANGED importVars
  BY <1>8 DEF importVars, importRows
<1> QED
  BY <1>1, <1>2, <1>3, <1>4, <1>5, <1>6, <1>7, <1>8, <1>9 DEF ImportsNext, ImportsCalm

\* Something is there to end a commit that was accepted.
CommitAttended ==
    status = "committing" => commit # "none" \/ overdue \/ Available \/ signalled

\* The safety half of CommitSettles: a commit the user asked for has a task, or the page
\* that polls the import may start one, or the clean-up takes it; no interleaving leaves
\* it to nobody, but for the signal of a removal that was refused
\* (_schedule_commit, get_netflix_import).
THEOREM CommitAttendedCorrect == ImportsSpec => []CommitAttended
<1>1. ImportsInit => DraftKept
  BY DEF ImportsInit, DraftKept
<1>2. ASSUME ImportsInv, DraftKept PROVE CommitAttended
  BY <1>2 DEF CommitAttended, Available, DraftKept, ImportsInv, RowsAgree, Drafted
<1> QED
  BY <1>1, <1>2, ImportsInvariant, DraftKeptStep, PTL DEF ImportsSpec

---------------------------------------------------------------------------
(* The hand-over of a committed import to a pull.                          *)

LEMMA RestType == Rest \in [Hands -> {"idle", "loaded", "admitted", "running", "over"}]
BY DEF Rest, Hands

LEMMA HandoffTypeStep ==
    ASSUME HandoffTypeOK, OneActive, [HandoffNext]_handoffVars PROVE HandoffTypeOK'
<1> USE RestType DEF HandoffTypeOK, handoffRows, HandRests, ReleaseHandoff, Outcomes
<1>1. ASSUME NEW a \in Hands, HandWorks(a) PROVE HandoffTypeOK'
  <2>1. CASE LoadSession(a)
    BY <2>1 DEF LoadSession
  <2>2. CASE PreviousHasPulled(a)
    BY <2>2, NoPullAssumption DEF PreviousHasPulled
  <2>3. CASE PreviousIsBusy(a)
    BY <2>3 DEF PreviousIsBusy
  <2>4. ASSUME NEW j \in Pulls, AdmitPull(a, j) PROVE HandoffTypeOK'
    BY <2>4 DEF AdmitPull
  <2>5. CASE AdmissionRefused(a)
    BY <2>5 DEF AdmissionRefused
  <2>6. CASE LinkPull(a)
    BY <2>6 DEF LinkPull
  <2>7. CASE PullReturns(a)
    BY <2>7 DEF PullReturns
  <2> QED
    BY <1>1, <2>1, <2>2, <2>3, <2>4, <2>5, <2>6, <2>7 DEF HandWorks
<1>2. ASSUME NEW a \in Hands, NothingToPull(a) PROVE HandoffTypeOK'
  BY <1>2 DEF NothingToPull
<1>3. ASSUME NEW a \in Hands, CycleReconciles(a) PROVE HandoffTypeOK'
  <2>1. mine[a] \in Pulls
    BY <1>3, NoPullAssumption DEF CycleReconciles, OneActive
  <2> QED
    BY <1>3, <2>1 DEF CycleReconciles
<1>4. ASSUME NEW a \in Hands, CycleFails(a) PROVE HandoffTypeOK'
  BY <1>4 DEF CycleFails
<1>5. ASSUME NEW j \in Pulls, DeliveryEnds(j) PROVE HandoffTypeOK'
  BY <1>5 DEF DeliveryEnds
<1>6. CASE RoutineStarts \/ RoutineEnds
  BY <1>6 DEF RoutineStarts, RoutineEnds
<1>7. CASE StopHandoff
  BY <1>7 DEF StopHandoff
<1>8. CASE UNCHANGED handoffVars
  BY <1>8 DEF handoffVars
<1> QED
  BY <1>1, <1>2, <1>3, <1>4, <1>5, <1>6, <1>7, <1>8 DEF HandoffNext, HandoffCalm, Setback

\* The cycles and the jobs of the hands.
LEMMA OneActiveStep ==
    ASSUME HandoffTypeOK, OneActive, [HandoffNext]_handoffVars PROVE OneActive'
<1> USE NoPullAssumption DEF HandoffTypeOK, OneActive, handoffRows, HandRests, Rest
<1>1. ASSUME NEW a \in Hands, HandWorks(a) PROVE OneActive'
  <2>1. CASE LoadSession(a)
    BY <2>1 DEF LoadSession
  <2>2. CASE PreviousHasPulled(a)
    BY <2>2 DEF PreviousHasPulled
  <2>3. CASE PreviousIsBusy(a)
    BY <2>3 DEF PreviousIsBusy
  <2>4. ASSUME NEW j \in Pulls, AdmitPull(a, j) PROVE OneActive'
    BY <2>4 DEF AdmitPull, AccountIdle
  <2>5. CASE AdmissionRefused(a)
    BY <2>5 DEF AdmissionRefused
  <2>6. CASE LinkPull(a)
    BY <2>6 DEF LinkPull
  <2>7. CASE PullReturns(a)
    BY <2>7 DEF PullReturns
  <2> QED
    BY <1>1, <2>1, <2>2, <2>3, <2>4, <2>5, <2>6, <2>7 DEF HandWorks
<1>2. ASSUME NEW a \in Hands, NothingToPull(a) PROVE OneActive'
  BY <1>2 DEF NothingToPull
<1>3. ASSUME NEW a \in Hands, CycleReconciles(a) PROVE OneActive'
  BY <1>3 DEF CycleReconciles
<1>4. ASSUME NEW a \in Hands, CycleFails(a) PROVE OneActive'
  BY <1>4 DEF CycleFails
<1>5. ASSUME NEW j \in Pulls, DeliveryEnds(j) PROVE OneActive'
  BY <1>5 DEF DeliveryEnds
<1>6. CASE RoutineStarts \/ RoutineEnds
  BY <1>6 DEF RoutineStarts, RoutineEnds
<1>7. CASE StopHandoff
  BY <1>7 DEF StopHandoff
<1>8. CASE UNCHANGED handoffVars
  BY <1>8 DEF handoffVars
<1> QED
  BY <1>1, <1>2, <1>3, <1>4, <1>5, <1>6, <1>7, <1>8 DEF HandoffNext, HandoffCalm, Setback

\* A delivery that has happened stays.
LEMMA DeliveredStays ==
    ASSUME HandoffTypeOK, OneActive, [HandoffNext]_handoffVars, Delivered PROVE Delivered'
<1> PICK j \in Pulls : cycle[j] = "stopped" \/ (j \in carried /\ cycle[j] = "done")
  BY DEF Delivered
<1> SUFFICES cycle'[j] = cycle[j] /\ carried \subseteq carried'
  BY DEF Delivered
<1> USE DEF HandoffTypeOK, handoffRows
<1>1. ASSUME NEW a \in Hands, HandWorks(a) PROVE cycle'[j] = cycle[j] /\ carried \subseteq carried'
  BY <1>1 DEF HandWorks, LoadSession, PreviousHasPulled, PreviousIsBusy, AdmitPull,
              AdmissionRefused, LinkPull, PullReturns
<1>2. ASSUME NEW a \in Hands, NothingToPull(a) \/ CycleReconciles(a) \/ CycleFails(a)
      PROVE cycle'[j] = cycle[j] /\ carried \subseteq carried'
  BY <1>2 DEF NothingToPull, CycleReconciles, CycleFails
<1>3. ASSUME NEW k \in Pulls, DeliveryEnds(k) PROVE cycle'[j] = cycle[j] /\ carried \subseteq carried'
  BY <1>3 DEF DeliveryEnds
<1>4. CASE RoutineStarts \/ RoutineEnds \/ StopHandoff
  BY <1>4 DEF RoutineStarts, RoutineEnds, StopHandoff
<1>5. CASE UNCHANGED handoffVars
  BY <1>5 DEF handoffVars
<1> QED
  BY <1>1, <1>2, <1>3, <1>4, <1>5 DEF HandoffNext, HandoffCalm, Setback

\* A job that has pulled has delivered the import, itself or before it.
LEMMA PulledIsDelivered ==
    ASSUME Carried, NEW j \in Pulls, HasPulled(j) PROVE Delivered
BY DEF Carried, HasPulled, Delivered

LEMMA CarriedStep ==
    ASSUME HandoffInv, [HandoffNext]_handoffVars, ~Delivered PROVE Carried' /\ HandedOverWasDelivered'
<1> USE NoPullAssumption
    DEF HandoffInv, HandoffTypeOK, OneActive, Carried, HandedOverWasDelivered, handoffRows,
        HandRests, Rest, ReleaseHandoff
<1>1. ASSUME NEW a \in Hands, HandWorks(a) PROVE Carried' /\ HandedOverWasDelivered'
  <2>1. CASE LoadSession(a)
    BY <2>1 DEF LoadSession, Delivered
  <2>2. CASE PreviousHasPulled(a)
    BY <2>2, PulledIsDelivered DEF PreviousHasPulled
  <2>3. CASE PreviousIsBusy(a)
    BY <2>3 DEF PreviousIsBusy, Delivered
  <2>4. ASSUME NEW j \in Pulls, AdmitPull(a, j) PROVE Carried' /\ HandedOverWasDelivered'
    BY <2>4 DEF AdmitPull, AccountIdle, Delivered
  <2>5. CASE AdmissionRefused(a)
    BY <2>5 DEF AdmissionRefused, Delivered
  <2>6. CASE LinkPull(a)
    BY <2>6 DEF LinkPull, Delivered
  <2>7. CASE PullReturns(a)
    <3>1. ~HasPulled(mine[a])
      BY <2>7, PulledIsDelivered DEF PullReturns
    <3> QED
      BY <2>7, <3>1 DEF PullReturns, Delivered
  <2> QED
    BY <1>1, <2>1, <2>2, <2>3, <2>4, <2>5, <2>6, <2>7 DEF HandWorks
<1>2. ASSUME NEW a \in Hands, NothingToPull(a) PROVE Carried' /\ HandedOverWasDelivered'
  BY <1>2 DEF NothingToPull, Delivered
<1>3. ASSUME NEW a \in Hands, CycleReconciles(a) PROVE Carried' /\ HandedOverWasDelivered'
  <2>1. mine[a] \in Pulls /\ mine[a] \in carried'
    BY <1>3 DEF CycleReconciles
  <2> QED
    BY <1>3, <2>1 DEF CycleReconciles, Delivered
<1>4. ASSUME NEW a \in Hands, CycleFails(a) PROVE Carried' /\ HandedOverWasDelivered'
  BY <1>4 DEF CycleFails, Delivered
<1>5. ASSUME NEW j \in Pulls, DeliveryEnds(j) PROVE Carried' /\ HandedOverWasDelivered'
  BY <1>5 DEF DeliveryEnds, Delivered
<1>6. CASE RoutineStarts \/ RoutineEnds
  BY <1>6 DEF RoutineStarts, RoutineEnds, Delivered
<1>7. CASE StopHandoff
  BY <1>7 DEF StopHandoff, Delivered
<1>8. CASE UNCHANGED handoffVars
  BY <1>8 DEF handoffVars, Delivered
<1> QED
  BY <1>1, <1>2, <1>3, <1>4, <1>5, <1>6, <1>7, <1>8 DEF HandoffNext, HandoffCalm, Setback

LEMMA HandoffInvariant == HandoffSpec => []HandoffInv
<1>1. HandoffInit => HandoffInv
  BY NoPullAssumption
  DEF HandoffInit, HandoffInv, HandoffTypeOK, OneActive, Carried, HandedOverWasDelivered, Hands
<1>2. HandoffInv /\ [HandoffNext]_handoffVars => HandoffInv'
  <2> SUFFICES ASSUME HandoffInv, [HandoffNext]_handoffVars PROVE HandoffInv'
    OBVIOUS
  <2>1. HandoffTypeOK' /\ OneActive'
    BY HandoffTypeStep, OneActiveStep DEF HandoffInv
  <2>2. CASE Delivered
    <3>1. Delivered'
      BY <2>2, DeliveredStays DEF HandoffInv
    <3> QED
      BY <2>1, <3>1 DEF HandoffInv, Carried, HandedOverWasDelivered
  <2>3. CASE ~Delivered
    BY <2>1, <2>3, CarriedStep DEF HandoffInv
  <2> QED
    BY <2>2, <2>3
<1> QED
  BY <1>1, <1>2, PTL DEF HandoffSpec

---------------------------------------------------------------------------
\* The rows of the handoff and the memory of its two coroutines have their types.
THEOREM HandoffTypeCorrect == HandoffSpec => []HandoffTypeOK
<1>1. HandoffInv => HandoffTypeOK
  BY DEF HandoffInv
<1> QED
  BY <1>1, HandoffInvariant, PTL

\* The connection joins routine sync only after its import was delivered.
THEOREM HandoffCorrect == HandoffSpec => []HandedOverWasDelivered
<1>1. HandoffInv => HandedOverWasDelivered
  BY DEF HandoffInv
<1> QED
  BY <1>1, HandoffInvariant, PTL

\* Whoever admitted the active cycle still follows it, and nothing else pulls beside it.
PullAttended ==
    \A j \in Pulls : cycle[j] = "active" =>
        ~routine /\ \E a \in Hands : hand[a] \in {"admitted", "running"} /\ mine[a] = j

\* No race of the task of the commit, the retry of the scheduler and a stop between the
\* admission and the link leaves an active job that no coroutine ends, which would keep
\* the account busy, or starts one beside a routine cycle (_run_import_handoff).
THEOREM PullAttendedCorrect == HandoffSpec => []PullAttended
<1>1. HandoffInit => PullAttended
  BY DEF HandoffInit, PullAttended
<1>2. ASSUME HandoffTypeOK, OneActive, PullAttended, [HandoffNext]_handoffVars
      PROVE  PullAttended'
  <2> USE <1>2 DEF HandoffTypeOK, PullAttended, handoffRows
  <2>1. ASSUME NEW a \in Hands, HandRests(a), hand[a] \notin {"admitted", "running"},
               UNCHANGED <<cycle, routine>>
        PROVE  PullAttended'
    BY <2>1 DEF HandRests
  <2>2. ASSUME NEW a \in Hands, HandWorks(a) PROVE PullAttended'
    <3>1. CASE LoadSession(a)
      BY <3>1 DEF LoadSession
    <3>2. CASE PreviousHasPulled(a) \/ PreviousIsBusy(a) \/ AdmissionRefused(a)
      BY <2>1, <3>2 DEF PreviousHasPulled, PreviousIsBusy, AdmissionRefused
    <3>3. ASSUME NEW j \in Pulls, AdmitPull(a, j) PROVE PullAttended'
      BY <3>3 DEF AdmitPull, AccountIdle
    <3>4. CASE LinkPull(a)
      BY <3>4 DEF LinkPull
    <3>5. CASE PullReturns(a)
      BY <3>5 DEF PullReturns, HandRests
    <3> QED
      BY <2>2, <3>1, <3>2, <3>3, <3>4, <3>5 DEF HandWorks
  <2>3. ASSUME NEW a \in Hands, NothingToPull(a) PROVE PullAttended'
    BY <2>1, <2>3 DEF NothingToPull
  <2>4. ASSUME NEW a \in Hands, CycleReconciles(a) \/ CycleFails(a) PROVE PullAttended'
    BY <2>4 DEF CycleReconciles, CycleFails
  <2>5. ASSUME NEW j \in Pulls, DeliveryEnds(j) PROVE PullAttended'
    BY <2>5 DEF DeliveryEnds
  <2>6. CASE RoutineStarts \/ RoutineEnds
    BY <2>6 DEF RoutineStarts, RoutineEnds, AccountIdle
  <2>7. CASE StopHandoff
    BY <2>7 DEF StopHandoff
  <2>8. CASE UNCHANGED handoffVars
    BY <2>8 DEF handoffVars
  <2> QED
    BY <2>2, <2>3, <2>4, <2>5, <2>6, <2>7, <2>8 DEF HandoffNext, HandoffCalm, Setback
<1> QED
  BY <1>1, <1>2, HandoffInvariant, PTL DEF HandoffSpec, HandoffInv
=============================================================================
