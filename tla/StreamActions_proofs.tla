----------------------- MODULE StreamActions_proofs -----------------------
(***************************************************************************)
(* Proofs about StreamActions, for any connections, services and ids.      *)
(*                                                                         *)
(* A crash puts the rows back to what was committed, while the providers   *)
(* keep what was written.  Each part of the invariant is therefore a       *)
(* predicate of rows, and holds of two sets of them: those in view of the  *)
(* dispatch and those it falls back to.                                    *)
(***************************************************************************)
EXTENDS StreamActions, TLAPS

\* The type invariant, one component of the rows at a time.
TypedRows(m, n, rs, q, d) ==
    /\ m = Unmarked \/ m \subseteq Targets
    /\ n \in Notices
    /\ rs \in [Resets -> ResetStates]
    /\ q \in [Streams -> SUBSET PlayRows]
    /\ d \in [Streams -> SUBSET Kinds]

TypedRest ==
    /\ entry \in {"none", "watching", "resting"}
    /\ pushing \subseteq Targets /\ ready \subseteq Targets
    /\ waived \subseteq Targets
    /\ remote \in [Resets -> {"clear", "old", "new"}]
    /\ shown \in [Streams -> {"theirs", "resume", "hidden", "unknown", "gone"}]
    /\ todo \subseteq Resets \cup (Streams \X Plays)

UndoTyped ==
    undo = <<>> \/ (undo = <<undo[1]>> /\ undo[1] \in RowViews)

LEMMA RowViewTyped ==
    ActionsTypeOK <=> /\ TypedRows(marker, notice, reset, queued, disputed)
                      /\ TypedRest /\ UndoTyped
BY DEF ActionsTypeOK, TypedRows, TypedRest, UndoTyped, RowView, RowViews

LEMMA UndoRows ==
    ASSUME UndoTyped, ~Idle
    PROVE  TypedRows(undo[1].marker, undo[1].notice, undo[1].reset, undo[1].queued, undo[1].disputed)
BY DEF UndoTyped, Idle, TypedRows, RowViews

LEMMA RequeuedType ==
    ASSUME NEW c \in Streams, NEW status, queued \in [Streams -> SUBSET PlayRows]
    PROVE  Requeued(status, c) \in SUBSET PlayRows
BY DEF Requeued, PlayRows, Plays

LEMMA TargetOf ==
    /\ Streams \subseteq Targets /\ Clouds \subseteq Targets
    /\ \A r \in Resets : r[1] \in Targets
BY DEF Resets, Targets

LEMMA TypedRowsStep ==
    ASSUME TypedRows(marker, notice, reset, queued, disputed), TypedRest, UndoTyped, [ActionsNext]_actionVars
    PROVE  TypedRows(marker, notice, reset, queued, disputed)'
<1>1. CASE DeleteTitle
  BY <1>1, TargetOf
  DEF DeleteTitle, TypedRows, TypedRest, actionRows, ResetStates, Plays,
      Kinds, Notices
<1>2. ASSUME NEW status \in {"watching", "resting"}, SaveEntry(status)
      PROVE  TypedRows(marker, notice, reset, queued, disputed)'
  BY <1>2, TargetOf, RequeuedType
  DEF SaveEntry, Requeued, TypedRows, TypedRest, actionRows, ResetStates,
      Plays, Kinds, Notices
<1>3. ASSUME NEW c \in Streams, NEW verdict \in {"confirm", "keep"}, ResolveDeletion(c, verdict)
      PROVE  TypedRows(marker, notice, reset, queued, disputed)'
  BY <1>3, TargetOf
  DEF ResolveDeletion, RetryDeletion, KeepHistory, Stuck, LetGo,
      TypedRows, TypedRest, actionRows, ResetStates, Plays, Kinds,
      Notices
<1>4. ASSUME NEW c \in Streams, NEW status \in {"watching", "resting"}, ResolvePlayback(c, status)
      PROVE  TypedRows(marker, notice, reset, queued, disputed)'
  BY <1>4, TargetOf, RequeuedType
  DEF ResolvePlayback, Requeued, TypedRows, TypedRest, actionRows,
      ResetStates, Plays, Kinds, Notices
<1>5. ASSUME NEW t \in Targets, SwitchOff(t)
      PROVE  TypedRows(marker, notice, reset, queued, disputed)'
  BY <1>5, TargetOf
  DEF SwitchOff, Cleanup, KindOf, LetGo, TypedRows, TypedRest,
      actionRows, ResetStates, Plays, Kinds, Notices
<1>6. ASSUME NEW c \in Streams, SwapAccount(c)
      PROVE  TypedRows(marker, notice, reset, queued, disputed)'
  BY <1>6, TargetOf
  DEF SwapAccount, Forget, TypedRows, TypedRest, actionRows, ResetStates,
      Plays, Kinds, Notices
<1>7. ASSUME NEW c \in Streams, RemoveConnection(c)
      PROVE  TypedRows(marker, notice, reset, queued, disputed)'
  BY <1>7, TargetOf
  DEF RemoveConnection, Forget, TypedRows, TypedRest, actionRows,
      ResetStates, Plays, Kinds, Notices
<1>8. ASSUME NEW c \in Streams, ImportSnapshot(c)
      PROVE  TypedRows(marker, notice, reset, queued, disputed)'
  BY <1>8, TargetOf
  DEF ImportSnapshot, TypedRows, TypedRest, actionRows, ResetStates,
      PlayRows, Plays, Kinds, Notices
<1>9. ASSUME NEW kind \in {Streams, Clouds}, DispatchStarts(kind)
      PROVE  TypedRows(marker, notice, reset, queued, disputed)'
  BY <1>9, TargetOf
  DEF DispatchStarts, Cleanup, LetGo, RowView, TypedRows, TypedRest,
      actionRows, ResetStates, Plays, Kinds, Notices
<1>10. ASSUME NEW r \in Resets, ResetSkipped(r)
      PROVE  TypedRows(marker, notice, reset, queued, disputed)'
  BY <1>10, TargetOf
  DEF ResetSkipped, Handled, TypedRows, TypedRest, actionRows,
      ResetStates, Plays, Kinds, Notices
<1>11. ASSUME NEW r \in Resets, ResetApplied(r)
      PROVE  TypedRows(marker, notice, reset, queued, disputed)'
  BY <1>11, TargetOf
  DEF ResetApplied, Handled, Wanted, Owing, TypedRows, TypedRest,
      actionRows, ResetStates, Plays, Kinds, Notices
<1>12. ASSUME NEW r \in Resets, ResetDisputed(r)
      PROVE  TypedRows(marker, notice, reset, queued, disputed)'
  BY <1>12, TargetOf
  DEF ResetDisputed, Handled, Wanted, TypedRows, TypedRest, actionRows,
      ResetStates, Plays, Kinds, Notices
<1>13. ASSUME NEW c \in Streams, NEW a \in Plays, PlaySkipped(c, a)
      PROVE  TypedRows(marker, notice, reset, queued, disputed)'
  BY <1>13, TargetOf
  DEF PlaySkipped, Handled, Fits, TypedRows, TypedRest, actionRows,
      ResetStates, Plays, Kinds, Notices
<1>14. ASSUME NEW c \in Streams, NEW a \in Plays, PlayApplied(c, a)
      PROVE  TypedRows(marker, notice, reset, queued, disputed)'
  BY <1>14, TargetOf
  DEF PlayApplied, Handled, Fits, Written, TypedRows, TypedRest,
      actionRows, ResetStates, Plays, Kinds, Notices
<1>15. ASSUME NEW c \in Streams, NEW a \in Plays, PlayConflicts(c, a)
      PROVE  TypedRows(marker, notice, reset, queued, disputed)'
  BY <1>15, TargetOf
  DEF PlayConflicts, Handled, Fits, TypedRows, TypedRest, actionRows,
      ResetStates, Plays, Kinds, Notices
<1>16. CASE DispatchDies
  BY <1>16, TargetOf, UndoRows
  DEF DispatchDies, TypedRows, TypedRest, actionRows, ResetStates, Plays,
      Kinds, Notices
<1>17. CASE \/ \E t \in Targets : SwitchOn(t)
            \/ \E t \in Targets : StopsWrites(t)
            \/ \E t \in Targets : AllowsWrites(t)
            \/ \E r \in Resets : WatchRemotely(r)
  BY <1>17
  DEF SwitchOn, StopsWrites, AllowsWrites, WatchRemotely, TypedRows,
      TypedRest, actionRows, ResetStates, Plays, Kinds, Notices
<1>18. CASE \/ \E r \in Resets : ResetFails(r)
            \/ \E c \in Streams : \E a \in Plays : PlayFails(c, a)
            \/ DispatchCommits
  BY <1>18
  DEF ResetFails, Handled, Wanted, PlayFails, Fits, Written,
      DispatchCommits, TypedRows, TypedRest, actionRows, ResetStates,
      Plays, Kinds, Notices
<1>19. CASE UNCHANGED actionVars
  BY <1>19 DEF actionVars, TypedRows, TypedRest, actionRows, ResetStates, Plays,
      Kinds, Notices
<1>20. ASSUME NEW c \in Streams, GuardWrites(c)
      PROVE  TypedRows(marker, notice, reset, queued, disputed)'
  BY <1>20, TargetOf, ActionsAssumption
  DEF GuardWrites, Frozen, TypedRows, TypedRest, ResetStates, PlayRows, Plays, Kinds, Notices
<1>21. ASSUME NEW c \in Streams, ClearEnds(c)
      PROVE  TypedRows(marker, notice, reset, queued, disputed)'
  BY <1>21, TargetOf, ActionsAssumption
  DEF ClearEnds, TypedRows, actionRows
<1>22. CASE Decides
  BY <1>1, <1>2, <1>4, <1>5, <1>6, <1>7, <1>17, <1>20, <1>21, <1>22 DEF Decides
<1>23. CASE DispatchGoesOn
  BY <1>10, <1>11, <1>12, <1>13, <1>14, <1>15, <1>18, <1>23 DEF DispatchGoesOn, ResetConflicts
<1>24. CASE DispatchFails
  BY <1>12, <1>16, <1>18, <1>24 DEF DispatchFails, ResetUnclear
<1> QED
  BY <1>3, <1>8, <1>9, <1>17, <1>19, <1>22, <1>23, <1>24 DEF ActionsNext, ActionsCalm, ActionsDisturbed, Answers

LEMMA TypedRestStep ==
    ASSUME TypedRows(marker, notice, reset, queued, disputed), TypedRest, [ActionsNext]_actionVars
    PROVE  TypedRest'
<1>1. CASE DeleteTitle
  BY <1>1, TargetOf
  DEF DeleteTitle, TypedRows, TypedRest, actionRows
<1>2. ASSUME NEW status \in {"watching", "resting"}, SaveEntry(status)
      PROVE  TypedRest'
  BY <1>2, TargetOf
  DEF SaveEntry, Requeued, TypedRows, TypedRest, actionRows
<1>3. ASSUME NEW c \in Streams, NEW verdict \in {"confirm", "keep"}, ResolveDeletion(c, verdict)
      PROVE  TypedRest'
  BY <1>3, TargetOf
  DEF ResolveDeletion, RetryDeletion, KeepHistory, Stuck, LetGo,
      TypedRows, TypedRest, actionRows
<1>4. ASSUME NEW c \in Streams, NEW status \in {"watching", "resting"}, ResolvePlayback(c, status)
      PROVE  TypedRest'
  BY <1>4, TargetOf
  DEF ResolvePlayback, Requeued, TypedRows, TypedRest, actionRows
<1>5. ASSUME NEW t \in Targets, SwitchOff(t)
      PROVE  TypedRest'
  BY <1>5, TargetOf
  DEF SwitchOff, Cleanup, KindOf, LetGo, TypedRows, TypedRest,
      actionRows
<1>6. ASSUME NEW t \in Targets, SwitchOn(t)
      PROVE  TypedRest'
  BY <1>6, TargetOf
  DEF SwitchOn, TypedRows, TypedRest, actionRows
<1>7. ASSUME NEW c \in Streams, SwapAccount(c)
      PROVE  TypedRest'
  BY <1>7, TargetOf
  DEF SwapAccount, Forget, TypedRows, TypedRest, actionRows
<1>8. ASSUME NEW c \in Streams, RemoveConnection(c)
      PROVE  TypedRest'
  BY <1>8, TargetOf
  DEF RemoveConnection, Forget, TypedRows, TypedRest, actionRows
<1>9. ASSUME NEW t \in Targets, StopsWrites(t)
      PROVE  TypedRest'
  BY <1>9, TargetOf
  DEF StopsWrites, TypedRows, TypedRest, actionRows
<1>10. ASSUME NEW t \in Targets, AllowsWrites(t)
      PROVE  TypedRest'
  BY <1>10, TargetOf
  DEF AllowsWrites, TypedRows, TypedRest, actionRows
<1>11. ASSUME NEW r \in Resets, WatchRemotely(r)
      PROVE  TypedRest'
  BY <1>11, TargetOf
  DEF WatchRemotely, TypedRows, TypedRest, actionRows
<1>12. ASSUME NEW c \in Streams, ImportSnapshot(c)
      PROVE  TypedRest'
  BY <1>12, TargetOf
  DEF ImportSnapshot, TypedRows, TypedRest, actionRows
<1>13. ASSUME NEW kind \in {Streams, Clouds}, DispatchStarts(kind)
      PROVE  TypedRest'
  BY <1>13, TargetOf
  DEF DispatchStarts, Cleanup, LetGo, RowView, TypedRows, TypedRest,
      actionRows
<1>14. ASSUME NEW r \in Resets, ResetApplied(r)
      PROVE  TypedRest'
  BY <1>14, TargetOf
  DEF ResetApplied, Handled, Wanted, Owing, TypedRows, TypedRest,
      actionRows
<1>15. ASSUME NEW r \in Resets, ResetFails(r)
      PROVE  TypedRest'
  BY <1>15, TargetOf
  DEF ResetFails, Handled, Wanted, TypedRows, TypedRest, actionRows
<1>16. ASSUME NEW c \in Streams, NEW a \in Plays, PlayApplied(c, a)
      PROVE  TypedRest'
  BY <1>16, TargetOf
  DEF PlayApplied, Handled, Fits, Written, TypedRows, TypedRest,
      actionRows
<1>17. ASSUME NEW c \in Streams, NEW a \in Plays, PlayFails(c, a)
      PROVE  TypedRest'
  BY <1>17, TargetOf
  DEF PlayFails, Handled, Fits, Written, TypedRows, TypedRest, actionRows
<1>18. CASE \/ \E r \in Resets : ResetSkipped(r)
            \/ \E r \in Resets : ResetDisputed(r)
            \/ \E c \in Streams : \E a \in Plays : PlaySkipped(c, a)
            \/ \E c \in Streams : \E a \in Plays : PlayConflicts(c, a)
  BY <1>18
  DEF ResetSkipped, Handled, ResetDisputed, Wanted, PlaySkipped, Fits,
      PlayConflicts, TypedRows, TypedRest, actionRows
<1>19. CASE \/ DispatchCommits
            \/ DispatchDies
  BY <1>19
  DEF DispatchCommits, DispatchDies, TypedRows, TypedRest, actionRows
<1>20. CASE UNCHANGED actionVars
  BY <1>20 DEF actionVars, TypedRows, TypedRest, actionRows
<1>21. ASSUME NEW c \in Streams, GuardWrites(c)
      PROVE  TypedRest'
  BY <1>21, TargetOf, ActionsAssumption
  DEF GuardWrites, Frozen, TypedRows, TypedRest, actionRows
<1>22. ASSUME NEW c \in Streams, ClearEnds(c)
      PROVE  TypedRest'
  BY <1>22, TargetOf, ActionsAssumption
  DEF ClearEnds, TypedRows, TypedRest, actionRows
<1>23. CASE Decides
  BY <1>1, <1>2, <1>4, <1>5, <1>6, <1>7, <1>8, <1>9, <1>21, <1>22, <1>23 DEF Decides
<1>24. CASE DispatchGoesOn
  BY <1>14, <1>16, <1>18, <1>19, <1>24 DEF DispatchGoesOn, ResetConflicts
<1>25. CASE DispatchFails
  BY <1>15, <1>17, <1>18, <1>19, <1>25 DEF DispatchFails, ResetUnclear
<1> QED
  BY <1>3, <1>10, <1>11, <1>12, <1>13, <1>20, <1>23, <1>24, <1>25 DEF ActionsNext, ActionsCalm, ActionsDisturbed, Answers

LEMMA UndoTypedStep ==
    ASSUME TypedRows(marker, notice, reset, queued, disputed), UndoTyped, [ActionsNext]_actionVars
    PROVE  UndoTyped'
<1>1. ASSUME NEW kind \in {Streams, Clouds}, DispatchStarts(kind)
      PROVE  UndoTyped'
  BY <1>1
  DEF DispatchStarts, Cleanup, LetGo, RowView, TypedRows, UndoTyped,
      RowViews, Idle, actionRows
<1>2. CASE DispatchCommits
  BY <1>2
  DEF DispatchCommits, TypedRows, UndoTyped, RowViews, Idle, actionRows
<1>3. CASE DispatchDies
  BY <1>3
  DEF DispatchDies, TypedRows, UndoTyped, RowViews, Idle, actionRows
<1>4. CASE \/ DeleteTitle
           \/ \E status \in {"watching", "resting"} : SaveEntry(status)
           \/ \E c \in Streams : \E verdict \in {"confirm", "keep"} : ResolveDeletion(c, verdict)
           \/ \E c \in Streams : \E status \in {"watching", "resting"} : ResolvePlayback(c, status)
  BY <1>4
  DEF DeleteTitle, SaveEntry, Requeued, ResolveDeletion, RetryDeletion,
      KeepHistory, Stuck, LetGo, ResolvePlayback, UndoTyped, RowViews,
      Idle, actionRows
<1>5. CASE \/ \E t \in Targets : SwitchOff(t)
           \/ \E t \in Targets : SwitchOn(t)
           \/ \E c \in Streams : SwapAccount(c)
           \/ \E c \in Streams : RemoveConnection(c)
  BY <1>5
  DEF SwitchOff, Cleanup, KindOf, LetGo, SwitchOn, SwapAccount, Forget,
      RemoveConnection, UndoTyped, RowViews, Idle, actionRows
<1>6. CASE \/ \E t \in Targets : StopsWrites(t)
           \/ \E t \in Targets : AllowsWrites(t)
           \/ \E r \in Resets : WatchRemotely(r)
           \/ \E c \in Streams : ImportSnapshot(c)
  BY <1>6
  DEF StopsWrites, AllowsWrites, WatchRemotely, ImportSnapshot,
      UndoTyped, RowViews, Idle, actionRows
<1>7. CASE \/ \E r \in Resets : ResetSkipped(r)
           \/ \E r \in Resets : ResetApplied(r)
           \/ \E r \in Resets : ResetDisputed(r)
           \/ \E r \in Resets : ResetFails(r)
  BY <1>7
  DEF ResetSkipped, Handled, ResetApplied, Wanted, Owing, ResetDisputed,
      ResetFails, UndoTyped, RowViews, Idle, actionRows
<1>8. CASE \/ \E c \in Streams : \E a \in Plays : PlaySkipped(c, a)
           \/ \E c \in Streams : \E a \in Plays : PlayApplied(c, a)
           \/ \E c \in Streams : \E a \in Plays : PlayConflicts(c, a)
           \/ \E c \in Streams : \E a \in Plays : PlayFails(c, a)
  BY <1>8
  DEF PlaySkipped, Handled, Fits, PlayApplied, Written, PlayConflicts,
      PlayFails, UndoTyped, RowViews, Idle, actionRows
<1>9. CASE UNCHANGED actionVars
  BY <1>9 DEF actionVars, TypedRows, UndoTyped, RowViews, Idle, actionRows
<1>10. ASSUME NEW c \in Streams, GuardWrites(c)
      PROVE  UndoTyped'
  BY <1>10, TargetOf, ActionsAssumption
  DEF GuardWrites, Frozen, UndoTyped, Idle, actionRows
<1>11. ASSUME NEW c \in Streams, ClearEnds(c)
      PROVE  UndoTyped'
  BY <1>11, TargetOf, ActionsAssumption
  DEF ClearEnds, UndoTyped, Idle, actionRows
<1>12. CASE Decides
  BY <1>4, <1>5, <1>6, <1>10, <1>11, <1>12 DEF Decides
<1>13. CASE DispatchGoesOn
  BY <1>2, <1>7, <1>8, <1>13 DEF DispatchGoesOn, ResetConflicts
<1>14. CASE DispatchFails
  BY <1>3, <1>7, <1>8, <1>14 DEF DispatchFails, ResetUnclear
<1> QED
  BY <1>1, <1>4, <1>6, <1>9, <1>12, <1>13, <1>14 DEF ActionsNext, ActionsCalm, ActionsDisturbed, Answers

---------------------------------------------------------------------------
\* NoticeMatchesMarker, of any rows.
NoticeFits(m, n) == (n = "pending") <=> (m \notin {Unmarked, {}})

\* MarkerServed, of any rows; no row of a target in the marker was cancelled,
\* so the rows that keep a target there can all still be delivered.
Owed(m, rs) ==
    m # Unmarked => \A t \in m :
        /\ \/ \E r \in RowsOf(t) : rs[r] \in {"pending", "conflict", "cleared"}
           \/ \A r \in RowsOf(t) : rs[r] = "none"
        /\ \A r \in RowsOf(t) : rs[r] # "cancelled"

\* AcknowledgedIsCleared, of any rows.  An applied row means a cleared id, and a
\* target the marker waits for without the user's say has a row for each id: so
\* the last applied row clears the whole target.
Covered(m, rs) ==
    m # Unmarked =>
        /\ entry = "none"
        /\ \A r \in Resets : r[1] \in m \cup waived \/ remote[r] # "old"
        /\ \A r \in Resets : r[1] \in m => r[1] \in waived \/ rs[r] # "none"
        /\ \A r \in Resets :
            rs[r] \in {"pending", "conflict"} => r[1] \in m \cup waived

Cleared(rs) == \A r \in Resets : rs[r] = "applied" => remote[r] # "old"

\* RestedIsDismissed, of any rows.
Dismissed(q, d) ==
    entry = "resting" => \A c \in Streams :
        shown[c] = "resume" =>
            "dismiss" \in q[c] \/ "play" \in d[c] \/ "frozen" \in q[c]

\* Only connections that push are resumed, now or by a dispatch that runs.
Pushed ==
    /\ \A c \in Streams : shown[c] = "resume" => c \in pushing
    /\ \A c \in Streams, a \in Plays : <<c, a>> \in todo => c \in pushing
    /\ \A r \in Resets : r \in todo => reset[r] = "pending"
    /\ Idle => todo = {}

RowsInv(m, n, rs, q, d) ==
    /\ NoticeFits(m, n) /\ Owed(m, rs) /\ Covered(m, rs) /\ Cleared(rs)
    /\ Dismissed(q, d)

ActionsInv ==
    /\ ActionsTypeOK /\ Pushed
    /\ RowsInv(marker, notice, reset, queued, disputed)
    /\ ~Idle => RowsInv(undo[1].marker, undo[1].notice, undo[1].reset, undo[1].queued,
                        undo[1].disputed)

LEMMA NoticeStep ==
    ASSUME TypedRows(marker, notice, reset, queued, disputed), TypedRest, NoticeFits(marker, notice),
           ~Idle => NoticeFits(undo[1].marker, undo[1].notice), [ActionsNext]_actionVars
    PROVE  NoticeFits(marker, notice)'
<1>1. CASE DeleteTitle
  BY <1>1, ActionsAssumption
  DEF DeleteTitle, NoticeFits, TypedRows, TypedRest, actionRows
<1>2. ASSUME NEW status \in {"watching", "resting"}, SaveEntry(status)
      PROVE  NoticeFits(marker, notice)'
  BY <1>2, ActionsAssumption
  DEF SaveEntry, Requeued, NoticeFits, TypedRows, TypedRest, actionRows
<1>3. ASSUME NEW c \in Streams, NEW verdict \in {"confirm", "keep"}, ResolveDeletion(c, verdict)
      PROVE  NoticeFits(marker, notice)'
  BY <1>3, ActionsAssumption
  DEF ResolveDeletion, RetryDeletion, KeepHistory, Stuck, LetGo,
      NoticeFits, TypedRows, TypedRest, actionRows
<1>4. ASSUME NEW t \in Targets, SwitchOff(t)
      PROVE  NoticeFits(marker, notice)'
  BY <1>4, ActionsAssumption
  DEF SwitchOff, Cleanup, KindOf, LetGo, NoticeFits, TypedRows,
      TypedRest, actionRows
<1>5. ASSUME NEW c \in Streams, ImportSnapshot(c)
      PROVE  NoticeFits(marker, notice)'
  BY <1>5, ActionsAssumption
  DEF ImportSnapshot, NoticeFits, TypedRows, TypedRest, actionRows
<1>6. ASSUME NEW kind \in {Streams, Clouds}, DispatchStarts(kind)
      PROVE  NoticeFits(marker, notice)'
  BY <1>6, ActionsAssumption
  DEF DispatchStarts, Cleanup, LetGo, RowView, NoticeFits, TypedRows,
      TypedRest, actionRows
<1>7. ASSUME NEW r \in Resets, ResetApplied(r)
      PROVE  NoticeFits(marker, notice)'
  BY <1>7, ActionsAssumption
  DEF ResetApplied, Handled, Wanted, Owing, NoticeFits, TypedRows,
      TypedRest, actionRows
<1>8. CASE DispatchDies
  BY <1>8, ActionsAssumption
  DEF DispatchDies, NoticeFits, TypedRows, TypedRest, actionRows
<1>9. CASE \/ \E c \in Streams : \E status \in {"watching", "resting"} : ResolvePlayback(c, status)
           \/ \E t \in Targets : SwitchOn(t)
           \/ \E c \in Streams : SwapAccount(c)
           \/ \E c \in Streams : RemoveConnection(c)
  BY <1>9
  DEF ResolvePlayback, Requeued, SwitchOn, SwapAccount, Forget,
      RemoveConnection, NoticeFits, actionRows
<1>10. CASE \/ \E t \in Targets : StopsWrites(t)
            \/ \E t \in Targets : AllowsWrites(t)
            \/ \E r \in Resets : WatchRemotely(r)
  BY <1>10
  DEF StopsWrites, AllowsWrites, WatchRemotely, NoticeFits, actionRows
<1>11. CASE \/ \E r \in Resets : ResetSkipped(r)
            \/ \E r \in Resets : ResetDisputed(r)
            \/ \E r \in Resets : ResetFails(r)
            \/ \E c \in Streams : \E a \in Plays : PlaySkipped(c, a)
  BY <1>11
  DEF ResetSkipped, Handled, ResetDisputed, Wanted, ResetFails,
      PlaySkipped, Fits, NoticeFits, actionRows
<1>12. CASE \/ \E c \in Streams : \E a \in Plays : PlayApplied(c, a)
            \/ \E c \in Streams : \E a \in Plays : PlayConflicts(c, a)
            \/ \E c \in Streams : \E a \in Plays : PlayFails(c, a)
            \/ DispatchCommits
  BY <1>12
  DEF PlayApplied, Handled, Fits, Written, PlayConflicts, PlayFails,
      DispatchCommits, NoticeFits, actionRows
<1>13. CASE UNCHANGED actionVars
  BY <1>13 DEF actionVars, NoticeFits, TypedRows, TypedRest, actionRows
<1>14. ASSUME NEW c \in Streams, GuardWrites(c)
      PROVE  NoticeFits(marker, notice)'
  BY <1>14, TargetOf, ActionsAssumption
  DEF GuardWrites, Frozen, NoticeFits, actionRows
<1>15. ASSUME NEW c \in Streams, ClearEnds(c)
      PROVE  NoticeFits(marker, notice)'
  BY <1>15, TargetOf, ActionsAssumption
  DEF ClearEnds, NoticeFits, actionRows
<1>16. CASE Decides
  BY <1>1, <1>2, <1>4, <1>9, <1>10, <1>14, <1>15, <1>16 DEF Decides
<1>17. CASE DispatchGoesOn
  BY <1>7, <1>11, <1>12, <1>17 DEF DispatchGoesOn, ResetConflicts
<1>18. CASE DispatchFails
  BY <1>8, <1>11, <1>12, <1>18 DEF DispatchFails, ResetUnclear
<1> QED
  BY <1>3, <1>5, <1>6, <1>10, <1>13, <1>16, <1>17, <1>18 DEF ActionsNext, ActionsCalm, ActionsDisturbed, Answers

LEMMA OwedStep ==
    ASSUME TypedRows(marker, notice, reset, queued, disputed), TypedRest, Owed(marker, reset), Covered(marker, reset),
           ~Idle => Owed(undo[1].marker, undo[1].reset), [ActionsNext]_actionVars
    PROVE  Owed(marker, reset)'
<1>1. CASE DeleteTitle
  BY <1>1, ActionsAssumption
  DEF DeleteTitle, Owed, TypedRows, TypedRest, actionRows, RowsOf
<1>2. ASSUME NEW status \in {"watching", "resting"}, SaveEntry(status)
      PROVE  Owed(marker, reset)'
  BY <1>2, ActionsAssumption
  DEF SaveEntry, Requeued, Owed, TypedRows, TypedRest, actionRows, RowsOf
<1>3. ASSUME NEW c \in Streams, NEW verdict \in {"confirm", "keep"}, ResolveDeletion(c, verdict)
      PROVE  Owed(marker, reset)'
  BY <1>3, ActionsAssumption
  DEF ResolveDeletion, RetryDeletion, KeepHistory, Stuck, LetGo, Owed,
      TypedRows, TypedRest, actionRows, RowsOf
<1>4. ASSUME NEW t \in Targets, SwitchOff(t)
      PROVE  Owed(marker, reset)'
  BY <1>4, ActionsAssumption
  DEF SwitchOff, Cleanup, KindOf, LetGo, Owed, TypedRows, TypedRest,
      actionRows, RowsOf
<1>5. ASSUME NEW c \in Streams, SwapAccount(c)
      PROVE  Owed(marker, reset)'
  BY <1>5, ActionsAssumption
  DEF SwapAccount, Forget, Owed, TypedRows, TypedRest, actionRows, RowsOf
<1>6. ASSUME NEW c \in Streams, RemoveConnection(c)
      PROVE  Owed(marker, reset)'
  BY <1>6, ActionsAssumption
  DEF RemoveConnection, Forget, Owed, TypedRows, TypedRest, actionRows,
      RowsOf
<1>7. ASSUME NEW c \in Streams, ImportSnapshot(c)
      PROVE  Owed(marker, reset)'
  BY <1>7, ActionsAssumption
  DEF ImportSnapshot, Owed, TypedRows, TypedRest, actionRows, RowsOf
<1>8. ASSUME NEW kind \in {Streams, Clouds}, DispatchStarts(kind)
      PROVE  Owed(marker, reset)'
  BY <1>8, ActionsAssumption
  DEF DispatchStarts, Cleanup, LetGo, RowView, Owed, TypedRows,
      TypedRest, actionRows, RowsOf
<1>9. ASSUME NEW r \in Resets, ResetSkipped(r)
      PROVE  Owed(marker, reset)'
  BY <1>9, ActionsAssumption
  DEF ResetSkipped, Handled, Covered, Owed, TypedRows, TypedRest,
      actionRows, RowsOf
<1>10. ASSUME NEW r \in Resets, ResetApplied(r)
      PROVE  Owed(marker, reset)'
  BY <1>10, ActionsAssumption
  DEF ResetApplied, Handled, Wanted, Owing, ResetStates, Owed, TypedRows,
      TypedRest, actionRows, RowsOf
<1>11. ASSUME NEW r \in Resets, ResetDisputed(r)
      PROVE  Owed(marker, reset)'
  BY <1>11, ActionsAssumption
  DEF ResetDisputed, Handled, Wanted, Owed, TypedRows, TypedRest,
      actionRows, RowsOf
<1>12. CASE DispatchDies
  BY <1>12, ActionsAssumption
  DEF DispatchDies, Owed, TypedRows, TypedRest, actionRows, RowsOf
<1>13. CASE \/ \E c \in Streams : \E status \in {"watching", "resting"} : ResolvePlayback(c, status)
            \/ \E t \in Targets : SwitchOn(t)
            \/ \E t \in Targets : StopsWrites(t)
            \/ \E t \in Targets : AllowsWrites(t)
  <2>1. UNCHANGED <<marker, reset>>
    BY <1>13
    DEF ResolvePlayback, Requeued, SwitchOn, StopsWrites, AllowsWrites,
        actionRows
  <2> QED
    BY <2>1 DEF Owed, RowsOf
<1>14. CASE \/ \E r \in Resets : WatchRemotely(r)
  <2>1. UNCHANGED <<marker, reset>>
    BY <1>14
    DEF WatchRemotely, actionRows
  <2> QED
    BY <2>1 DEF Owed, RowsOf
<1>15. CASE \/ \E r \in Resets : ResetFails(r)
            \/ \E c \in Streams : \E a \in Plays : PlaySkipped(c, a)
            \/ \E c \in Streams : \E a \in Plays : PlayApplied(c, a)
            \/ \E c \in Streams : \E a \in Plays : PlayConflicts(c, a)
  <2>1. UNCHANGED <<marker, reset>>
    BY <1>15
    DEF ResetFails, Handled, Wanted, PlaySkipped, Fits, PlayApplied,
        Written, PlayConflicts, actionRows
  <2> QED
    BY <2>1 DEF Owed, RowsOf
<1>16. CASE \/ \E c \in Streams : \E a \in Plays : PlayFails(c, a)
            \/ DispatchCommits
  <2>1. UNCHANGED <<marker, reset>>
    BY <1>16
    DEF PlayFails, Handled, Fits, Written, DispatchCommits, actionRows
  <2> QED
    BY <2>1 DEF Owed, RowsOf
<1>17. CASE UNCHANGED actionVars
  BY <1>17 DEF actionVars, Owed, TypedRows, TypedRest, actionRows, RowsOf
<1>18. ASSUME NEW c \in Streams, GuardWrites(c)
      PROVE  Owed(marker, reset)'
  BY <1>18, TargetOf, ActionsAssumption
  DEF GuardWrites, Frozen, Owed, TypedRows, TypedRest, actionRows, RowsOf
<1>19. ASSUME NEW c \in Streams, ClearEnds(c)
      PROVE  Owed(marker, reset)'
  BY <1>19, TargetOf, ActionsAssumption
  DEF ClearEnds, Owed, TypedRows, TypedRest, actionRows, RowsOf
<1>20. CASE Decides
  BY <1>1, <1>2, <1>4, <1>5, <1>6, <1>13, <1>18, <1>19, <1>20 DEF Decides
<1>21. CASE DispatchGoesOn
  BY <1>9, <1>10, <1>11, <1>15, <1>16, <1>21 DEF DispatchGoesOn, ResetConflicts
<1>22. CASE DispatchFails
  BY <1>11, <1>12, <1>15, <1>16, <1>22 DEF DispatchFails, ResetUnclear
<1> QED
  BY <1>3, <1>7, <1>8, <1>13, <1>14, <1>17, <1>20, <1>21, <1>22 DEF ActionsNext, ActionsCalm, ActionsDisturbed, Answers

LEMMA CoveredStep ==
    ASSUME TypedRows(marker, notice, reset, queued, disputed), TypedRest, Owed(marker, reset), Covered(marker, reset), Cleared(reset), Pushed,
           ~Idle => Covered(undo[1].marker, undo[1].reset), [ActionsNext]_actionVars
    PROVE  Covered(marker, reset)'
<1>1. CASE DeleteTitle
  BY <1>1, ActionsAssumption, TargetOf
  DEF DeleteTitle, Covered, TypedRows, TypedRest, actionRows, RowsOf
<1>2. ASSUME NEW status \in {"watching", "resting"}, SaveEntry(status)
      PROVE  Covered(marker, reset)'
  BY <1>2, ActionsAssumption, TargetOf
  DEF SaveEntry, Requeued, Covered, TypedRows, TypedRest, actionRows,
      RowsOf
<1>3. ASSUME NEW c \in Streams, NEW verdict \in {"confirm", "keep"}, ResolveDeletion(c, verdict)
      PROVE  Covered(marker, reset)'
  BY <1>3, ActionsAssumption, TargetOf
  DEF ResolveDeletion, RetryDeletion, KeepHistory, Stuck, LetGo,
      Covered, TypedRows, TypedRest, actionRows, RowsOf
<1>4. ASSUME NEW c \in Streams, NEW status \in {"watching", "resting"}, ResolvePlayback(c, status)
      PROVE  Covered(marker, reset)'
  BY <1>4, ActionsAssumption, TargetOf
  DEF ResolvePlayback, Requeued, Covered, TypedRows, TypedRest,
      actionRows, RowsOf
<1>5. ASSUME NEW t \in Targets, SwitchOff(t)
      PROVE  Covered(marker, reset)'
  BY <1>5, ActionsAssumption, TargetOf
  DEF SwitchOff, Cleanup, KindOf, LetGo, Covered, TypedRows, TypedRest,
      actionRows, RowsOf
<1>6. ASSUME NEW c \in Streams, SwapAccount(c)
      PROVE  Covered(marker, reset)'
  BY <1>6, ActionsAssumption, TargetOf
  DEF SwapAccount, Forget, Covered, TypedRows, TypedRest, actionRows,
      RowsOf
<1>7. ASSUME NEW c \in Streams, RemoveConnection(c)
      PROVE  Covered(marker, reset)'
  BY <1>7, ActionsAssumption, TargetOf
  DEF RemoveConnection, Forget, Covered, TypedRows, TypedRest,
      actionRows, RowsOf
<1>8. ASSUME NEW r \in Resets, WatchRemotely(r)
      PROVE  Covered(marker, reset)'
  BY <1>8, ActionsAssumption, TargetOf
  DEF WatchRemotely, Covered, TypedRows, TypedRest, actionRows, RowsOf
<1>9. ASSUME NEW c \in Streams, ImportSnapshot(c)
      PROVE  Covered(marker, reset)'
  BY <1>9, ActionsAssumption, TargetOf
  DEF ImportSnapshot, Covered, TypedRows, TypedRest, actionRows, RowsOf
<1>10. ASSUME NEW kind \in {Streams, Clouds}, DispatchStarts(kind)
      PROVE  Covered(marker, reset)'
  BY <1>10, ActionsAssumption, TargetOf
  DEF DispatchStarts, Cleanup, LetGo, RowView, Covered, TypedRows,
      TypedRest, actionRows, RowsOf
<1>11. ASSUME NEW r \in Resets, ResetSkipped(r)
      PROVE  Covered(marker, reset)'
  BY <1>11, ActionsAssumption, TargetOf
  DEF ResetSkipped, Handled, Covered, TypedRows, TypedRest, actionRows,
      RowsOf
<1>12. ASSUME NEW r \in Resets, ResetApplied(r)
      PROVE  Covered(marker, reset)'
  BY <1>12, ActionsAssumption, TargetOf
  DEF ResetApplied, Handled, Wanted, Owing, Cleared, Owed, ResetStates,
      Covered, TypedRows, TypedRest, actionRows, RowsOf
<1>13. ASSUME NEW r \in Resets, ResetDisputed(r)
      PROVE  Covered(marker, reset)'
  BY <1>13, ActionsAssumption, TargetOf
  DEF ResetDisputed, Handled, Wanted, Pushed, Covered, TypedRows,
      TypedRest, actionRows, RowsOf
<1>14. ASSUME NEW r \in Resets, ResetFails(r)
      PROVE  Covered(marker, reset)'
  BY <1>14, ActionsAssumption, TargetOf
  DEF ResetFails, Handled, Wanted, Covered, TypedRows, TypedRest,
      actionRows, RowsOf
<1>15. CASE DispatchDies
  BY <1>15, ActionsAssumption, TargetOf
  DEF DispatchDies, Covered, TypedRows, TypedRest, actionRows, RowsOf
<1>16. CASE \/ \E t \in Targets : SwitchOn(t)
            \/ \E t \in Targets : StopsWrites(t)
            \/ \E t \in Targets : AllowsWrites(t)
  BY <1>16
  DEF SwitchOn, StopsWrites, AllowsWrites, Covered, actionRows, RowsOf
<1>17. CASE \/ \E c \in Streams : \E a \in Plays : PlaySkipped(c, a)
            \/ \E c \in Streams : \E a \in Plays : PlayApplied(c, a)
            \/ \E c \in Streams : \E a \in Plays : PlayConflicts(c, a)
            \/ \E c \in Streams : \E a \in Plays : PlayFails(c, a)
  BY <1>17
  DEF PlaySkipped, Handled, Fits, PlayApplied, Written, PlayConflicts,
      PlayFails, Covered, actionRows, RowsOf
<1>18. CASE \/ DispatchCommits
  BY <1>18
  DEF DispatchCommits, Covered, actionRows, RowsOf
<1>19. CASE UNCHANGED actionVars
  BY <1>19 DEF actionVars, Covered, TypedRows, TypedRest, actionRows, RowsOf
<1>20. ASSUME NEW c \in Streams, GuardWrites(c)
      PROVE  Covered(marker, reset)'
  BY <1>20, TargetOf, ActionsAssumption
  DEF GuardWrites, Frozen, Covered, TypedRows, TypedRest, actionRows, RowsOf
<1>21. ASSUME NEW c \in Streams, ClearEnds(c)
      PROVE  Covered(marker, reset)'
  BY <1>21, TargetOf, ActionsAssumption
  DEF ClearEnds, Covered, TypedRows, TypedRest, actionRows, RowsOf
<1>22. CASE Decides
  BY <1>1, <1>2, <1>4, <1>5, <1>6, <1>7, <1>16, <1>20, <1>21, <1>22 DEF Decides
<1>23. CASE DispatchGoesOn
  BY <1>11, <1>12, <1>13, <1>17, <1>18, <1>23 DEF DispatchGoesOn, ResetConflicts
<1>24. CASE DispatchFails
  BY <1>13, <1>14, <1>15, <1>17, <1>24 DEF DispatchFails, ResetUnclear
<1> QED
  BY <1>3, <1>8, <1>9, <1>10, <1>16, <1>19, <1>22, <1>23, <1>24 DEF ActionsNext, ActionsCalm, ActionsDisturbed, Answers

LEMMA ClearedStep ==
    ASSUME TypedRows(marker, notice, reset, queued, disputed), TypedRest, Cleared(reset),
           ~Idle => Cleared(undo[1].reset), [ActionsNext]_actionVars
    PROVE  Cleared(reset)'
<1>1. CASE DeleteTitle
  BY <1>1
  DEF DeleteTitle, Cleared, TypedRows, TypedRest, actionRows, RowsOf
<1>2. ASSUME NEW c \in Streams, NEW verdict \in {"confirm", "keep"}, ResolveDeletion(c, verdict)
      PROVE  Cleared(reset)'
  BY <1>2
  DEF ResolveDeletion, RetryDeletion, KeepHistory, Stuck, LetGo,
      Cleared, TypedRows, TypedRest, actionRows, RowsOf
<1>3. ASSUME NEW t \in Targets, SwitchOff(t)
      PROVE  Cleared(reset)'
  BY <1>3
  DEF SwitchOff, Cleanup, KindOf, LetGo, Cleared, TypedRows, TypedRest,
      actionRows, RowsOf
<1>4. ASSUME NEW c \in Streams, SwapAccount(c)
      PROVE  Cleared(reset)'
  BY <1>4
  DEF SwapAccount, Forget, Cleared, TypedRows, TypedRest, actionRows,
      RowsOf
<1>5. ASSUME NEW c \in Streams, RemoveConnection(c)
      PROVE  Cleared(reset)'
  BY <1>5
  DEF RemoveConnection, Forget, Cleared, TypedRows, TypedRest,
      actionRows, RowsOf
<1>6. ASSUME NEW r \in Resets, WatchRemotely(r)
      PROVE  Cleared(reset)'
  BY <1>6
  DEF WatchRemotely, Cleared, TypedRows, TypedRest, actionRows, RowsOf
<1>7. ASSUME NEW kind \in {Streams, Clouds}, DispatchStarts(kind)
      PROVE  Cleared(reset)'
  BY <1>7
  DEF DispatchStarts, Cleanup, LetGo, RowView, Cleared, TypedRows,
      TypedRest, actionRows, RowsOf
<1>8. ASSUME NEW r \in Resets, ResetSkipped(r)
      PROVE  Cleared(reset)'
  BY <1>8
  DEF ResetSkipped, Handled, Cleared, TypedRows, TypedRest, actionRows,
      RowsOf
<1>9. ASSUME NEW r \in Resets, ResetApplied(r)
      PROVE  Cleared(reset)'
  BY <1>9
  DEF ResetApplied, Handled, Wanted, Owing, Cleared, TypedRows,
      TypedRest, actionRows, RowsOf
<1>10. ASSUME NEW r \in Resets, ResetDisputed(r)
      PROVE  Cleared(reset)'
  BY <1>10
  DEF ResetDisputed, Handled, Wanted, Cleared, TypedRows, TypedRest,
      actionRows, RowsOf
<1>11. ASSUME NEW r \in Resets, ResetFails(r)
      PROVE  Cleared(reset)'
  BY <1>11
  DEF ResetFails, Handled, Wanted, Cleared, TypedRows, TypedRest,
      actionRows, RowsOf
<1>12. CASE DispatchDies
  BY <1>12
  DEF DispatchDies, Cleared, TypedRows, TypedRest, actionRows, RowsOf
<1>13. CASE \/ \E status \in {"watching", "resting"} : SaveEntry(status)
            \/ \E c \in Streams : \E status \in {"watching", "resting"} : ResolvePlayback(c, status)
            \/ \E t \in Targets : SwitchOn(t)
            \/ \E t \in Targets : StopsWrites(t)
  BY <1>13
  DEF SaveEntry, Requeued, ResolvePlayback, SwitchOn, StopsWrites,
      Cleared, actionRows, RowsOf
<1>14. CASE \/ \E t \in Targets : AllowsWrites(t)
            \/ \E c \in Streams : ImportSnapshot(c)
  BY <1>14
  DEF AllowsWrites, ImportSnapshot, Cleared, actionRows, RowsOf
<1>15. CASE \/ \E c \in Streams : \E a \in Plays : PlaySkipped(c, a)
            \/ \E c \in Streams : \E a \in Plays : PlayApplied(c, a)
            \/ \E c \in Streams : \E a \in Plays : PlayConflicts(c, a)
            \/ \E c \in Streams : \E a \in Plays : PlayFails(c, a)
  BY <1>15
  DEF PlaySkipped, Handled, Fits, PlayApplied, Written, PlayConflicts,
      PlayFails, Cleared, actionRows, RowsOf
<1>16. CASE \/ DispatchCommits
  BY <1>16
  DEF DispatchCommits, Cleared, actionRows, RowsOf
<1>17. CASE UNCHANGED actionVars
  BY <1>17 DEF actionVars, Cleared, TypedRows, TypedRest, actionRows, RowsOf
<1>18. ASSUME NEW c \in Streams, GuardWrites(c)
      PROVE  Cleared(reset)'
  BY <1>18, TargetOf, ActionsAssumption
  DEF GuardWrites, Frozen, Cleared, TypedRows, TypedRest, actionRows, RowsOf
<1>19. ASSUME NEW c \in Streams, ClearEnds(c)
      PROVE  Cleared(reset)'
  BY <1>19, TargetOf, ActionsAssumption
  DEF ClearEnds, Cleared, TypedRows, TypedRest, actionRows, RowsOf
<1>20. CASE Decides
  BY <1>1, <1>3, <1>4, <1>5, <1>13, <1>18, <1>19, <1>20 DEF Decides
<1>21. CASE DispatchGoesOn
  BY <1>8, <1>9, <1>10, <1>15, <1>16, <1>21 DEF DispatchGoesOn, ResetConflicts
<1>22. CASE DispatchFails
  BY <1>10, <1>11, <1>12, <1>15, <1>22 DEF DispatchFails, ResetUnclear
<1> QED
  BY <1>2, <1>6, <1>7, <1>14, <1>17, <1>20, <1>21, <1>22 DEF ActionsNext, ActionsCalm, ActionsDisturbed, Answers

LEMMA DismissedStep ==
    ASSUME TypedRows(marker, notice, reset, queued, disputed), TypedRest, Covered(marker, reset), Dismissed(queued, disputed),
           Pushed, ~Idle => Dismissed(undo[1].queued, undo[1].disputed), [ActionsNext]_actionVars
    PROVE  Dismissed(queued, disputed)'
<1>1. CASE DeleteTitle
  BY <1>1, TargetOf
  DEF DeleteTitle, Dismissed, TypedRows, TypedRest, actionRows, Plays,
      Kinds
<1>2. ASSUME NEW status \in {"watching", "resting"}, SaveEntry(status)
      PROVE  Dismissed(queued, disputed)'
  BY <1>2, TargetOf
  DEF SaveEntry, Requeued, Pushed, Dismissed, TypedRows, TypedRest,
      actionRows, Plays, Kinds
<1>3. ASSUME NEW c \in Streams, NEW verdict \in {"confirm", "keep"}, ResolveDeletion(c, verdict)
      PROVE  Dismissed(queued, disputed)'
  BY <1>3, TargetOf
  DEF ResolveDeletion, RetryDeletion, KeepHistory, Stuck, LetGo,
      Dismissed, TypedRows, TypedRest, actionRows, Plays, Kinds
<1>4. ASSUME NEW c \in Streams, NEW status \in {"watching", "resting"}, ResolvePlayback(c, status)
      PROVE  Dismissed(queued, disputed)'
  BY <1>4, TargetOf
  DEF ResolvePlayback, Requeued, Pushed, Dismissed, TypedRows, TypedRest,
      actionRows, Plays, Kinds
<1>5. ASSUME NEW t \in Targets, SwitchOff(t)
      PROVE  Dismissed(queued, disputed)'
  BY <1>5, TargetOf
  DEF SwitchOff, Cleanup, KindOf, LetGo, Pushed, Dismissed, TypedRows,
      TypedRest, actionRows, Plays, Kinds
<1>6. ASSUME NEW t \in Targets, SwitchOn(t)
      PROVE  Dismissed(queued, disputed)'
  BY <1>6, TargetOf
  DEF SwitchOn, Dismissed, TypedRows, TypedRest, actionRows, Plays, Kinds
<1>7. ASSUME NEW c \in Streams, SwapAccount(c)
      PROVE  Dismissed(queued, disputed)'
  BY <1>7, TargetOf
  DEF SwapAccount, Forget, Pushed, Dismissed, TypedRows, TypedRest,
      actionRows, Plays, Kinds
<1>8. ASSUME NEW c \in Streams, RemoveConnection(c)
      PROVE  Dismissed(queued, disputed)'
  BY <1>8, TargetOf
  DEF RemoveConnection, Forget, Pushed, Dismissed, TypedRows, TypedRest,
      actionRows, Plays, Kinds
<1>9. ASSUME NEW r \in Resets, WatchRemotely(r)
      PROVE  Dismissed(queued, disputed)'
  BY <1>9, TargetOf
  DEF WatchRemotely, Dismissed, TypedRows, TypedRest, actionRows, Plays,
      Kinds
<1>10. ASSUME NEW c \in Streams, ImportSnapshot(c)
      PROVE  Dismissed(queued, disputed)'
  BY <1>10, TargetOf
  DEF ImportSnapshot, TypedRest, Dismissed, TypedRows, TypedRest,
      actionRows, Plays, Kinds
<1>11. ASSUME NEW kind \in {Streams, Clouds}, DispatchStarts(kind)
      PROVE  Dismissed(queued, disputed)'
  BY <1>11, TargetOf
  DEF DispatchStarts, Cleanup, LetGo, RowView, Pushed, Dismissed,
      TypedRows, TypedRest, actionRows, Plays, Kinds
<1>12. ASSUME NEW r \in Resets, ResetDisputed(r)
      PROVE  Dismissed(queued, disputed)'
  BY <1>12, TargetOf
  DEF ResetDisputed, Handled, Wanted, Dismissed, TypedRows, TypedRest,
      actionRows, Plays, Kinds
<1>13. ASSUME NEW c \in Streams, NEW a \in Plays, PlaySkipped(c, a)
      PROVE  Dismissed(queued, disputed)'
  BY <1>13, TargetOf
  DEF PlaySkipped, Handled, Fits, Covered, Dismissed, TypedRows,
      TypedRest, actionRows, Plays, Kinds
<1>14. ASSUME NEW c \in Streams, NEW a \in Plays, PlayApplied(c, a)
      PROVE  Dismissed(queued, disputed)'
  BY <1>14, TargetOf
  DEF PlayApplied, Handled, Fits, Written, Dismissed, TypedRows,
      TypedRest, actionRows, Plays, Kinds
<1>15. ASSUME NEW c \in Streams, NEW a \in Plays, PlayConflicts(c, a)
      PROVE  Dismissed(queued, disputed)'
  BY <1>15, TargetOf
  DEF PlayConflicts, Handled, Fits, Dismissed, TypedRows, TypedRest,
      actionRows, Plays, Kinds
<1>16. ASSUME NEW c \in Streams, NEW a \in Plays, PlayFails(c, a)
      PROVE  Dismissed(queued, disputed)'
  BY <1>16, TargetOf
  DEF PlayFails, Handled, Fits, Written, Dismissed, TypedRows, TypedRest,
      actionRows, Plays, Kinds
<1>17. CASE DispatchDies
  BY <1>17, TargetOf
  DEF DispatchDies, Dismissed, TypedRows, TypedRest, actionRows, Plays,
      Kinds
<1>18. CASE \/ \E t \in Targets : StopsWrites(t)
            \/ \E t \in Targets : AllowsWrites(t)
  BY <1>18
  DEF StopsWrites, AllowsWrites, Dismissed, actionRows, Plays, Kinds
<1>19. CASE \/ \E r \in Resets : ResetSkipped(r)
            \/ \E r \in Resets : ResetApplied(r)
            \/ \E r \in Resets : ResetFails(r)
            \/ DispatchCommits
  BY <1>19
  DEF ResetSkipped, Handled, ResetApplied, Wanted, Owing, ResetFails,
      DispatchCommits, Dismissed, actionRows, Plays, Kinds
<1>20. CASE UNCHANGED actionVars
  BY <1>20 DEF actionVars, Dismissed, TypedRows, TypedRest, actionRows, Plays,
      Kinds
<1>21. ASSUME NEW c \in Streams, GuardWrites(c)
      PROVE  Dismissed(queued, disputed)'
  BY <1>21, TargetOf, ActionsAssumption
  DEF GuardWrites, Frozen, Dismissed, TypedRows, TypedRest, actionRows, PlayRows, Plays, Kinds
<1>22. ASSUME NEW c \in Streams, ClearEnds(c)
      PROVE  Dismissed(queued, disputed)'
  BY <1>22, TargetOf, ActionsAssumption
  DEF ClearEnds, Dismissed, TypedRows, TypedRest, actionRows, PlayRows, Plays, Kinds
<1>23. CASE Decides
  BY <1>1, <1>2, <1>4, <1>5, <1>6, <1>7, <1>8, <1>18, <1>21, <1>22, <1>23 DEF Decides
<1>24. CASE DispatchGoesOn
  BY <1>12, <1>13, <1>14, <1>15, <1>19, <1>24 DEF DispatchGoesOn, ResetConflicts
<1>25. CASE DispatchFails
  BY <1>12, <1>16, <1>17, <1>19, <1>25 DEF DispatchFails, ResetUnclear
<1> QED
  BY <1>3, <1>9, <1>10, <1>11, <1>18, <1>20, <1>23, <1>24, <1>25 DEF ActionsNext, ActionsCalm, ActionsDisturbed, Answers

LEMMA PushedStep ==
    ASSUME TypedRows(marker, notice, reset, queued, disputed), TypedRest, Pushed, [ActionsNext]_actionVars
    PROVE  Pushed'
<1>1. CASE DeleteTitle
  BY <1>1, TargetOf, ActionsAssumption
  DEF DeleteTitle, Pushed, Idle, TypedRows, TypedRest, actionRows, Plays
<1>2. ASSUME NEW c \in Streams, NEW verdict \in {"confirm", "keep"}, ResolveDeletion(c, verdict)
      PROVE  Pushed'
  BY <1>2, TargetOf, ActionsAssumption
  DEF ResolveDeletion, RetryDeletion, KeepHistory, Stuck, LetGo,
      Pushed, Idle, TypedRows, TypedRest, actionRows, Plays
<1>3. ASSUME NEW t \in Targets, SwitchOff(t)
      PROVE  Pushed'
  BY <1>3, TargetOf, ActionsAssumption
  DEF SwitchOff, Cleanup, KindOf, LetGo, Pushed, Idle, TypedRows,
      TypedRest, actionRows, Plays
<1>4. ASSUME NEW t \in Targets, SwitchOn(t)
      PROVE  Pushed'
  BY <1>4, TargetOf, ActionsAssumption
  DEF SwitchOn, Pushed, Idle, TypedRows, TypedRest, actionRows, Plays
<1>5. ASSUME NEW c \in Streams, SwapAccount(c)
      PROVE  Pushed'
  BY <1>5, TargetOf, ActionsAssumption
  DEF SwapAccount, Forget, Pushed, Idle, TypedRows, TypedRest,
      actionRows, Plays
<1>6. ASSUME NEW c \in Streams, RemoveConnection(c)
      PROVE  Pushed'
  BY <1>6, TargetOf, ActionsAssumption
  DEF RemoveConnection, Forget, Pushed, Idle, TypedRows, TypedRest,
      actionRows, Plays
<1>7. ASSUME NEW r \in Resets, WatchRemotely(r)
      PROVE  Pushed'
  BY <1>7, TargetOf, ActionsAssumption
  DEF WatchRemotely, Pushed, Idle, TypedRows, TypedRest, actionRows,
      Plays
<1>8. ASSUME NEW c \in Streams, ImportSnapshot(c)
      PROVE  Pushed'
  BY <1>8, TargetOf, ActionsAssumption
  DEF ImportSnapshot, Pushed, Idle, TypedRows, TypedRest, actionRows,
      Plays
<1>9. ASSUME NEW kind \in {Streams, Clouds}, DispatchStarts(kind)
      PROVE  Pushed'
  <2>1. \A c \in Streams, a \in Plays : <<c, a>> \notin Resets
    BY ActionsAssumption DEF Resets, Plays
  <2>2. \A c \in Streams : c \notin pushing /\ c \in kind => queued'[c] = {}
    BY <1>9 DEF DispatchStarts, Cleanup
  <2>3. \A c \in Streams, a \in Plays : <<c, a>> \in todo' => c \in pushing'
    <3> SUFFICES ASSUME NEW c \in Streams, NEW a \in Plays, <<c, a>> \in todo'
                 PROVE  c \in pushing'
      OBVIOUS
    <3>1. c \in kind /\ a \in queued'[c]
      BY <1>9, <2>1 DEF DispatchStarts
    <3> QED
      BY <1>9, <2>2, <3>1 DEF DispatchStarts
  <2>4. \A r \in Resets : r \in todo' => reset'[r] = "pending"
    BY <1>9, <2>1 DEF DispatchStarts
  <2>5. ~Idle'
    BY <1>9 DEF DispatchStarts, Idle
  <2> QED
    BY <1>9, <2>3, <2>4, <2>5 DEF DispatchStarts, Pushed
<1>10. ASSUME NEW r \in Resets, ResetSkipped(r)
      PROVE  Pushed'
  BY <1>10, TargetOf, ActionsAssumption
  DEF ResetSkipped, Handled, Pushed, Idle, TypedRows, TypedRest,
      actionRows, Plays
<1>11. ASSUME NEW r \in Resets, ResetApplied(r)
      PROVE  Pushed'
  BY <1>11, TargetOf, ActionsAssumption
  DEF ResetApplied, Handled, Wanted, Owing, Pushed, Idle, TypedRows,
      TypedRest, actionRows, Plays
<1>12. ASSUME NEW r \in Resets, ResetDisputed(r)
      PROVE  Pushed'
  BY <1>12, TargetOf, ActionsAssumption
  DEF ResetDisputed, Handled, Wanted, Pushed, Idle, TypedRows,
      TypedRest, actionRows, Plays
<1>13. ASSUME NEW r \in Resets, ResetFails(r)
      PROVE  Pushed'
  BY <1>13, TargetOf, ActionsAssumption
  DEF ResetFails, Handled, Wanted, Pushed, Idle, TypedRows, TypedRest,
      actionRows, Plays
<1>14. ASSUME NEW c \in Streams, NEW a \in Plays, PlaySkipped(c, a)
      PROVE  Pushed'
  BY <1>14, TargetOf, ActionsAssumption
  DEF PlaySkipped, Handled, Fits, Pushed, Idle, TypedRows, TypedRest,
      actionRows, Plays
<1>15. ASSUME NEW c \in Streams, NEW a \in Plays, PlayApplied(c, a)
      PROVE  Pushed'
  BY <1>15, TargetOf, ActionsAssumption
  DEF PlayApplied, Handled, Fits, Written, Pushed, Idle, TypedRows,
      TypedRest, actionRows, Plays
<1>16. ASSUME NEW c \in Streams, NEW a \in Plays, PlayConflicts(c, a)
      PROVE  Pushed'
  BY <1>16, TargetOf, ActionsAssumption
  DEF PlayConflicts, Handled, Fits, Pushed, Idle, TypedRows, TypedRest,
      actionRows, Plays
<1>17. ASSUME NEW c \in Streams, NEW a \in Plays, PlayFails(c, a)
      PROVE  Pushed'
  BY <1>17, TargetOf, ActionsAssumption
  DEF PlayFails, Handled, Fits, Written, Pushed, Idle, TypedRows,
      TypedRest, actionRows, Plays
<1>18. CASE DispatchCommits
  BY <1>18, TargetOf, ActionsAssumption
  DEF DispatchCommits, Pushed, Idle, TypedRows, TypedRest, actionRows,
      Plays
<1>19. CASE DispatchDies
  BY <1>19, TargetOf, ActionsAssumption
  DEF DispatchDies, Pushed, Idle, TypedRows, TypedRest, actionRows, Plays
<1>20. CASE \/ \E status \in {"watching", "resting"} : SaveEntry(status)
            \/ \E c \in Streams : \E status \in {"watching", "resting"} : ResolvePlayback(c, status)
            \/ \E t \in Targets : StopsWrites(t)
            \/ \E t \in Targets : AllowsWrites(t)
  BY <1>20
  DEF SaveEntry, Requeued, ResolvePlayback, StopsWrites, AllowsWrites,
      Pushed, Idle, actionRows, Plays
<1>21. CASE UNCHANGED actionVars
  BY <1>21 DEF actionVars, Pushed, Idle, TypedRows, TypedRest, actionRows, Plays
<1>22. ASSUME NEW c \in Streams, GuardWrites(c)
      PROVE  Pushed'
  BY <1>22, TargetOf, ActionsAssumption
  DEF GuardWrites, Frozen, Pushed, Idle, TypedRows, TypedRest, actionRows
<1>23. ASSUME NEW c \in Streams, ClearEnds(c)
      PROVE  Pushed'
  BY <1>23, TargetOf, ActionsAssumption
  DEF ClearEnds, Pushed, Idle, TypedRows, TypedRest, actionRows
<1>24. CASE Decides
  BY <1>1, <1>3, <1>4, <1>5, <1>6, <1>20, <1>22, <1>23, <1>24 DEF Decides
<1>25. CASE DispatchGoesOn
  BY <1>10, <1>11, <1>12, <1>14, <1>15, <1>16, <1>18, <1>25 DEF DispatchGoesOn, ResetConflicts
<1>26. CASE DispatchFails
  BY <1>12, <1>13, <1>17, <1>19, <1>26 DEF DispatchFails, ResetUnclear
<1> QED
  BY <1>2, <1>7, <1>8, <1>9, <1>20, <1>21, <1>24, <1>25, <1>26 DEF ActionsNext, ActionsCalm, ActionsDisturbed, Answers

\* What a dispatch falls back to was committed, and stays as good as it was: a
\* dispatch resumes nothing that rests and only clears what the services hold.
LEMMA UndoStep ==
    ASSUME TypedRows(marker, notice, reset, queued, disputed), TypedRest, Pushed, RowsInv(marker, notice, reset, queued, disputed),
           ~Idle => RowsInv(undo[1].marker, undo[1].notice, undo[1].reset, undo[1].queued, undo[1].disputed), [ActionsNext]_actionVars
    PROVE  (~Idle => RowsInv(undo[1].marker, undo[1].notice, undo[1].reset, undo[1].queued, undo[1].disputed))'
<1> DEFINE Goal == (~Idle => RowsInv(undo[1].marker, undo[1].notice, undo[1].reset, undo[1].queued, undo[1].disputed))'
<1>1. ASSUME NEW r \in Resets, ResetApplied(r) PROVE Goal
  <2>1. \A q \in Resets : remote'[q] = "old" => remote[q] = "old"
    BY <1>1 DEF ResetApplied, Handled, Wanted, Owing, TypedRest, Plays
  <2>2. UNCHANGED <<undo, entry, waived, shown>>
    BY <1>1 DEF ResetApplied, Handled, Wanted, Owing, actionRows
  <2> QED
    BY <2>1, <2>2 DEF Idle, RowsInv, Covered, Cleared, Dismissed
<1>2. ASSUME NEW r \in Resets, ResetFails(r) PROVE Goal
  <2>1. \A q \in Resets : remote'[q] = "old" => remote[q] = "old"
    BY <1>2 DEF ResetFails, Handled, Wanted, TypedRest, Plays
  <2>2. UNCHANGED <<undo, entry, waived, shown>>
    BY <1>2 DEF ResetFails, Handled, Wanted, actionRows
  <2> QED
    BY <2>1, <2>2 DEF Idle, RowsInv, Covered, Cleared, Dismissed
<1>3. ASSUME NEW c \in Streams, NEW a \in Plays, PlayApplied(c, a) PROVE Goal
  <2>1. entry = "resting" => \A d \in Streams : shown'[d] = "resume" => shown[d] = "resume"
    BY <1>3 DEF PlayApplied, Handled, Fits, Written, TypedRest, Plays
  <2>2. UNCHANGED <<undo, entry, waived, remote>>
    BY <1>3 DEF PlayApplied, Handled, Fits, Written, actionRows
  <2> QED
    BY <2>1, <2>2 DEF Idle, RowsInv, Covered, Cleared, Dismissed
<1>4. ASSUME NEW c \in Streams, NEW a \in Plays, PlayFails(c, a) PROVE Goal
  <2>1. entry = "resting" => \A d \in Streams : shown'[d] = "resume" => shown[d] = "resume"
    BY <1>4 DEF PlayFails, Handled, Fits, Written, TypedRest, Plays
  <2>2. UNCHANGED <<undo, entry, waived, remote>>
    BY <1>4 DEF PlayFails, Handled, Fits, Written, actionRows
  <2> QED
    BY <2>1, <2>2 DEF Idle, RowsInv, Covered, Cleared, Dismissed
<1>5. ASSUME NEW r \in Resets, WatchRemotely(r) PROVE Goal
  <2>1. /\ \A q \in Resets : remote'[q] = "old" => remote[q] = "old"
        /\ \A d \in Streams : shown'[d] = "resume" => shown[d] = "resume"
    BY <1>5 DEF WatchRemotely, TypedRest, Plays
  <2>2. UNCHANGED <<undo, entry, waived>>
    BY <1>5 DEF WatchRemotely, actionRows
  <2> QED
    BY <2>1, <2>2 DEF Idle, RowsInv, Covered, Cleared, Dismissed
<1>6. ASSUME NEW kind \in {Streams, Clouds}, DispatchStarts(kind) PROVE Goal
  <2>1. undo' = <<RowView>> /\ entry' = entry /\ shown' = shown
        /\ remote' = remote /\ waived \subseteq waived'
    BY <1>6 DEF DispatchStarts, Cleanup
  <2>2. undo'[1].marker = marker /\ undo'[1].notice = notice
        /\ undo'[1].reset = reset /\ undo'[1].queued = queued
        /\ undo'[1].disputed = disputed
    BY <2>1 DEF RowView
  <2>3. /\ NoticeFits(marker, notice) /\ Owed(marker, reset) /\ Cleared(reset)
        /\ Covered(marker, reset) /\ Dismissed(queued, disputed)
    BY DEF RowsInv
  <2>4. NoticeFits(undo[1].marker, undo[1].notice)'
    BY <2>2, <2>3 DEF NoticeFits
  <2>5. Owed(undo[1].marker, undo[1].reset)'
    BY <2>2, <2>3 DEF Owed, RowsOf
  <2>6. Covered(undo[1].marker, undo[1].reset)'
    BY <2>1, <2>2, <2>3 DEF Covered
  <2>7. Cleared(undo[1].reset)'
    BY <2>1, <2>2, <2>3 DEF Cleared
  <2>8. Dismissed(undo[1].queued, undo[1].disputed)'
    BY <2>1, <2>2, <2>3 DEF Dismissed
  <2> QED
    BY <2>4, <2>5, <2>6, <2>7, <2>8 DEF RowsInv
<1>7. ASSUME \/ DeleteTitle
             \/ \E status \in {"watching", "resting"} : SaveEntry(status)
             \/ \E c \in Streams : \E verdict \in {"confirm", "keep"} : ResolveDeletion(c, verdict)
             \/ \E c \in Streams : \E status \in {"watching", "resting"} : ResolvePlayback(c, status)
             \/ \E t \in Targets : SwitchOff(t)
             \/ \E t \in Targets : SwitchOn(t)
             \/ \E c \in Streams : SwapAccount(c)
             \/ \E c \in Streams : RemoveConnection(c)
             \/ \E c \in Streams : GuardWrites(c) \/ ClearEnds(c)
             \/ \E t \in Targets : StopsWrites(t)
             \/ \E t \in Targets : AllowsWrites(t)
             \/ \E c \in Streams : ImportSnapshot(c)
             \/ DispatchCommits
             \/ DispatchDies
      PROVE  Goal
  <2>1. Idle'
    BY <1>7 DEF DeleteTitle, SaveEntry, Requeued, ResolveDeletion, RetryDeletion,
        KeepHistory, Stuck, LetGo, ResolvePlayback, SwitchOff, Cleanup,
        KindOf, SwitchOn, SwapAccount, Forget, RemoveConnection, GuardWrites,
        ClearEnds, StopsWrites, AllowsWrites, ImportSnapshot, DispatchCommits,
        DispatchDies, Idle
  <2> QED
    BY <2>1
<1>8. ASSUME \/ \E r \in Resets : ResetSkipped(r)
             \/ \E r \in Resets : ResetDisputed(r)
             \/ \E c \in Streams : \E a \in Plays : PlaySkipped(c, a)
             \/ \E c \in Streams : \E a \in Plays : PlayConflicts(c, a)
             \/ UNCHANGED actionVars
      PROVE  Goal
  <2>1. UNCHANGED <<undo, entry, waived, remote, shown>>
    BY <1>8 DEF ResetSkipped, Handled, ResetDisputed, Wanted, PlaySkipped, Fits,
        PlayConflicts, actionVars
  <2> QED
    BY <2>1 DEF Idle, RowsInv, NoticeFits, Owed, Covered, Cleared, Dismissed, RowsOf
<1> HIDE DEF Goal
<1>9. ASSUME Decides PROVE Goal
  BY <1>7, <1>9 DEF Decides
<1>10. ASSUME DispatchGoesOn PROVE Goal
  BY <1>1, <1>3, <1>7, <1>8, <1>10 DEF DispatchGoesOn, ResetConflicts
<1>11. ASSUME DispatchFails PROVE Goal
  BY <1>2, <1>4, <1>7, <1>8, <1>11 DEF DispatchFails, ResetUnclear
<1>12. Goal
  BY <1>5, <1>6, <1>7, <1>8, <1>9, <1>10, <1>11 DEF ActionsNext, ActionsCalm, ActionsDisturbed, Answers
<1> QED
  BY <1>12 DEF Goal

LEMMA ActionsInitInv == ASSUME ActionsInit PROVE ActionsInv
<1>1. /\ ActionsTypeOK /\ Pushed /\ Idle
  BY TargetOf DEF ActionsInit, ActionsTypeOK, RowView, RowViews, Pushed, Idle, Targets,
     Notices, ResetStates, Plays, Kinds
<1>2. RowsInv(marker, notice, reset, queued, disputed)
  BY DEF ActionsInit, RowsInv, NoticeFits, Owed, Covered, Cleared, Dismissed
<1> QED
  BY <1>1, <1>2 DEF ActionsInv

LEMMA ActionsStep == ASSUME ActionsInv, [ActionsNext]_actionVars PROVE ActionsInv'
<1>1. /\ TypedRows(marker, notice, reset, queued, disputed)
      /\ TypedRest /\ UndoTyped /\ Pushed
      /\ RowsInv(marker, notice, reset, queued, disputed)
      /\ ~Idle => RowsInv(undo[1].marker, undo[1].notice, undo[1].reset, undo[1].queued, undo[1].disputed)
  BY RowViewTyped DEF ActionsInv
<1>2. /\ NoticeFits(marker, notice) /\ Owed(marker, reset) /\ Covered(marker, reset)
      /\ Cleared(reset) /\ Dismissed(queued, disputed)
      /\ ~Idle => /\ NoticeFits(undo[1].marker, undo[1].notice)
                  /\ Owed(undo[1].marker, undo[1].reset)
                  /\ Covered(undo[1].marker, undo[1].reset)
                  /\ Cleared(undo[1].reset)
                  /\ Dismissed(undo[1].queued, undo[1].disputed)
  BY <1>1 DEF RowsInv
<1>3. (TypedRows(marker, notice, reset, queued, disputed) /\ TypedRest /\ UndoTyped)'
  BY <1>1, TypedRowsStep, TypedRestStep, UndoTypedStep
<1>4. ActionsTypeOK'
  BY <1>3 DEF ActionsTypeOK, TypedRows, TypedRest, UndoTyped, RowView, RowViews
<1>5. Pushed'
  BY <1>1, PushedStep
<1>6. RowsInv(marker, notice, reset, queued, disputed)'
  BY <1>1, <1>2, NoticeStep, OwedStep, CoveredStep, ClearedStep, DismissedStep DEF RowsInv
<1>7. (~Idle => RowsInv(undo[1].marker, undo[1].notice, undo[1].reset, undo[1].queued, undo[1].disputed))'
  BY <1>1, UndoStep
<1> QED
  BY <1>4, <1>5, <1>6, <1>7 DEF ActionsInv

LEMMA ActionsInvariant == ActionsSpec => []ActionsInv
BY ActionsInitInv, ActionsStep, PTL DEF ActionsSpec

\* Types, for any connections, services and ids.
THEOREM ActionsTypeCorrect == ActionsSpec => []ActionsTypeOK
<1>1. ActionsInv => ActionsTypeOK
  BY DEF ActionsInv
<1> QED
  BY <1>1, ActionsInvariant, PTL

\* A marker waits only for resets that can still be delivered, for what a
\* clear froze, or for a connection that was forgotten.
THEOREM MarkerCorrect == ActionsSpec => []MarkerServed
<1>1. ActionsInv => MarkerServed
  BY DEF ActionsInv, RowsInv, Owed, MarkerServed, Live
<1> QED
  BY <1>1, ActionsInvariant, PTL

\* A target leaves the marker by itself only when all its ids are cleared.
THEOREM AcknowledgedCorrect == ActionsSpec => []AcknowledgedIsCleared
<1>1. ActionsInv => AcknowledgedIsCleared
  BY DEF ActionsInv, RowsInv, Covered, AcknowledgedIsCleared
<1> QED
  BY <1>1, ActionsInvariant, PTL

\* The review of a deletion is open exactly while its marker waits.
THEOREM NoticeCorrect == ActionsSpec => []NoticeMatchesMarker
<1>1. ActionsInv => NoticeMatchesMarker
  BY DEF ActionsInv, RowsInv, NoticeFits, NoticeMatchesMarker
<1> QED
  BY <1>1, ActionsInvariant, PTL

\* A title that was put away is dismissed wherever we resumed it, unless a
\* clear took the dismissal back.
THEOREM RestedCorrect == ActionsSpec => []RestedIsDismissed
<1>1. ActionsInv => RestedIsDismissed
  BY DEF ActionsInv, RowsInv, Dismissed, RestedIsDismissed
<1> QED
  BY <1>1, ActionsInvariant, PTL

---------------------------------------------------------------------------
(* What a deletion waits for, whoever interferes: somebody is left who can *)
(* make it go on.                                                          *)

\* A conflict keeps its review, and nothing waits at a target that does not
\* push.  Of any rows.
Attended(rs, q, d) ==
    /\ \A r \in Resets : rs[r] = "conflict" => r[1] \in Streams /\ "reset" \in d[r[1]]
    /\ \A r \in Resets : rs[r] \in {"pending", "conflict"} => r[1] \in pushing
    /\ \A c \in Streams : q[c] # {} => c \in pushing

PushersThere == \A c \in Streams \cap pushing : shown[c] # "gone"

LEMMA AttendedStep ==
    ASSUME TypedRows(marker, notice, reset, queued, disputed), TypedRest,
           Attended(reset, queued, disputed), Pushed,
           ~Idle => Attended(undo[1].reset, undo[1].queued, undo[1].disputed),
           [ActionsNext]_actionVars
    PROVE  Attended(reset, queued, disputed)'
<1>1. CASE DeleteTitle
  BY <1>1, TargetOf, ActionsAssumption
  DEF DeleteTitle, Attended, TypedRows, TypedRest, actionRows, ResetStates, Plays, Kinds
<1>2. ASSUME NEW status \in {"watching", "resting"}, SaveEntry(status)
      PROVE  Attended(reset, queued, disputed)'
  BY <1>2, TargetOf, ActionsAssumption
  DEF SaveEntry, Requeued, Attended, TypedRows, TypedRest, actionRows, ResetStates, Plays, Kinds
<1>3. ASSUME NEW c \in Streams, NEW verdict \in {"confirm", "keep"}, ResolveDeletion(c, verdict)
      PROVE  Attended(reset, queued, disputed)'
  BY <1>3, TargetOf, ActionsAssumption
  DEF ResolveDeletion, RetryDeletion, KeepHistory, Stuck, RowsOf, Attended, TypedRows, TypedRest, actionRows, ResetStates, Plays, Kinds
<1>4. ASSUME NEW c \in Streams, NEW status \in {"watching", "resting"}, ResolvePlayback(c, status)
      PROVE  Attended(reset, queued, disputed)'
  BY <1>4, TargetOf, ActionsAssumption
  DEF ResolvePlayback, Requeued, Attended, TypedRows, TypedRest, actionRows, ResetStates, Plays, Kinds
<1>5. ASSUME NEW t \in Targets, SwitchOff(t)
      PROVE  Attended(reset, queued, disputed)'
  BY <1>5, TargetOf, ActionsAssumption
  DEF SwitchOff, Cleanup, KindOf, Targets, Attended, TypedRows, TypedRest, actionRows, ResetStates, Plays, Kinds
<1>6. ASSUME NEW t \in Targets, SwitchOn(t)
      PROVE  Attended(reset, queued, disputed)'
  BY <1>6, TargetOf, ActionsAssumption
  DEF SwitchOn, Attended, TypedRows, TypedRest, actionRows, ResetStates, Plays, Kinds
<1>7. ASSUME NEW c \in Streams, SwapAccount(c)
      PROVE  Attended(reset, queued, disputed)'
  BY <1>7, TargetOf, ActionsAssumption
  DEF SwapAccount, Forget, Attended, TypedRows, TypedRest, actionRows, ResetStates, Plays, Kinds
<1>8. ASSUME NEW c \in Streams, RemoveConnection(c)
      PROVE  Attended(reset, queued, disputed)'
  BY <1>8, TargetOf, ActionsAssumption
  DEF RemoveConnection, Forget, Attended, TypedRows, TypedRest, actionRows, ResetStates, Plays, Kinds
<1>9. ASSUME NEW c \in Streams, ImportSnapshot(c)
      PROVE  Attended(reset, queued, disputed)'
  BY <1>9, TargetOf, ActionsAssumption
  DEF ImportSnapshot, Attended, TypedRows, TypedRest, actionRows, ResetStates, Plays, Kinds
<1>10. ASSUME NEW kind \in {Streams, Clouds}, DispatchStarts(kind)
      PROVE  Attended(reset, queued, disputed)'
  BY <1>10, TargetOf, ActionsAssumption
  DEF DispatchStarts, Cleanup, Attended, TypedRows, TypedRest, actionRows, ResetStates, Plays, Kinds
<1>11. ASSUME NEW r \in Resets, ResetSkipped(r)
      PROVE  Attended(reset, queued, disputed)'
  BY <1>11, TargetOf, ActionsAssumption
  DEF ResetSkipped, Handled, Attended, TypedRows, TypedRest, actionRows, ResetStates, Plays, Kinds
<1>12. ASSUME NEW r \in Resets, ResetApplied(r)
      PROVE  Attended(reset, queued, disputed)'
  BY <1>12, TargetOf, ActionsAssumption
  DEF ResetApplied, Wanted, Handled, Attended, TypedRows, TypedRest, actionRows, ResetStates, Plays, Kinds
<1>13. ASSUME NEW r \in Resets, ResetDisputed(r)
      PROVE  Attended(reset, queued, disputed)'
  <2>1. /\ reset' = [reset EXCEPT ![r] = "conflict"]
        /\ disputed' = [disputed EXCEPT ![r[1]] = @ \cup {"reset"}]
        /\ r[1] \in Streams /\ queued' = queued /\ pushing' = pushing
    BY <1>13 DEF ResetDisputed
  <2>2. /\ reset[r] = "pending"
        /\ reset \in [Resets -> ResetStates] /\ disputed \in [Streams -> SUBSET Kinds]
    BY <1>13 DEF TypedRows, Pushed, ResetDisputed, Wanted, Handled
  <2>3. /\ \A x \in Resets : reset'[x] = IF x = r THEN "conflict" ELSE reset[x]
        /\ "reset" \in disputed'[r[1]]
        /\ \A c \in Streams : disputed[c] \subseteq disputed'[c]
    BY <2>1, <2>2
  <2> QED
    BY <2>1, <2>2, <2>3 DEF Attended
<1>14. ASSUME NEW c \in Streams, NEW a \in Plays, PlaySkipped(c, a)
      PROVE  Attended(reset, queued, disputed)'
  BY <1>14, TargetOf, ActionsAssumption
  DEF PlaySkipped, Handled, Attended, TypedRows, TypedRest, actionRows, ResetStates, Plays, Kinds
<1>15. ASSUME NEW c \in Streams, NEW a \in Plays, PlayApplied(c, a)
      PROVE  Attended(reset, queued, disputed)'
  BY <1>15, TargetOf, ActionsAssumption
  DEF PlayApplied, Handled, Attended, TypedRows, TypedRest, actionRows, ResetStates, Plays, Kinds
<1>16. ASSUME NEW c \in Streams, NEW a \in Plays, PlayConflicts(c, a)
      PROVE  Attended(reset, queued, disputed)'
  BY <1>16, TargetOf, ActionsAssumption
  DEF PlayConflicts, Handled, Attended, TypedRows, TypedRest, actionRows, ResetStates, Plays, Kinds
<1>17. CASE DispatchDies
  BY <1>17, TargetOf, ActionsAssumption
  DEF DispatchDies, Attended, TypedRows, TypedRest, actionRows, ResetStates, Plays, Kinds
<1>18. CASE \/ \E t \in Targets : StopsWrites(t) \/ AllowsWrites(t)
            \/ \E r \in Resets : ResetFails(r) \/ WatchRemotely(r)
            \/ \E c \in Streams, a \in Plays : PlayFails(c, a)
            \/ DispatchCommits
            \/ UNCHANGED actionVars
  BY <1>18
  DEF StopsWrites, AllowsWrites, ResetFails, WatchRemotely, Wanted, Handled, PlayFails,
      DispatchCommits, Attended, actionRows, actionVars
<1>19. ASSUME NEW c \in Streams, GuardWrites(c)
      PROVE  Attended(reset, queued, disputed)'
  BY <1>19, TargetOf, ActionsAssumption
  DEF GuardWrites, Frozen, Attended, TypedRows, TypedRest, actionRows, ResetStates, PlayRows, Plays, Kinds
<1>20. ASSUME NEW c \in Streams, ClearEnds(c)
      PROVE  Attended(reset, queued, disputed)'
  BY <1>20, TargetOf, ActionsAssumption
  DEF ClearEnds, Attended, TypedRows, TypedRest, actionRows, ResetStates, PlayRows, Plays, Kinds
<1>21. CASE Decides
  BY <1>1, <1>2, <1>4, <1>5, <1>6, <1>7, <1>8, <1>18, <1>19, <1>20, <1>21 DEF Decides
<1>22. CASE DispatchGoesOn
  BY <1>11, <1>12, <1>13, <1>14, <1>15, <1>16, <1>18, <1>22 DEF DispatchGoesOn, ResetConflicts
<1>23. CASE DispatchFails
  BY <1>13, <1>17, <1>18, <1>23 DEF DispatchFails, ResetUnclear
<1> QED
  BY <1>3, <1>9, <1>10, <1>18, <1>21, <1>22, <1>23
  DEF ActionsNext, ActionsCalm, ActionsDisturbed, Answers

LEMMA AttendedUndoStep ==
    ASSUME Attended(reset, queued, disputed),
           ~Idle => Attended(undo[1].reset, undo[1].queued, undo[1].disputed),
           [ActionsNext]_actionVars
    PROVE  (~Idle => Attended(undo[1].reset, undo[1].queued, undo[1].disputed))'
<1> DEFINE Goal == (~Idle => Attended(undo[1].reset, undo[1].queued, undo[1].disputed))'
<1>1. ASSUME NEW kind \in {Streams, Clouds}, DispatchStarts(kind) PROVE Goal
  <2>1. /\ undo'[1].reset = reset /\ undo'[1].queued = queued
        /\ undo'[1].disputed = disputed /\ pushing' = pushing
    BY <1>1 DEF DispatchStarts, RowView
  <2> QED
    BY <2>1 DEF Attended
<1>2. ASSUME \/ Decides
             \/ \E c \in Streams : Answers(c) \/ ImportSnapshot(c)
             \/ \E t \in Targets : AllowsWrites(t)
             \/ DispatchCommits \/ DispatchDies
      PROVE  Goal
  <2>1. Idle'
    BY <1>2 DEF Decides, Answers, DeleteTitle, SaveEntry, ResolveDeletion, ResolvePlayback,
        SwitchOff, SwitchOn, SwapAccount, Forget, RemoveConnection, GuardWrites,
        ClearEnds, StopsWrites, AllowsWrites, ImportSnapshot, DispatchCommits, DispatchDies, Idle
  <2> QED
    BY <2>1
<1>3. ASSUME \/ \E r \in Resets : ResetSkipped(r) \/ ResetApplied(r) \/ ResetDisputed(r)
             \/ \E r \in Resets : ResetFails(r) \/ WatchRemotely(r)
             \/ \E c \in Streams, a \in Plays :
                 \/ PlaySkipped(c, a) \/ PlayApplied(c, a) \/ PlayConflicts(c, a)
                 \/ PlayFails(c, a)
             \/ UNCHANGED actionVars
      PROVE  Goal
  <2>1. UNCHANGED <<undo, pushing>>
    BY <1>3 DEF ResetSkipped, ResetApplied, ResetDisputed, ResetFails, WatchRemotely,
        Wanted, Handled, PlaySkipped, PlayApplied, PlayConflicts, PlayFails, actionVars
  <2> QED
    BY <2>1 DEF Idle, Attended
<1> HIDE DEF Goal
<1>4. Goal
  BY <1>1, <1>2, <1>3
  DEF ActionsNext, ActionsCalm, ActionsDisturbed, DispatchGoesOn, DispatchFails,
      ResetConflicts, ResetUnclear
<1> QED
  BY <1>4 DEF Goal

LEMMA PushersThereStep ==
    ASSUME TypedRest, PushersThere, [ActionsNext]_actionVars PROVE PushersThere'
<1>1. CASE \/ \E t \in Targets : SwitchOff(t) \/ SwitchOn(t)
           \/ \E c \in Streams : SwapAccount(c) \/ RemoveConnection(c)
           \/ \E c \in Streams : GuardWrites(c) \/ ClearEnds(c)
  BY <1>1 DEF SwitchOff, SwitchOn, SwapAccount, RemoveConnection, Forget, GuardWrites,
     ClearEnds, PushersThere, TypedRest
<1>2. CASE \/ \E r \in Resets : WatchRemotely(r)
           \/ \E c \in Streams : ImportSnapshot(c)
           \/ \E c \in Streams, a \in Plays : PlayApplied(c, a) \/ PlayFails(c, a)
  BY <1>2 DEF WatchRemotely, ImportSnapshot, PlayApplied, PlayFails, Written, PushersThere,
     TypedRest
<1>3. CASE \/ DeleteTitle \/ \E status \in {"watching", "resting"} : SaveEntry(status)
           \/ \E c \in Streams : Answers(c)
           \/ \E c \in Streams, status \in {"watching", "resting"} : ResolvePlayback(c, status)
           \/ \E t \in Targets : StopsWrites(t) \/ AllowsWrites(t)
           \/ DispatchStarts(Streams) \/ DispatchStarts(Clouds)
           \/ \E r \in Resets :
               ResetSkipped(r) \/ ResetApplied(r) \/ ResetDisputed(r) \/ ResetFails(r)
           \/ \E c \in Streams, a \in Plays : PlaySkipped(c, a) \/ PlayConflicts(c, a)
           \/ DispatchCommits \/ DispatchDies
           \/ UNCHANGED actionVars
  <2>1. UNCHANGED <<pushing, shown>>
    BY <1>3 DEF DeleteTitle, SaveEntry, Answers, ResolveDeletion, ResolvePlayback, StopsWrites,
       AllowsWrites, DispatchStarts, ResetSkipped, ResetApplied, ResetDisputed, ResetFails,
       PlaySkipped, PlayConflicts, DispatchCommits, DispatchDies, actionVars
  <2> QED
    BY <2>1 DEF PushersThere
<1> QED
  BY <1>1, <1>2, <1>3
  DEF ActionsNext, ActionsCalm, ActionsDisturbed, Decides, DispatchGoesOn, DispatchFails,
      ResetConflicts, ResetUnclear

AttendedInv ==
    /\ Attended(reset, queued, disputed) /\ PushersThere
    /\ ~Idle => Attended(undo[1].reset, undo[1].queued, undo[1].disputed)

LEMMA AttendedInvariant == ActionsSpec => []AttendedInv
<1>1. ActionsInit => AttendedInv
  <2> SUFFICES ASSUME ActionsInit PROVE AttendedInv
    OBVIOUS
  <2>1. Attended(reset, queued, disputed) /\ Idle
    BY DEF ActionsInit, Attended, Idle
  <2>2. PushersThere
    BY ActionsAssumption DEF ActionsInit, PushersThere
  <2> QED
    BY <2>1, <2>2 DEF AttendedInv
<1>2. ActionsInv /\ AttendedInv /\ [ActionsNext]_actionVars => AttendedInv'
  BY RowViewTyped, AttendedStep, AttendedUndoStep, PushersThereStep
  DEF ActionsInv, AttendedInv
<1> QED
  BY <1>1, <1>2, ActionsInvariant, PTL DEF ActionsSpec

\* Whom a marker waits for has somebody who makes it go on: a pending row, which
\* a dispatch takes up, or an open review, which the user answers; and the
\* service is there to be written to.  Of DeletionSettles this is what holds
\* whoever interferes.  The exceptions are those of MarkerServed: the connection
\* was forgotten, or a clear of it froze a reset.
DeletionAttended ==
    marker # Unmarked => \A t \in marker :
        \/ \A r \in RowsOf(t) : reset[r] = "none"
        \/ \E r \in RowsOf(t) : reset[r] = "cleared"
        \/ /\ t \in pushing
           /\ t \in Streams => shown[t] # "gone"
           /\ \/ \E r \in RowsOf(t) : reset[r] = "pending"
              \/ t \in Streams /\ "reset" \in disputed[t]

THEOREM DeletionAttendedTheorem == ActionsSpec => []DeletionAttended
<1>1. ActionsInv /\ AttendedInv => DeletionAttended
  <2> SUFFICES ASSUME ActionsInv, AttendedInv, marker # Unmarked, NEW t \in marker,
                      \E r \in RowsOf(t) : reset[r] # "none",
                      \A r \in RowsOf(t) : reset[r] # "cleared"
               PROVE  /\ t \in pushing
                      /\ t \in Streams => shown[t] # "gone"
                      /\ \/ \E r \in RowsOf(t) : reset[r] = "pending"
                         \/ t \in Streams /\ "reset" \in disputed[t]
    BY DEF DeletionAttended
  <2>1. PICK r \in RowsOf(t) : reset[r] \in {"pending", "conflict"}
    BY DEF ActionsInv, RowsInv, Owed
  <2>2. r \in Resets /\ r[1] = t
    BY DEF RowsOf
  <2> QED
    BY <2>1, <2>2 DEF AttendedInv, Attended, PushersThere
<1> QED
  BY <1>1, ActionsInvariant, AttendedInvariant, PTL
=============================================================================
