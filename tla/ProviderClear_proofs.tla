-------------------------- MODULE ProviderClear_proofs --------------------------
(***************************************************************************)
(* Proofs about ProviderClear, for any titles and any number of runners.   *)
(***************************************************************************)
EXTENDS ProviderClear, TLAPS

LEMMA FreeType == Free \in PullStates
BY DEF PullStates, Free, PullAt

LEMMA PullType ==
    ASSUME NEW p \in PullStates
    PROVE  /\ \A s \in Stages : [p EXCEPT !.stage = s] \in PullStates
           /\ [p EXCEPT !.stale = TRUE] \in PullStates
           /\ [p EXCEPT !.early = TRUE] \in PullStates
           /\ [p EXCEPT !.cancelled = TRUE] \in PullStates
           /\ \A t \in Titles : [p EXCEPT !.edited = @ \cup {t}] \in PullStates
<1>1. \A s \in Stages : [p EXCEPT !.stage = s] \in PullStates
  BY DEF PullStates
<1>2. /\ [p EXCEPT !.stale = TRUE] \in PullStates
      /\ [p EXCEPT !.early = TRUE] \in PullStates
      /\ [p EXCEPT !.cancelled = TRUE] \in PullStates
  BY DEF PullStates
<1>3. \A t \in Titles : [p EXCEPT !.edited = @ \cup {t}] \in PullStates
  BY DEF PullStates
<1> QED
  BY <1>1, <1>2, <1>3


LEMMA PullTypeStep ==
    ASSUME pull \in [Runners -> PullStates], provider \subseteq Titles, [ClearNext]_clearVars
    PROVE  (pull \in [Runners -> PullStates])'
<1> USE PullType, FreeType
<1>1. ASSUME NEW t \in Titles, EditHistory(t) PROVE (pull \in [Runners -> PullStates])'
  BY <1>1 DEF EditHistory
<1>2. ASSUME NEW r \in Runners, NEW mode \in Modes, SyncConnection(r, mode)
      PROVE  (pull \in [Runners -> PullStates])'
  <2>1. PullAt(mode, "queued") \in PullStates
    BY DEF PullStates, Stages, PullAt
  <2> QED
    BY <1>2, <2>1 DEF SyncConnection
<1>3. ASSUME NEW r \in Runners, BeginPull(r) PROVE (pull \in [Runners -> PullStates])'
  BY <1>3 DEF BeginPull, Stages
<1>4. ASSUME NEW r \in Runners, FetchSnapshot(r)
      PROVE  (pull \in [Runners -> PullStates])'
  <2>1. [pull[r] EXCEPT !.stage = "fetched"] \in PullStates
    BY DEF Stages
  <2>2. ASSUME NEW p \in PullStates
        PROVE  [p EXCEPT !.seen = provider] \in PullStates
    BY DEF PullStates
  <2> QED
    BY <1>4, <2>1, <2>2 DEF FetchSnapshot
<1>5. ASSUME NEW r \in Runners, ApplyHistory(r) \/ CollectSnapshot(r) \/ ReconcileWatches(r)
      PROVE  (pull \in [Runners -> PullStates])'
  <2>1. PICK s \in Stages : pull' = [pull EXCEPT ![r].stage = s]
    BY <1>5 DEF ApplyHistory, CollectSnapshot, ReconcileWatches, Stages
  <2>2. [pull[r] EXCEPT !.stage = s] \in PullStates
    OBVIOUS
  <2> QED
    BY <2>1, <2>2
<1>6. ASSUME NEW r \in Runners, ObserveSnapshot(r)
      PROVE  (pull \in [Runners -> PullStates])'
  BY <1>6 DEF ObserveSnapshot, Observed
<1>7. ASSUME NEW r \in Runners, PullFails(r) PROVE (pull \in [Runners -> PullStates])'
  BY <1>7 DEF PullFails
<1>8. CASE AbortSync
  BY <1>8 DEF AbortSync
<1>9. CASE SetGuard
  BY <1>9 DEF SetGuard
<1>10. CASE ClearFinishes
  BY <1>10 DEF ClearFinishes, Observed
<1>11. CASE RestartClear
  BY <1>11 DEF RestartClear
<1>12. CASE UNCHANGED pull
  BY <1>12
<1>13. ASSUME NEW t \in Titles, EditProvider(t) \/ DispatchIntent(t)
       PROVE  UNCHANGED pull
  BY <1>13 DEF EditProvider, DispatchIntent
<1>14. ConfirmImport \/ ClearData \/ ClearStarts \/ ClearFails => UNCHANGED pull
  BY DEF ConfirmImport, ClearData, ClearStarts, ClearFails
<1>15. UNCHANGED clearVars => UNCHANGED pull
  BY DEF clearVars
<1> QED
  BY <1>1, <1>2, <1>3, <1>4, <1>5, <1>6, <1>7, <1>8, <1>9, <1>10, <1>11, <1>12,
     <1>13, <1>14, <1>15
  DEF ClearNext, TitleNext, PullNext

\* The rest of the type invariant.
RestTyped ==
    /\ watched \subseteq Titles /\ provider \subseteq Titles
    /\ records \subseteq Titles /\ fresh \subseteq Titles
    /\ approved \in BOOLEAN /\ guard \in BOOLEAN /\ review \in BOOLEAN
    /\ desired \subseteq Titles
    /\ clearing \in {"none", "pending", "running", "guarded"}
    /\ erased \subseteq Titles

LEMMA RestTypedStep ==
    ASSUME RestTyped, pull \in [Runners -> PullStates], [ClearNext]_clearVars
    PROVE  RestTyped'
<1>1. ASSUME NEW t \in Titles, EditHistory(t) PROVE RestTyped'
  BY <1>1 DEF EditHistory, RestTyped, Flip
<1>2. ASSUME NEW t \in Titles, EditProvider(t) PROVE RestTyped'
  BY <1>2 DEF EditProvider, RestTyped, Flip, baselineRow, outbound
<1>3. ASSUME NEW t \in Titles, DispatchIntent(t) PROVE RestTyped'
  BY <1>3 DEF DispatchIntent, RestTyped, baselineRow
<1>4. ASSUME NEW r \in Runners, PullNext(r) PROVE RestTyped'
  <2>1. pull[r].seen \subseteq Titles
    BY DEF PullStates
  <2>2. (\E mode \in Modes : SyncConnection(r, mode)) \/ BeginPull(r) \/ FetchSnapshot(r)
        \/ CollectSnapshot(r) \/ PullFails(r) => RestTyped'
    BY DEF SyncConnection, BeginPull, FetchSnapshot, CollectSnapshot, PullFails,
           RestTyped, baselineRow, outbound
  <2>3. ApplyHistory(r) => RestTyped'
    BY <2>1 DEF ApplyHistory, Imports, RestTyped, outbound
  <2>4. ReconcileWatches(r) => RestTyped'
    BY <2>1 DEF ReconcileWatches, RestTyped, outbound
  <2>5. ObserveSnapshot(r) => RestTyped'
    BY <2>1 DEF ObserveSnapshot, RestTyped, outbound
  <2> QED
    BY <1>4, <2>2, <2>3, <2>4, <2>5 DEF PullNext
<1>5. CASE ConfirmImport
  BY <1>5 DEF ConfirmImport, RestTyped, outbound
<1>6. CASE AbortSync \/ ClearData \/ ClearStarts
  BY <1>6 DEF AbortSync, ClearData, ClearStarts, RestTyped, baselineRow, outbound
<1>7. CASE SetGuard
  BY <1>7 DEF SetGuard, RestTyped
<1>8. CASE ClearFinishes
  BY <1>8 DEF ClearFinishes, RestTyped, outbound
<1>9. CASE ClearFails \/ RestartClear
  BY <1>9 DEF ClearFails, RestartClear, Erases, RestTyped, baselineRow, outbound
<1>10. CASE UNCHANGED clearVars
  BY <1>10 DEF clearVars, RestTyped, baselineRow, outbound
<1> QED
  BY <1>1, <1>2, <1>3, <1>4, <1>5, <1>6, <1>7, <1>8, <1>9, <1>10
  DEF ClearNext, TitleNext

OutboundTyped ==
    /\ intent \in [Titles -> {"none", "pending", "applied", "cleared"}]
    /\ wanted \in [Titles -> {"any", "in", "out"}]

LEMMA DecidedType ==
    ASSUME OutboundTyped, NEW T, NEW what \in {"any", "in", "out"}
    PROVE  Decided(T, what) \in [Titles -> {"any", "in", "out"}]
BY DEF OutboundTyped, Decided

LEMMA OutboundTypedStep ==
    ASSUME OutboundTyped, [ClearNext]_clearVars
    PROVE  OutboundTyped'
<1>1. ASSUME NEW t \in Titles, EditHistory(t) PROVE OutboundTyped'
  <2>1. (wanted \in [Titles -> {"any", "in", "out"}])'
    BY <1>1, DecidedType DEF EditHistory
  <2> QED
    BY <1>1, <2>1 DEF EditHistory, RefreshIntent, OutboundTyped
<1>2. ASSUME NEW t \in Titles, EditProvider(t) PROVE OutboundTyped'
  BY <1>2, DecidedType DEF EditProvider, OutboundTyped, outbound
<1>3. ASSUME NEW t \in Titles, DispatchIntent(t) PROVE OutboundTyped'
  BY <1>3 DEF DispatchIntent, OutboundTyped
<1>4. ASSUME NEW r \in Runners, PullNext(r) PROVE OutboundTyped'
  <2>1. intent' = intent
    BY <1>4 DEF PullNext, SyncConnection, BeginPull, FetchSnapshot, ApplyHistory,
                CollectSnapshot, ReconcileWatches, ObserveSnapshot, PullFails, outbound
  <2>2. wanted' = wanted \/ \E T : wanted' = Decided(T, "any")
    BY <1>4 DEF PullNext, SyncConnection, BeginPull, FetchSnapshot, ApplyHistory,
       Imports,
                CollectSnapshot, ReconcileWatches, ObserveSnapshot, PullFails
  <2> QED
    BY <2>1, <2>2, DecidedType DEF OutboundTyped
<1>5. CASE SetGuard
  BY <1>5 DEF SetGuard, OutboundTyped
<1>6. CASE ClearFails \/ RestartClear
  BY <1>6, DecidedType DEF ClearFails, RestartClear, Erases, OutboundTyped, outbound
<1>7. CASE UNCHANGED <<intent, wanted>>
  BY <1>7 DEF OutboundTyped
<1>8. ConfirmImport \/ AbortSync \/ ClearData \/ ClearStarts \/ ClearFinishes
      \/ UNCHANGED clearVars => UNCHANGED <<intent, wanted>>
  BY DEF ConfirmImport, AbortSync, ClearData, ClearStarts, ClearFinishes,
         outbound, clearVars
<1> QED
  BY <1>1, <1>2, <1>3, <1>4, <1>5, <1>6, <1>7, <1>8 DEF ClearNext, TitleNext

LEMMA ClearTypeParts ==
    ClearTypeOK <=> RestTyped /\ OutboundTyped /\ pull \in [Runners -> PullStates]
BY DEF ClearTypeOK, RestTyped, OutboundTyped

LEMMA ClearTypeStep ==
    ASSUME ClearTypeOK, [ClearNext]_clearVars
    PROVE  ClearTypeOK'
<1>1. RestTyped /\ OutboundTyped /\ pull \in [Runners -> PullStates] /\ provider \subseteq Titles
  BY ClearTypeParts DEF RestTyped
<1>2. RestTyped' /\ OutboundTyped' /\ (pull \in [Runners -> PullStates])'
  BY <1>1, RestTypedStep, OutboundTypedStep, PullTypeStep
<1> QED
  BY <1>2 DEF ClearTypeOK, RestTyped, OutboundTyped

\* The types of the history, the baseline, the intents and the pulls of a
\* connection hold in every reachable state, for any titles and runners.
THEOREM ClearTypeCorrect == ClearSpec => []ClearTypeOK
<1>1. ClearInit => ClearTypeOK
  BY FreeType DEF ClearInit, ClearTypeOK
<1>2. ClearTypeOK /\ [ClearNext]_clearVars => ClearTypeOK'
  BY ClearTypeStep
<1> QED
  BY <1>1, <1>2, PTL DEF ClearSpec

---------------------------------------------------------------------------
(* What the provider holds.  A pending intent agrees with the history once *)
(* an edit was the last word, and while a clear erases, nothing else has   *)
(* one that asks for a title.                                              *)

PendingIsTrue ==
    \A t \in Waiting : wanted[t] # "any" => (t \in watched <=> wanted[t] = "in")

ClearIsLast ==
    clearing = "guarded" => \A t \in Titles \ Waiting : wanted[t] # "in"

DueInv == PendingIsTrue /\ ClearIsLast /\ WantedIsDelivered

LEMMA DueStep ==
    ASSUME ClearTypeOK, DueInv, [ClearNext]_clearVars
    PROVE  DueInv'
<1>0. OutboundTyped /\ RestTyped
  BY ClearTypeParts
<1> USE DEF DueInv, PendingIsTrue, ClearIsLast, WantedIsDelivered, Waiting, Decided
<1>1. ASSUME NEW t \in Titles, EditHistory(t) PROVE DueInv'
  <2>1. /\ intent' = [intent EXCEPT ![t] = "pending"]
        /\ wanted' = [u \in Titles |->
                IF u \in {t} THEN IF t \in watched' THEN "in" ELSE "out" ELSE wanted[u]]
        /\ \A u \in Titles \ {t} : u \in watched' <=> u \in watched
        /\ UNCHANGED <<provider, clearing>>
    BY <1>1 DEF EditHistory, RefreshIntent, Flip
  <2> QED
    BY <1>0, <2>1 DEF OutboundTyped
<1>2. ASSUME NEW t \in Titles, EditProvider(t) PROVE DueInv'
  BY <1>0, <1>2 DEF EditProvider, Flip, OutboundTyped, outbound
<1>3. ASSUME NEW t \in Titles, DispatchIntent(t) PROVE DueInv'
  BY <1>0, <1>3 DEF DispatchIntent, Writable, OutboundTyped
<1>4. ASSUME NEW r \in Runners, PullNext(r) PROVE DueInv'
  <2>1. UNCHANGED <<intent, provider, clearing>>
    BY <1>4 DEF PullNext, SyncConnection, BeginPull, FetchSnapshot, ApplyHistory,
                CollectSnapshot, ReconcileWatches, ObserveSnapshot, PullFails, outbound
  <2>2. \A t \in Titles :
          \/ wanted'[t] = "any"
          \/ wanted'[t] = wanted[t] /\ (t \in watched' <=> t \in watched)
    <3>1. (\E mode \in Modes : SyncConnection(r, mode)) \/ BeginPull(r) \/ FetchSnapshot(r)
          \/ CollectSnapshot(r) \/ PullFails(r) => UNCHANGED <<wanted, watched>>
      BY DEF SyncConnection, BeginPull, FetchSnapshot, CollectSnapshot, PullFails
    <3>2. CASE ApplyHistory(r)
      BY <3>2 DEF ApplyHistory, Imports
    <3>3. CASE ReconcileWatches(r)
      BY <3>3 DEF ReconcileWatches
    <3>4. CASE ObserveSnapshot(r)
      BY <3>4 DEF ObserveSnapshot
    <3> QED
      BY <1>4, <3>1, <3>2, <3>3, <3>4 DEF PullNext
  <2> QED
    BY <2>1, <2>2
<1>5. CASE SetGuard
  BY <1>0, <1>5 DEF SetGuard, OutboundTyped
<1>6. CASE ClearFinishes
  BY <1>0, <1>6 DEF ClearFinishes, OutboundTyped, outbound
<1>7. CASE ClearFails \/ RestartClear
  BY <1>0, <1>7 DEF ClearFails, RestartClear, Erases, OutboundTyped, outbound, RestTyped
<1>8. CASE ConfirmImport \/ AbortSync \/ ClearData \/ ClearStarts
  BY <1>8 DEF ConfirmImport, AbortSync, ClearData, ClearStarts, NoJob, outbound
<1>9. CASE UNCHANGED clearVars
  BY <1>9 DEF clearVars, outbound
<1> QED
  BY <1>1, <1>2, <1>3, <1>4, <1>5, <1>6, <1>7, <1>8, <1>9 DEF ClearNext, TitleNext

\* Once nothing waits, the provider holds what the last edit or clear asked
\* for, whatever pulls, clears, crashes and failed writes came in between.
THEOREM WantedCorrect == ClearSpec => []WantedIsDelivered
<1>1. ClearInit => DueInv
  BY DEF ClearInit, DueInv, PendingIsTrue, ClearIsLast, WantedIsDelivered, Waiting
<1>2. ClearTypeOK /\ DueInv /\ [ClearNext]_clearVars => DueInv'
  BY DueStep
<1>3. DueInv => WantedIsDelivered
  BY DEF DueInv
<1> QED
  BY <1>1, <1>2, <1>3, ClearTypeCorrect, PTL DEF ClearSpec

---------------------------------------------------------------------------
(* Who runs beside a clear.  An active clear was admitted with no job left, *)
(* so a pull beside it is a cancelled one; a cycle keeps its job, so none   *)
(* runs beside a clear, nor on a guarded baseline.                          *)

Beside == clearing # "none" => \A r \in Runners : ~HasJob(r)

CycleAlone ==
    \A r \in Runners : pull[r].mode = "cycle" /\ Started(r) => clearing = "none" /\ ~guard

EmptyHands ==
    \A r \in Runners : pull[r].stage \in {"idle", "queued", "waiting"} => pull[r].seen = {}

Purposeful ==
    \A r \in Runners : /\ pull[r].stage # "idle" => pull[r].mode # "none"
                       /\ pull[r].stage = "collected" => pull[r].mode = "cycle"

RunInv == Beside /\ CycleAlone /\ EmptyHands /\ Purposeful

LEMMA Cancelling ==
    ASSUME NEW p \in PullStates, NEW q, q = [p EXCEPT !.cancelled = TRUE]
    PROVE  /\ q.mode = p.mode /\ q.stage = p.stage
           /\ q.seen = p.seen /\ q.cancelled = TRUE
BY DEF PullStates

LEMMA Marking ==
    ASSUME NEW p \in PullStates, NEW q,
           q = p \/ q = [p EXCEPT !.stale = TRUE] \/ q = [p EXCEPT !.early = TRUE]
    PROVE  /\ q.mode = p.mode /\ q.stage = p.stage
           /\ q.seen = p.seen /\ q.cancelled = p.cancelled
<1>1. CASE q = [p EXCEPT !.stale = TRUE]
  BY <1>1 DEF PullStates
<1>2. CASE q = [p EXCEPT !.early = TRUE]
  BY <1>2 DEF PullStates
<1> QED
  BY <1>1, <1>2

LEMMA Editing ==
    ASSUME NEW p \in PullStates, NEW t \in Titles, NEW q, q = [p EXCEPT !.edited = @ \cup {t}]
    PROVE  /\ q.mode = p.mode /\ q.stage = p.stage
           /\ q.seen = p.seen /\ q.cancelled = p.cancelled
BY DEF PullStates

LEMMA RunStep ==
    ASSUME ClearTypeOK, RunInv, [ClearNext]_clearVars
    PROVE  RunInv'
<1>0. pull \in [Runners -> PullStates]
  BY ClearTypeParts
<1> USE <1>0 DEF RunInv, Beside, CycleAlone, EmptyHands, Purposeful, HasJob, Started
<1>1. ASSUME NEW t \in Titles, TitleNext(t) PROVE RunInv'
  <2>1. UNCHANGED <<clearing, guard>>
    BY <1>1 DEF TitleNext, EditHistory, EditProvider, DispatchIntent, baselineRow
  <2>2. \A r \in Runners : pull'[r] = pull[r] \/ pull'[r] = [pull[r] EXCEPT !.edited = @ \cup {t}]
    BY <1>1 DEF TitleNext, EditHistory, EditProvider, DispatchIntent
  <2>3. \A r \in Runners : /\ pull'[r].mode = pull[r].mode /\ pull'[r].stage = pull[r].stage
                           /\ pull'[r].seen = pull[r].seen
                           /\ pull'[r].cancelled = pull[r].cancelled
    <3> TAKE r \in Runners
    <3>1. pull[r] \in PullStates
      OBVIOUS
    <3>2. CASE pull'[r] = [pull[r] EXCEPT !.edited = @ \cup {t}]
      BY <3>1, <3>2, Editing
    <3> QED
      BY <2>2, <3>2
  <2> QED
    BY <2>1, <2>3
<1>2. ASSUME NEW r \in Runners, NEW mode \in Modes, SyncConnection(r, mode)
      PROVE  RunInv'
  BY <1>2 DEF SyncConnection, NoJob, PullAt, Modes, baselineRow
<1>3. ASSUME NEW r \in Runners, BeginPull(r) PROVE RunInv'
  BY <1>3 DEF BeginPull, PullStates, baselineRow
<1>4. ASSUME NEW r \in Runners, FetchSnapshot(r) PROVE RunInv'
  BY <1>4 DEF FetchSnapshot, PullStates, baselineRow
<1>5. ASSUME NEW r \in Runners, ApplyHistory(r) \/ CollectSnapshot(r) \/ ReconcileWatches(r)
      PROVE  RunInv'
  BY <1>5 DEF ApplyHistory, CollectSnapshot, ReconcileWatches, PullStates, baselineRow
<1>6. ASSUME NEW r \in Runners, ObserveSnapshot(r) PROVE RunInv'
  <2>1. UNCHANGED clearing /\ (guard' => guard)
    BY <1>6 DEF ObserveSnapshot
  <2>2. pull'[r] = Free
    BY <1>6 DEF ObserveSnapshot, Observed
  <2>3. \A q \in Runners \ {r} : pull'[q] = pull[q] \/ pull'[q] = [pull[q] EXCEPT !.stale = TRUE]
    BY <1>6 DEF ObserveSnapshot, Observed
  <2>4. \A q \in Runners \ {r} : /\ pull'[q].mode = pull[q].mode /\ pull'[q].stage = pull[q].stage
                                 /\ pull'[q].seen = pull[q].seen
                                 /\ pull'[q].cancelled = pull[q].cancelled
    <3> TAKE q \in Runners \ {r}
    <3>1. pull[q] \in PullStates
      OBVIOUS
    <3> QED
      BY <2>3, <3>1, Marking
  <2> QED
    BY <2>1, <2>2, <2>4 DEF Free, PullAt
<1>7. ASSUME NEW r \in Runners, PullFails(r) PROVE RunInv'
  BY <1>7 DEF PullFails, Free, PullAt, baselineRow
<1>8. CASE AbortSync
  <2>1. UNCHANGED guard /\ (clearing' # "none" => clearing # "none")
    BY <1>8 DEF AbortSync, baselineRow
  <2>2. \A r \in Runners : pull'[r] = pull[r] \/ pull'[r] = [pull[r] EXCEPT !.cancelled = TRUE]
    BY <1>8 DEF AbortSync
  <2>3. \A r \in Runners : /\ pull'[r].mode = pull[r].mode /\ pull'[r].stage = pull[r].stage
                           /\ pull'[r].seen = pull[r].seen
                           /\ pull[r].cancelled => pull'[r].cancelled
    <3> SUFFICES ASSUME NEW r \in Runners, pull'[r] = [pull[r] EXCEPT !.cancelled = TRUE]
                 PROVE  /\ pull'[r].mode = pull[r].mode /\ pull'[r].stage = pull[r].stage
                        /\ pull'[r].seen = pull[r].seen
                        /\ pull'[r].cancelled = TRUE
      BY <2>2
    <3>1. pull[r] \in PullStates
      OBVIOUS
    <3> QED
      BY <3>1, Cancelling
  <2> QED
    BY <2>1, <2>3
<1>9. CASE SetGuard
  <2>1. clearing # "none" /\ clearing' # "none"
    BY <1>9 DEF SetGuard
  <2>2. \A r \in Runners : pull'[r] = pull[r] \/ pull'[r] = [pull[r] EXCEPT !.early = TRUE]
    BY <1>9 DEF SetGuard
  <2>3. \A r \in Runners : /\ pull'[r].mode = pull[r].mode /\ pull'[r].stage = pull[r].stage
                           /\ pull'[r].seen = pull[r].seen
                           /\ pull'[r].cancelled = pull[r].cancelled
    <3> TAKE r \in Runners
    <3>1. pull[r] \in PullStates
      OBVIOUS
    <3> QED
      BY <2>2, <3>1, Marking
  <2> QED
    BY <2>1, <2>3
<1>10. CASE ClearFinishes
  <2>1. clearing' = "none" /\ guard' = FALSE
    BY <1>10 DEF ClearFinishes
  <2>2. \A r \in Runners : pull'[r] = pull[r] \/ pull'[r] = [pull[r] EXCEPT !.stale = TRUE]
    BY <1>10 DEF ClearFinishes, Observed
  <2>3. \A r \in Runners : /\ pull'[r].mode = pull[r].mode /\ pull'[r].stage = pull[r].stage
                           /\ pull'[r].seen = pull[r].seen
    <3> TAKE r \in Runners
    <3>1. pull[r] \in PullStates
      OBVIOUS
    <3> QED
      BY <2>2, <3>1, Marking
  <2> QED
    BY <2>1, <2>3
<1>11. CASE RestartClear
  BY <1>11 DEF RestartClear, Free, PullAt
<1>12. CASE ClearData
  BY <1>12 DEF ClearData, NoJob, baselineRow
<1>13. CASE ConfirmImport \/ ClearStarts \/ ClearFails
  BY <1>13 DEF ConfirmImport, ClearStarts, ClearFails, baselineRow
<1>14. CASE UNCHANGED clearVars
  BY <1>14 DEF clearVars, baselineRow
<1> QED
  BY <1>1, <1>2, <1>3, <1>4, <1>5, <1>6, <1>7, <1>8, <1>9, <1>10, <1>11, <1>12,
     <1>13, <1>14
  DEF ClearNext, PullNext

---------------------------------------------------------------------------
(* What a clear erased.  It is not at the provider; the baseline lists it  *)
(* only under a guard; and a snapshot that shows it will be refused, since *)
(* it predates the guard that is still there or the last observation.      *)

Refused(r) == pull[r].stale \/ (pull[r].early /\ guard)

Gone == erased \cap provider = {}

Listed == erased \cap records # {} => guard

Shown == \A r \in Runners : pull[r].seen \cap erased # {} => Refused(r)

\* While a clear erases, what may become erased is as safe as what was.
Emptied ==
    clearing = "guarded" =>
        /\ guard \/ records = {}
        /\ \A r \in Runners : pull[r].seen # {} => Refused(r)

ErasedInv == Gone /\ Listed /\ Shown /\ Emptied

LEMMA RefusedNotCurrent ==
    ASSUME NEW r \in Runners, Refused(r) PROVE ~SnapshotCurrent(r)
BY DEF Refused, SnapshotCurrent

\* A step that leaves the baseline and the provider, erases nothing and takes
\* no mark from a pull.
LEMMA ErasedKept ==
    ASSUME ErasedInv, UNCHANGED <<records, guard, provider>>, erased' \subseteq erased,
           clearing' = "guarded" => clearing = "guarded",
           \A r \in Runners : /\ pull'[r].seen \subseteq pull[r].seen
                              /\ pull[r].stale => pull'[r].stale
                              /\ pull[r].early => pull'[r].early
    PROVE  ErasedInv'
BY DEF ErasedInv, Gone, Listed, Shown, Emptied, Refused

LEMMA Observing ==
    ASSUME NEW p \in PullStates, NEW q, q = [p EXCEPT !.stale = TRUE]
    PROVE  q.seen = p.seen /\ q.stale = TRUE
BY DEF PullStates

LEMMA Guarding ==
    ASSUME NEW p \in PullStates, NEW q, q = [p EXCEPT !.early = TRUE]
    PROVE  q.seen = p.seen /\ q.early = TRUE
BY DEF PullStates

\* Every snapshot in hand is stale once the baseline has been observed.
LEMMA ObservedMarks ==
    ASSUME pull \in [Runners -> PullStates], EmptyHands, NEW r \in Runners
    PROVE  Observed[r].seen # {} => Observed[r].stale = TRUE
<1>1. CASE Started(r)
  BY <1>1, Observing DEF Observed
<1>2. CASE ~Started(r)
  BY <1>2 DEF Observed, EmptyHands, Started
<1> QED
  BY <1>1, <1>2

LEMMA ErasedStep ==
    ASSUME ClearTypeOK, RunInv, ErasedInv, [ClearNext]_clearVars
    PROVE  ErasedInv'
<1>0. pull \in [Runners -> PullStates] /\ RestTyped /\ EmptyHands
  BY ClearTypeParts DEF RunInv
<1>1. ASSUME NEW t \in Titles, EditHistory(t) PROVE ErasedInv'
  <2>1. UNCHANGED <<records, guard, provider, erased, clearing>>
    BY <1>1 DEF EditHistory
  <2>2. ASSUME NEW p \in PullStates, NEW q, q = [p EXCEPT !.edited = @ \cup {t}]
        PROVE  q.seen = p.seen /\ q.stale = p.stale /\ q.early = p.early
    BY <2>2 DEF PullStates
  <2>3. ASSUME NEW r \in Runners
        PROVE  /\ pull'[r].seen \subseteq pull[r].seen
               /\ pull[r].stale => pull'[r].stale
               /\ pull[r].early => pull'[r].early
    <3>1. pull'[r] = pull[r] \/ pull'[r] = [pull[r] EXCEPT !.edited = @ \cup {t}]
      BY <1>1 DEF EditHistory
    <3>2. pull[r] \in PullStates
      BY <1>0
    <3> QED
      BY <2>2, <3>1, <3>2
  <2> QED
    BY <2>1, <2>3, ErasedKept
<1>2. ASSUME NEW t \in Titles, EditProvider(t) \/ DispatchIntent(t) PROVE ErasedInv'
  <2>1. UNCHANGED <<records, guard, clearing, pull>> /\ erased' = erased \ {t}
        /\ provider' \ {t} \subseteq provider
    BY <1>2 DEF EditProvider, DispatchIntent, Flip, baselineRow
  <2> QED
    BY <2>1 DEF ErasedInv, Gone, Listed, Shown, Emptied, Refused
<1>3. ASSUME NEW r \in Runners, NEW mode \in Modes, SyncConnection(r, mode)
      PROVE  ErasedInv'
  <2>1. UNCHANGED <<records, guard, provider, erased, clearing>>
    BY <1>3 DEF SyncConnection, baselineRow
  <2>2. \A q \in Runners : pull'[q] = IF q = r THEN PullAt(mode, "queued") ELSE pull[q]
    BY <1>0, <1>3 DEF SyncConnection
  <2> QED
    BY <2>1, <2>2 DEF PullAt, ErasedInv, Gone, Listed, Shown, Emptied, Refused
<1>4. ASSUME NEW r \in Runners, NEW stage \in Stages, pull' = [pull EXCEPT ![r].stage = stage],
             UNCHANGED <<records, guard, provider, erased, clearing>>
      PROVE  ErasedInv'
  <2>1. ASSUME NEW p \in PullStates, NEW q, q = [p EXCEPT !.stage = stage]
        PROVE  q.seen = p.seen /\ q.stale = p.stale /\ q.early = p.early
    BY <2>1 DEF PullStates
  <2>2. \A s \in Runners : pull'[s] = IF s = r THEN [pull[r] EXCEPT !.stage = stage] ELSE pull[s]
    BY <1>0, <1>4
  <2>3. pull[r] \in PullStates
    BY <1>0
  <2> QED
    BY <1>4, <2>1, <2>2, <2>3, ErasedKept
<1>5. ASSUME NEW r \in Runners,
             BeginPull(r) \/ ApplyHistory(r) \/ CollectSnapshot(r) \/ ReconcileWatches(r)
      PROVE  ErasedInv'
  <2>1. PICK stage \in Stages : pull' = [pull EXCEPT ![r].stage = stage]
    BY <1>5 DEF BeginPull, ApplyHistory, CollectSnapshot, ReconcileWatches, Stages
  <2>2. UNCHANGED <<records, guard, provider, erased, clearing>>
    BY <1>5 DEF BeginPull, ApplyHistory, CollectSnapshot, ReconcileWatches, baselineRow
  <2> QED
    BY <1>4, <2>1, <2>2
<1>6. ASSUME NEW r \in Runners, FetchSnapshot(r) PROVE ErasedInv'
  <2>1. /\ UNCHANGED <<records, guard, provider, erased, clearing>>
        /\ pull[r].mode # "none"
        /\ ~(pull[r].cancelled /\ provider # {})
    BY <1>6 DEF FetchSnapshot, baselineRow, RunInv, Purposeful
  <2>2. \A q \in Runners \ {r} : pull'[q] = pull[q]
    BY <1>0, <1>6 DEF FetchSnapshot
  <2>3. pull'[r].seen = provider
    <3>1. ASSUME NEW p \in PullStates
          PROVE  [[p EXCEPT !.stage = "fetched"] EXCEPT !.seen = provider].seen = provider
      BY DEF PullStates
    <3> QED
      BY <1>0, <1>6, <3>1 DEF FetchSnapshot
  <2>4. clearing = "guarded" => provider = {}
    BY <2>1 DEF RunInv, Beside, HasJob
  <2> QED
    BY <2>1, <2>2, <2>3, <2>4 DEF ErasedInv, Gone, Listed, Shown, Emptied, Refused
<1>7. ASSUME NEW r \in Runners, ObserveSnapshot(r) PROVE ErasedInv'
  <2>1. ~Refused(r) /\ records' = pull[r].seen /\ UNCHANGED <<provider, erased, clearing>>
    BY <1>7, RefusedNotCurrent DEF ObserveSnapshot
  <2>2. erased' \cap records' = {} /\ (clearing = "guarded" => records' = {})
    <3>1. pull[r].seen \cap erased = {} /\ (clearing = "guarded" => pull[r].seen = {})
      BY <2>1 DEF ErasedInv, Shown, Emptied
    <3> QED
      BY <2>1, <3>1
  <2>3. \A q \in Runners : pull'[q] = IF q = r THEN Free ELSE Observed[q]
    BY <1>0, <1>7 DEF ObserveSnapshot, Observed
  <2>4. \A q \in Runners : pull'[q].seen # {} => pull'[q].stale
    <3> SUFFICES ASSUME NEW q \in Runners, pull'[q].seen # {}
                 PROVE  pull'[q].stale = TRUE
      OBVIOUS
    <3>1. q # r
      BY <2>3 DEF Free, PullAt
    <3> QED
      BY <1>0, <2>3, <3>1, ObservedMarks
  <2> QED
    BY <2>1, <2>2, <2>4 DEF ErasedInv, Gone, Listed, Shown, Emptied, Refused
<1>8. ASSUME NEW r \in Runners, PullFails(r) PROVE ErasedInv'
  <2>1. UNCHANGED <<records, guard, provider, erased, clearing>>
    BY <1>8 DEF PullFails, baselineRow
  <2>2. \A q \in Runners : pull'[q] = IF q = r THEN Free ELSE pull[q]
    BY <1>0, <1>8 DEF PullFails
  <2> QED
    BY <2>1, <2>2 DEF Free, PullAt, ErasedInv, Gone, Listed, Shown, Emptied, Refused
<1>9. CASE AbortSync
  <2>1. UNCHANGED <<records, guard, provider, erased>>
        /\ (clearing' = "guarded" => clearing = "guarded")
    BY <1>9 DEF AbortSync, baselineRow
  <2>2. ASSUME NEW p \in PullStates, NEW q, q = [p EXCEPT !.cancelled = TRUE]
        PROVE  q.seen = p.seen /\ q.stale = p.stale /\ q.early = p.early
    BY <2>2 DEF PullStates
  <2>3. ASSUME NEW r \in Runners
        PROVE  /\ pull'[r].seen \subseteq pull[r].seen
               /\ pull[r].stale => pull'[r].stale
               /\ pull[r].early => pull'[r].early
    <3>1. pull'[r] = pull[r] \/ pull'[r] = [pull[r] EXCEPT !.cancelled = TRUE]
      BY <1>9 DEF AbortSync
    <3>2. pull[r] \in PullStates
      BY <1>0
    <3> QED
      BY <2>2, <3>1, <3>2
  <2> QED
    BY <2>1, <2>3, ErasedKept
<1>10. CASE SetGuard
  <2>1. guard' = TRUE /\ UNCHANGED <<provider, records, erased>>
    BY <1>10 DEF SetGuard
  <2>2. \A r \in Runners : pull'[r].seen # {} => pull'[r].early
    <3>1. ASSUME NEW r \in Runners, Started(r) PROVE pull'[r].early
      BY <1>0, <1>10, <3>1, Guarding DEF SetGuard
    <3>2. ASSUME NEW r \in Runners, ~Started(r) PROVE pull'[r].seen = {}
      BY <1>0, <1>10, <3>2 DEF SetGuard, EmptyHands, Started
    <3> QED
      BY <3>1, <3>2
  <2> QED
    BY <2>1, <2>2 DEF ErasedInv, Gone, Listed, Shown, Emptied, Refused
<1>11. CASE ClearFinishes
  <2>1. provider' = {} /\ records' = {} /\ clearing' = "none"
    BY <1>11 DEF ClearFinishes
  <2>2. \A r \in Runners : pull'[r].seen # {} => pull'[r].stale
    BY <1>0, <1>11, ObservedMarks DEF ClearFinishes
  <2> QED
    BY <2>1, <2>2 DEF ErasedInv, Gone, Listed, Shown, Emptied, Refused
<1>12. CASE ClearFails \/ RestartClear
  <2>1. PICK rest \in SUBSET provider :
          /\ clearing # "guarded" => rest = provider
          /\ provider' = rest /\ erased' = erased \cup (provider \ rest)
    BY <1>0, <1>12 DEF ClearFails, RestartClear, Erases, RestTyped
  <2>2. clearing' = "none" /\ UNCHANGED <<records, guard>>
    BY <1>12 DEF ClearFails, RestartClear, baselineRow
  <2>3. \A r \in Runners : pull'[r] = pull[r] \/ pull'[r] = Free
    BY <1>12 DEF ClearFails, RestartClear
  <2> QED
    BY <2>1, <2>2, <2>3 DEF Free, PullAt, ErasedInv, Gone, Listed, Shown, Emptied,
       Refused
<1>13. CASE ConfirmImport \/ ClearData \/ ClearStarts \/ UNCHANGED clearVars
  BY <1>13
  DEF ConfirmImport, ClearData, ClearStarts, clearVars, baselineRow, ErasedInv, Gone,
      Listed, Shown, Emptied, Refused
<1> QED
  BY <1>1, <1>2, <1>3, <1>5, <1>6, <1>7, <1>8, <1>9, <1>10, <1>11, <1>12, <1>13
  DEF ClearNext, TitleNext, PullNext

\* A pull deletes a title only where the baseline lists it and nothing guards
\* it, so none that a clear erased.
LEMMA ErasedStays ==
    ASSUME ClearTypeOK, RunInv, ErasedInv, [ClearNext]_clearVars,
           NEW t \in erased \cap watched, t \notin watched'
    PROVE  wanted'[t] = "out"
<1>0. t \in Titles /\ (t \in records => guard)
  BY ClearTypeParts DEF RestTyped, ErasedInv, Listed
<1>1. ASSUME NEW u \in Titles, EditHistory(u) PROVE wanted'[t] = "out"
  BY <1>0, <1>1 DEF EditHistory, Flip, Decided
<1>2. ASSUME NEW r \in Runners, ReconcileWatches(r) PROVE FALSE
  <2>1. pull[r].mode = "cycle" => ~guard
    BY <1>2 DEF RunInv, CycleAlone, Started, ReconcileWatches
  <2>2. t \in records
    BY <1>2 DEF ReconcileWatches
  <2>3. pull[r].mode = "cycle"
    BY <1>2 DEF ReconcileWatches, RunInv, Purposeful
  <2> QED
    BY <1>0, <2>1, <2>2, <2>3
<1>3. ASSUME NEW r \in Runners, ObserveSnapshot(r) PROVE FALSE
  BY <1>0, <1>3 DEF ObserveSnapshot, Missing, SnapshotCurrent
<1>4. ASSUME NEW r \in Runners, ApplyHistory(r) PROVE FALSE
  BY <1>4 DEF ApplyHistory, Imports
<1>5. CASE UNCHANGED watched
  BY <1>5
<1>6. ASSUME NEW u \in Titles, EditProvider(u) \/ DispatchIntent(u)
      PROVE  UNCHANGED watched
  BY <1>6 DEF EditProvider, DispatchIntent
<1>7. ASSUME NEW r \in Runners,
             (\E mode \in Modes : SyncConnection(r, mode)) \/ BeginPull(r) \/ FetchSnapshot(r)
             \/ CollectSnapshot(r) \/ PullFails(r)
      PROVE  UNCHANGED watched
  BY <1>7 DEF SyncConnection, BeginPull, FetchSnapshot, CollectSnapshot, PullFails
<1>8. ConfirmImport \/ AbortSync \/ ClearData \/ ClearStarts \/ SetGuard \/ ClearFinishes
      \/ ClearFails \/ RestartClear \/ UNCHANGED clearVars => UNCHANGED watched
  BY DEF ConfirmImport, AbortSync, ClearData, ClearStarts, SetGuard, ClearFinishes,
         ClearFails, RestartClear, clearVars
<1> QED
  BY <1>1, <1>2, <1>3, <1>4, <1>5, <1>6, <1>7, <1>8 DEF ClearNext, TitleNext, PullNext

\* No pull takes what a clear erased at the provider for a decision of its user:
\* the guard outlives a clear that died, and a snapshot from before a clear is
\* refused also after the job of its pull was cancelled.
THEOREM SurvivesCorrect == ClearSpec => HistorySurvivesClear
<1>1. ClearInit => RunInv /\ ErasedInv
  BY DEF ClearInit, RunInv, Beside, CycleAlone, EmptyHands, Purposeful, Started,
     HasJob, Free, PullAt,
         ErasedInv, Gone, Listed, Shown, Emptied, Refused
<1>2. ClearTypeOK /\ RunInv /\ ErasedInv /\ [ClearNext]_clearVars => RunInv' /\ ErasedInv'
  BY RunStep, ErasedStep
<1>3. ClearTypeOK /\ RunInv /\ ErasedInv /\ [ClearNext]_clearVars
      => [\A t \in erased \cap watched : t \notin watched' => wanted'[t] = "out"]_clearVars
  BY ErasedStays
<1> QED
  BY <1>1, <1>2, <1>3, ClearTypeCorrect, PTL DEF ClearSpec, HistorySurvivesClear
=============================================================================
