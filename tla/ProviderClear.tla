----------------------------- MODULE ProviderClear -----------------------------
(* The watched history of one user and of one Stremio or Nuvio connection: *)
(* pulls that read it, the queue of watch intents that writes it           *)
(* (core/watch_intents.py) and "Clear data", which erases it at the        *)
(* provider and must not let a pull take the empty account for a decision  *)
(* of its user (core/streaming_clear.py, with the checks the pulls of      *)
(* core/server_sync.py, core/tracking_snapshot.py and                      *)
(* core/sync_reconciliation.py make).                                      *)
(*                                                                         *)
(* Everything that writes the database holds the row of the user from its  *)
(* checks to its commit: those are steps.  A pull works through several,   *)
(* and outlives its job when /sync/abort cancels that one, so a clear or   *)
(* another pull may be admitted beside it.  Clock comparisons are flags of *)
(* the pull: `stale` (observed_at was written since it started), `early`   *)
(* (the guard was).  All push and sync flags are on, the scope of a clear  *)
(* includes watched history, the first import is done.                     *)
CONSTANTS
    Titles,
    Runners     \* pulls that may run at once

VARIABLES
    watched,    \* titles with a completed WatchEvent
    provider,   \* titles the provider holds as watched
    records,    \* StreamBaseline.snapshot["records"]["watched"]
    approved,   \* StreamBaseline.approved
    guard,      \* StreamBaseline.snapshot has a clear_guard
    fresh,      \* titles watched since StreamBaseline.observed_at
    review,     \* an initial_import review is pending
    intent,     \* state of the WatchIntent of each title, "none" without a row
    desired,    \* titles whose intent has desired_watched
    clearing,   \* the clear job: "none" when no job is active; "guarded" is
                \* a running one that has committed its guard
    pull,       \* what each runner is doing
    erased,     \* history: titles a clear erased, untouched since
    wanted      \* history: what the provider should hold after the last edit
                \* or clear; "any" once its own user or a pull had a say

baselineRow == <<records, approved, guard, fresh>>
outbound    == <<intent, desired>>
clearVars   == <<watched, provider, baselineRow, review, outbound, clearing,
                 pull, erased, wanted>>

Modes  == {"cycle", "full", "limited"}
Stages == {"queued", "waiting", "fetched", "applied", "collected", "decided"}

PullStates ==
    [mode : Modes \cup {"none"}, stage : Stages \cup {"idle"},
     seen : SUBSET Titles, stale : BOOLEAN, early : BOOLEAN,
     cancelled : BOOLEAN, edited : SUBSET Titles]

PullAt(mode, stage) ==
    [mode |-> mode, stage |-> stage, seen |-> {}, stale |-> FALSE,
     early |-> FALSE, cancelled |-> FALSE, edited |-> {}]

Free == PullAt("none", "idle")

ClearTypeOK ==
    /\ watched \subseteq Titles /\ provider \subseteq Titles
    /\ records \subseteq Titles /\ fresh \subseteq Titles
    /\ approved \in BOOLEAN /\ guard \in BOOLEAN /\ review \in BOOLEAN
    /\ intent \in [Titles -> {"none", "pending", "applied", "cleared"}]
    /\ desired \subseteq Titles
    /\ clearing \in {"none", "pending", "running", "guarded"}
    /\ pull \in [Runners -> PullStates]
    /\ erased \subseteq Titles
    /\ wanted \in [Titles -> {"any", "in", "out"}]

\* An approved import that found the same history on both sides.
ClearInit ==
    /\ watched \in SUBSET Titles
    /\ provider = watched /\ records = watched
    /\ approved = TRUE /\ guard = FALSE /\ fresh = {} /\ review = FALSE
    /\ intent = [t \in Titles |-> "none"] /\ desired = {}
    /\ clearing = "none"
    /\ pull = [r \in Runners |-> Free]
    /\ erased = {} /\ wanted = [t \in Titles |-> "any"]

Started(r) == pull[r].stage \notin {"idle", "queued"}

\* The row of sync_jobs is active: a cancelled cycle keeps its own until it has
\* stopped, a cancelled pull does not.
HasJob(r) == pull[r].mode = "cycle" \/ (pull[r].mode # "none" /\ ~pull[r].cancelled)
NoJob == clearing = "none" /\ \A r \in Runners : ~HasJob(r)

\* Baseline.observed_at is written: snapshots fetched before are stale.
Observed == [r \in Runners |-> IF Started(r) THEN [pull[r] EXCEPT !.stale = TRUE]
                               ELSE pull[r]]

Flip(S, t) == (S \ {t}) \cup ({t} \ S)
Decided(T, what) == [t \in Titles |-> IF t \in T THEN what ELSE wanted[t]]
Waiting == {t \in Titles : intent[t] = "pending"}

---------------------------------------------------------------------------
(* The user, at home and at the provider.                                  *)

\* Mutant of RefreshIntent: only a new row is pending.
RefreshIntentQuietly(t) == IF intent[t] = "none" THEN "pending" ELSE intent[t]

\* _refresh_intent: a newer edit coalesces onto the row and reopens it.
RefreshIntent(t) == "pending"

\* An edit of the history and queue_watch_intents in one transaction.
EditHistory(t) ==
    /\ watched' = Flip(watched, t)
    /\ intent' = [intent EXCEPT ![t] = RefreshIntent(t)]
    /\ desired' = IF t \in watched' THEN desired \cup {t} ELSE desired \ {t}
    /\ fresh' = IF t \in watched' THEN fresh \cup {t} ELSE fresh \ {t}
    /\ pull' = [r \in Runners |-> IF pull[r].mode = "cycle" /\ Started(r)
                    THEN [pull[r] EXCEPT !.edited = @ \cup {t}] ELSE pull[r]]
    /\ wanted' = Decided({t}, IF t \in watched' THEN "in" ELSE "out")
    /\ UNCHANGED <<provider, records, approved, guard, review, clearing, erased>>

EditProvider(t) ==
    /\ provider' = Flip(provider, t)
    /\ erased' = erased \ {t}
    /\ wanted' = Decided({t} \ Waiting, "any")
    /\ UNCHANGED <<watched, baselineRow, review, outbound, clearing, pull>>

\* resolve_event on an initial_import: the user approves what was imported.
ConfirmImport ==
    /\ review
    /\ approved' = TRUE /\ review' = FALSE
    /\ UNCHANGED <<watched, provider, records, guard, fresh, outbound, clearing,
                   pull, erased, wanted>>

\* abort_sync: the job of a pull is cancelled and its runner goes on until it
\* looks; so is a clear that has not started.
AbortSync ==
    /\ \/ clearing = "pending"
       \/ \E r \in Runners : HasJob(r) /\ ~pull[r].cancelled
    /\ pull' = [r \in Runners |->
                  IF pull[r].mode = "none" \/ pull[r].stage \in {"collected", "decided"}
                  THEN pull[r] ELSE [pull[r] EXCEPT !.cancelled = TRUE]]
    /\ clearing' = IF clearing = "pending" THEN "none" ELSE clearing
    /\ UNCHANGED <<watched, provider, baselineRow, review, outbound, erased, wanted>>

---------------------------------------------------------------------------
(* Watch intents.                                                          *)

\* require_stream_reconciliation.
Writable == clearing = "none" /\ ~guard /\ approved

\* dispatch_watch_intents: returns while a cycle is active; the truth is read
\* again under the lock of the user.  A write that was not verified, or whose
\* commit a crash prevented, leaves the row pending.
DispatchIntent(t) ==
    /\ \A r \in Runners : pull[r].mode = "cycle" => ~Started(r)
    /\ intent[t] = "pending"
    /\ Writable
    /\ provider' = IF t \in watched THEN provider \cup {t} ELSE provider \ {t}
    /\ desired' = IF t \in watched THEN desired \cup {t} ELSE desired \ {t}
    /\ \E state \in {"applied", "pending"} : intent' = [intent EXCEPT ![t] = state]
    /\ erased' = erased \ {t}
    /\ UNCHANGED <<watched, baselineRow, review, clearing, pull, wanted>>

---------------------------------------------------------------------------
(* Pulls: the account's cycle, a full resync, a limited pull.              *)

\* sync_connection, sync_account: require_idle_account.
SyncConnection(r, mode) ==
    /\ NoJob
    /\ pull[r] = Free
    /\ pull' = [pull EXCEPT ![r] = PullAt(mode, "queued")]
    /\ UNCHANGED <<watched, provider, baselineRow, review, outbound, clearing,
                   erased, wanted>>

\* Past pull_blocked_by_clear; pull_started_at is taken.
BeginPull(r) ==
    /\ pull[r].stage = "queued"
    /\ guard => pull[r].mode = "full"
    /\ pull' = [pull EXCEPT ![r].stage = "waiting"]
    /\ UNCHANGED <<watched, provider, baselineRow, review, outbound, clearing,
                   erased, wanted>>

\* The snapshot arrives; working through its items looks at the job row.
FetchSnapshot(r) ==
    /\ pull[r].stage = "waiting"
    /\ ~(pull[r].cancelled /\ provider # {})
    /\ pull' = [pull EXCEPT ![r] =
                   [[@ EXCEPT !.stage = "fetched"] EXCEPT !.seen = provider]]
    /\ UNCHANGED <<watched, provider, baselineRow, review, outbound, clearing,
                   erased, wanted>>

\* Mutant of SnapshotCurrent: the time of the last observation is not compared.
SnapshotUnguarded(r) == guard => pull[r].mode = "full" /\ ~pull[r].early

\* What observe_stream_snapshot asks, and assert_pull_snapshot_current before.
SnapshotCurrent(r) ==
    /\ guard => pull[r].mode = "full" /\ ~pull[r].early
    /\ ~pull[r].stale

\* Titles enter the history; the last word on them is no longer an edit.
Imports(new) ==
    /\ watched' = watched \cup new
    /\ fresh' = fresh \cup (new \ watched)
    /\ wanted' = Decided(new \ watched, "any")

\* _apply_nuvio_watch_history: all of a full resync, of a limited pull what is
\* not in the baseline or all before an approval; clocks may reject some.
ApplyHistory(r) ==
    /\ pull[r].stage = "fetched" /\ pull[r].mode # "cycle"
    /\ clearing = "none" /\ SnapshotCurrent(r)
    /\ \E new \in SUBSET (pull[r].seen \ (IF approved THEN records ELSE {})) :
        Imports(IF pull[r].mode = "full" THEN pull[r].seen ELSE new)
    /\ pull' = [pull EXCEPT ![r].stage = "applied"]
    /\ UNCHANGED <<provider, records, approved, guard, review, outbound,
                   clearing, erased>>

\* The child of a cycle hands its snapshot over.
CollectSnapshot(r) ==
    /\ pull[r].stage = "fetched" /\ pull[r].mode = "cycle"
    /\ clearing = "none" /\ SnapshotCurrent(r)
    /\ pull' = [pull EXCEPT ![r].stage = "collected"]
    /\ UNCHANGED <<watched, provider, baselineRow, review, outbound, clearing,
                   erased, wanted>>

\* _watches: what the baseline listed and the snapshot lacks was taken back at
\* the provider, what is new was watched there; the clocks of other providers
\* may decide otherwise, an edit during the cycle does.
ReconcileWatches(r) ==
    /\ pull[r].stage = "collected"
    /\ \E drop \in SUBSET ((watched \cap records) \ (pull[r].seen \cup pull[r].edited)),
          new \in SUBSET (pull[r].seen \ (records \cup watched \cup pull[r].edited)) :
        /\ watched' = (watched \ drop) \cup new
        /\ fresh' = (fresh \ drop) \cup new
        /\ wanted' = Decided(drop \cup new, "any")
    /\ pull' = [pull EXCEPT ![r].stage = "decided"]
    /\ UNCHANGED <<provider, records, approved, guard, review, outbound,
                   clearing, erased>>

\* What observe_stream_snapshot infers of a limited pull: not what was watched
\* since the last observation or waits to be pushed.
Missing(r) ==
    IF pull[r].mode = "limited" /\ approved
    THEN (watched \cap records) \ (pull[r].seen \cup fresh \cup (Waiting \cap desired))
    ELSE {}

\* observe_stream_snapshot: the snapshot becomes the baseline.  That of a full
\* resync starts over: nothing is inferred, and the user confirms it again.
ObserveSnapshot(r) ==
    /\ pull[r].stage \in {"applied", "decided"}
    /\ SnapshotCurrent(r)
    /\ watched' = watched \ Missing(r)
    /\ wanted' = Decided(Missing(r), "any")
    /\ records' = pull[r].seen /\ fresh' = {}
    /\ IF pull[r].mode = "full"
       THEN guard' = FALSE /\ approved' = FALSE /\ review' = TRUE
       ELSE UNCHANGED <<guard, approved, review>>
    /\ pull' = [Observed EXCEPT ![r] = Free]
    /\ UNCHANGED <<provider, outbound, clearing, erased>>

\* A check, the provider or a cancellation ends the pull.
PullFails(r) ==
    /\ pull[r] # Free
    /\ pull' = [pull EXCEPT ![r] = Free]
    /\ UNCHANGED <<watched, provider, baselineRow, review, outbound, clearing,
                   erased, wanted>>

---------------------------------------------------------------------------
(* Clear data.                                                             *)

\* clear_connection_data.
ClearData ==
    /\ NoJob
    /\ clearing' = "pending"
    /\ UNCHANGED <<watched, provider, baselineRow, review, outbound, pull,
                   erased, wanted>>

\* _run_clear_data_job: pending becomes running.
ClearStarts ==
    /\ clearing = "pending" /\ clearing' = "running"
    /\ UNCHANGED <<watched, provider, baselineRow, review, outbound, pull,
                   erased, wanted>>

\* _set_guard with _freeze_outbound_work, committed before anything is erased.
\* From here on the clear is the last word on what is not edited again.
SetGuard ==
    /\ clearing = "running" /\ clearing' = "guarded"
    /\ guard' = TRUE /\ approved' = FALSE
    /\ intent' = [t \in Titles |-> IF t \in Waiting THEN "cleared" ELSE intent[t]]
    /\ wanted' = [t \in Titles |-> "out"]
    /\ pull' = [r \in Runners |-> IF Started(r) THEN [pull[r] EXCEPT !.early = TRUE]
                                  ELSE pull[r]]
    /\ UNCHANGED <<watched, provider, records, fresh, review, desired, erased>>

\* The provider confirmed it is empty: _project_cleared_snapshot.
ClearFinishes ==
    /\ clearing = "guarded" /\ clearing' = "none"
    /\ provider' = {} /\ erased' = erased \cup provider
    /\ records' = {} /\ approved' = TRUE /\ guard' = FALSE /\ fresh' = {}
    /\ pull' = Observed
    /\ UNCHANGED <<watched, review, outbound, wanted>>

\* It stopped with only `rest` left at the provider: nothing is sure any more.
Erases(rest) ==
    /\ provider' = rest /\ erased' = erased \cup (provider \ rest)
    /\ wanted' = IF clearing = "guarded" THEN Decided(Titles \ Waiting, "any") ELSE wanted

\* An error, after some of it was erased: the guard stays.
ClearFails ==
    /\ clearing \in {"running", "guarded"} /\ clearing' = "none"
    /\ \E rest \in SUBSET provider :
        (clearing = "running" => rest = provider) /\ Erases(rest)
    /\ UNCHANGED <<watched, baselineRow, review, outbound, pull>>

\* The process dies at any point and fails every active job when it is back.
RestartClear ==
    /\ clearing # "none" \/ \E r \in Runners : pull[r] # Free
    /\ clearing' = "none"
    /\ pull' = [r \in Runners |-> Free]
    /\ \E rest \in SUBSET provider :
        (clearing # "guarded" => rest = provider) /\ Erases(rest)
    /\ UNCHANGED <<watched, baselineRow, review, outbound>>

---------------------------------------------------------------------------
PullNext(r) ==
    \/ \E mode \in Modes : SyncConnection(r, mode)
    \/ BeginPull(r) \/ FetchSnapshot(r) \/ ApplyHistory(r)
    \/ CollectSnapshot(r) \/ ReconcileWatches(r) \/ ObserveSnapshot(r)
    \/ PullFails(r)

TitleNext(t) == EditHistory(t) \/ EditProvider(t) \/ DispatchIntent(t)

ClearNext ==
    \/ \E t \in Titles : TitleNext(t)
    \/ \E r \in Runners : PullNext(r)
    \/ ConfirmImport \/ AbortSync
    \/ ClearData \/ ClearStarts \/ SetGuard \/ ClearFinishes \/ ClearFails
    \/ RestartClear

ClearSpec == ClearInit /\ [][ClearNext]_clearVars

---------------------------------------------------------------------------
\* A title we erased at the provider is missing there because of us: no pull
\* takes that for a decision of its user and deletes the local history, not
\* even one that read the provider before the clear, fails to notice that its
\* job is gone, or runs after a clear that died half way.  Only an edit does.
HistorySurvivesClear ==
    [][\A t \in erased \cap watched : t \notin watched' => wanted'[t] = "out"]_clearVars

\* Nothing waits, and neither the provider's user nor a pull had a say since:
\* then the provider holds what the last edit or clear asked for.  No edit is
\* marked applied by an older write, and work queued before a clear does not
\* put back what it erased.
WantedIsDelivered ==
    clearing # "guarded" =>
        \A t \in Titles \ Waiting :
            wanted[t] # "any" => (t \in provider <=> wanted[t] = "in")
=============================================================================
