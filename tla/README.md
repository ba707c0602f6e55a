# AnyList: verification of the sync core

AnyList tracks films and shows for its users and keeps their lists in step with
media servers (Plex, Emby, Jellyfin), streaming clients (Stremio, Nuvio, ARVIO)
and trackers (Trakt, Simkl, MDBList, Bingebase). The part of it that is hard to
get right is the backend's synchronisation core, `backend/core/`: long-running
pulls of several providers at once, one decision about what they reported,
delivery of the accepted result to every destination, and users who edit, cancel,
reconnect and import while all of this runs in one asyncio process over one
PostgreSQL database that may be restarted at any time. These TLA+ modules model
that core. Paths below are relative to `src/backend/`.

## 1. Inventory

Locks the components share: the row of `users` (taken `FOR UPDATE` by every
admission, by `finalize`, by the dispatchers of queues and by library choices),
the rows of `sync_jobs`, the in-process lock of a user's cycles
(`core/pull_cycle.py:_locks`), the in-process lock of a user's deliveries
(`core/sync_delivery.py:_locks`), and a lock per streaming connection.

| component | state | operations | hard because | correct when |
|---|---|---|---|---|
| Account pull cycles (`core/account_sync.py`, `core/sync_jobs.py`) | parent and child rows of `sync_jobs`: status, the JSON `stats`; coroutines | queue a pull, request an automatic one, run it, cancel, retry follow-ups | admissions from routes, scheduler, imports; whole-JSON writes from stale copies; crash between any two commits | one cycle at a time, no stranded child, an accepted cancel is honoured, every follow-up is served once, every cycle ends |
| Cycle delivery (`core/sync_delivery.py`, `core/pull_cycle.py`, `_flush_pull_cycle`) | batch, destinations, acknowledgements in `stats`; the registered `PullCycleState` | accept, flush one destination, acknowledge, retry, defer a fan-out | partial failure, retry after newer edits, state that exists in memory only | acknowledged means delivered, nothing stale is sent, every batch is retired, no edit is forgotten |
| Reconciliation (`core/sync_reconciliation.py`) | observations per provider, baselines, reviews | initialize, collect, resolve, finalize | decisions by clocks some of which are missing, scores that come back rounded | newer local decisions survive, what is settled is not proposed again |
| Streaming library (`core/streaming_library.py`) | intents, deliveries per connection | choose, dispatch, retry, provider delta, clear | remote writes in a lock, sessions that keep stale rows | the last choice reaches every connection |
| Watch intents (`core/watch_intents.py`) | intents per connection and title | queue, dispatch, supersede | toggles while a write is in flight | the last watched state is delivered |
| Stream and cloud actions (`core/stream_actions.py`, `core/cloud_actions.py`) | queued actions with attempts | queue, dispatch, retry, supersede | back-off, late answers | no lost or doubled action |
| Provider clear (`core/streaming_clear.py`) | clear job, guard in the baseline | admit, guard, clear, project | dies half-way | a half-cleared account is never read as removals by the user |
| Connection identity and imports (`core/connection_identity.py`, `core/connection_imports.py`, `core/netflix_sessions.py`) | identity version, import sessions, handoff of a baseline | switch account, draft, review, commit, cancel, hand over to the first pull | restart between commit and first pull; removal of the connection under review | nothing cancelled or of a replaced account is applied; a connection enters routine sync only after the import was delivered |
| Scheduler (`core/scheduler.py`) | timers | queue due pulls and pushes, retry every queue each minute | races routes and itself | retries only what is still owed |
| Outbound fan-out (`core/outbound_sync.py`, `core/local_outbound.py`) | background tasks | send a local edit, defer it into a cycle | no durable state for ratings | an edit is offered to every destination |
| Provider runners (`core/server_sync.py`, `core/*_sync.py`) | progress of a job | start, poll for cancellation, finish | hours of network I/O | cancellation is noticed, outcome recorded |
| Statistics (`core/statistics_snapshots.py`, `core/statistics_refresh.py`) | lease, revisions, published generation | claim, compute, publish, fail, repair, refresh | lease expiry, concurrent changes of facts and metadata | a clean mark means a current generation; what is removed disappears |
| Playback (`core/manual_sessions.py`, `core/watch_dedup.py`, `routers/history.py`, `routers/webhooks.py`) | sessions, watch events | start, heartbeat, dismiss, complete, run out; report a play | several reports of one viewing at once | one viewing is one watch |
| Tracking, catalogue, accounts, sharing, frontend | see `PROJECT.json` | | request-local or I/O | mostly not modelled |

The hazards, each at its line with the properties that guard against it, are in
`PROJECT.json` under `hazards`.

## 2. Plan

Order, most important behaviour first. Modules marked * exist.

1. *`AccountSync`: the life of a cycle. Abstract specification *`PullCycles`.
2. *`CycleDelivery`: the batch a cycle leaves behind, composed with cycles through
   the lock they share (a cycle is a registered state, a retry a job without one).
   Abstract specification *`Outbox`, which the rows of `AccountSync` implement as well.
3. *`StreamingLibrary`: intents and deliveries under the user lock, including the
   rows a session keeps after a commit.
4. *`StreamActions`: the rows queued for services and the deletion marker that waits
   for them. Watch intents, the other queue behind the destination "queues" of a
   batch, are in *`ProviderClear`, because what can go wrong with them is a clear.
5. *`ImportSessions`, *`ImportHandoff`: an import up to its commit, and the hand-over
   to the first pull. The pull itself is a cycle of `AccountSync`.
6. *`ProviderClear`: the guard protocol against pulls of the same connection.
7. *`StatisticsLease`: claim, compute, publish under an expiring lease. Abstract
   specification *`Generations`.
8. *`RatingMerge`: `resolve` and `_ratings` with the providers, the user and the reviews
   around them, which decides what `CycleDelivery` takes as given.
9. *`PlaybackSessions`: manual sessions and the reports of a viewing, which write the
   history the other modules start from.
10. The other categories that go through `resolve`: watched dates, playback, progress,
    library. They need what a history turns into a status, which item 8 could leave out.
11. What `Outbox` says of batches, said of the other queues: a delivery of the library,
    an intent or an action is replaced while it waits, which a batch is not.

Every module but the abstract ones has an inductive invariant and a proof module.
10 and 11 are left.

Runs are kept at the smallest instance in which every interference can meet every
other one: two cycles or batches (the second is the follow-up, the retry or the
competitor of the first), one provider or destination that can be replaced and one
that cannot, one title with two values.

## 3. Modules

### AccountSync

One user. A cycle is a parent row with one child row per provider. Durable state
is `status`, `child`, `stats` (the flags that are set in the JSON value), `aborted`
(the error message of a restart) and `clear`; process memory is `pc` (position of
`run_account_pull`), `worker` (position of `_run_provider`), `raised` (its local
variable `failed`), `copy` (the stats its session's identity map still holds),
`retrying`, `request` and `abort` (a request between its read and its write, an
abort between its read and its bulk update).

| actions | code |
|---|---|
| `QueuePull`, `RequestStarts`, `RequestReads`/`RequestWrites`, `RetryAutomatic` | `queue_account_pull`, `request_automatic_pull`, `retry_automatic_pulls` |
| `MarkRunning` ... `Close` | `run_account_pull`, one action per transaction or await |
| `WorkerLoads` ... `RunnerRaises` | `_run_provider` and the start and end of a runner |
| `Cancel`, `AbortBegins`/`AbortCancels`/`AbortEnds`, `StartClear` ... `CancelClear` | `routers/sync.py`, `core/streaming_clear.py` |
| `BeginRetry`, `Acknowledge`, `EndRetry` | `retry_cycle_deliveries`; its inside is `CycleDelivery` |
| `SwitchConnection`, `Shutdown`, `Restart` | `reset_stream_connection_state`, cancellation of the tasks, death and `lifespan` |

`Enabled` selects interference, so that each property is stated under exactly
the conditions it needs. With `"split_request"` others may commit between the
read and the write of a request, as in the code; without it a request is one step.

Simplifications. `Close` reads and commits the parent in one step, although the
code does not lock that row, so a cancel between the two is not interleaved. A
connection is cleared at most once. Provider checkpoints and progress counters are
left out. Admission stands for every reason not to admit (no provider, no key) by
not happening. The database index `uq_sync_jobs_active_account_cycle` is not
modelled: exclusion is shown to follow from the locks alone.

### PullCycles

What the account promises of its cycles: one is open at a time, it may commit its
accepted changes once while it is open, and it ends. `AccountSync` implements it
with `phase` from `status` and `accepted` from the flag `reconciled`.

### CycleDelivery

One user's batches, destinations and edits. Durable: canonical `rating`, identity
`version` of each destination, and per batch the accepted `ratings`, `removed`,
`fence` (connection versions), `targets`, `done`, `pending`. Memory: `active` (the
cycle registered in `pull_cycle._states`), `captured`, `stateNew`/`stateGone` (the
`PullCycleState` in use), `job`/`todo`/`target`/`sending`/`failed`
(`_deliver_cycle` and one `_flush_pull_cycle`), `queued`/`fanning` (tasks of local
edits). `remote` is the world. `superseded`, `reached` and `withheld` (batches whose last
flush to a destination sent it nothing) are history.

A cycle starts by capturing identities (`CycleStarts`), and either fails
(`CycleFails`) or commits (`Finalize`): which ratings are accepted is any choice
that does not override an edit made since the cycle started and that is still
there. A destination is flushed by `FlushBegins` (identity check, filter by the
canonical ratings), `FlushWrites` and `FlushWriteFails` per write in any order
(a failed write may or may not have had its effect), then `Acknowledge` or
`FlushFails`. A connection held back by `require_stream_reconciliation` (a clear, an
onboarding, an open conflict, a baseline that is not approved) and a cloud service that
is not approved are passed over in silence: `FlushWithheld` sends nothing, and
`Acknowledge` follows. `RetryBegins` is `retry_cycle_deliveries`. The user edits (`Edit`),
and the task of the edit either defers it into the registered state or writes it to the
destinations that do not refuse (`LocalFanOut`, `LocalWrite`). Which destinations refuse,
and when, is free: what opens and closes them is in `StreamActions` and `ProviderClear`. Accounts are replaced (`Switch`), the process dies
(`Crash`).

Simplifications. Ratings stand for every kind of delta; a batch's watched,
collection and push-back parts take the same path and are left out. The
destination `Queues` receives no rating. `Items` are titles every destination can hold;
one that a provider does not know is skipped there. The exclusion of the source of a
rating, batches saved without targets, the seed of an import and
the unpushed bulk removal of all ratings are left out. Destinations are attempted
in any order. A rating the user removed keeps no clock, so reconciliation may
accept a provider's value again, as `_ratings` does. The status of the job is in
`AccountSync`; here any pending batch may be retried.

### Outbox

What is promised of a batch: it is accepted once, for some destinations, each of which
acknowledges it once, and the last acknowledgement retires it, nothing else.
`CycleDelivery` implements it with `phase` from `pending` and `targets`, and `owed` from
`targets` without `done`. `AccountSync` sees of the same batches one flag each; it
implements `Outbox` with a single destination, `phase` from the flags `delivery_pending`
and `reconciled` (`Batch` in `AccountSync_proofs`).

### StreamingLibrary

One user. Durable: `desired` (the intents), `row` (state and value of the delivery
per connection and title), `push` (connections with `push_collection`), `newer`
(connections whose baseline is older than the intent: the comparison of
`updated_at` with the time of the observation, without clocks). The world: `remote`
and `edited` (owner changes no pull has seen). A dispatch: `holder` (it holds the
row of the user), `todo`, `loaded`, `outcome`. A sync that retries: `session`, `want`,
`seen` (its identity map), `titles`. History: `foreign`, `quiet`, `strayed`.

| actions | code |
|---|---|
| `SetLibraryIntent` | `set_library_intent` |
| `QueueProviderChange`, `ObserveSnapshot` | `queue_provider_library_changes` with one source; a new baseline |
| `ClearConnection`, `SetPush`, `SwitchAccount` | `clear_pending_library_deliveries` and the clear, `update_connection`, `reset_stream_connection_state` |
| `Dispatch`, `RecordFails`, `DeliverSkipped`, `Deliver`, `DeliverFails`, `Commit` | `dispatch_library_deliveries`, from a task, a route or the scheduler |
| `RetryReads` ... `RetryEnds` | `retry_pending_library_deliveries` by the sync of a connection |

A sync that retries holds no lock between its titles, and not every sync is a step of a
cycle: limited and standalone pulls retry outside the cycle lock, and a pull whose job
`/sync/abort` cancelled retries beside whatever was admitted since. So choices, deltas of
other providers, clears and account switches may all come while `session` is not `none`.
Each that decides a delivery anew while a sync of the connection keeps the old row puts it
into `strayed` (`Renewed` for those that concern all titles).

SQLAlchemy's part is modelled by what it does: a row a session holds is not read
again (`loaded` takes it from `seen`), and an assignment writes the columns whose
value differs from the loaded one (`Flushed`, `Commit`).

Simplifications. The two SELECTs of a retry are one step, and its flush is committed
at once instead of with its first dispatch. A flush that meets a dispatch on the
same row deadlocks; the database aborts one side, and the model leaves the pair out.
A connection has at most one sync that retries. An object a session no longer refers to
may leave its identity map; the rows a retry read are referred to until it ends. A
provider delta has one source. What a clear removes remotely is any part of the
library. The bound of 100 titles is left out, and so are the local collection rows
that mirror membership.

### ProviderClear

One user, one Stremio or Nuvio connection, its watched history. Durable: `watched`
(titles with a completed event), `provider` (what the account holds), the baseline
(`records`, `approved`, `guard`, and `fresh`, titles watched since `observed_at`),
`review` (an initial import to confirm), the watch intents (`intent`, `desired`) and
`clearing`, the state of the clear job. Memory: `pull`, per runner its mode, stage,
what it fetched (`seen`) and what has happened since it started: `stale`
(`observed_at` was written), `early` (the guard was), `cancelled`, `edited`. History:
`erased` and `wanted`.

| actions | code |
|---|---|
| `EditHistory`, `DispatchIntent` | an edit with `queue_watch_intents`; `dispatch_watch_intents` |
| `SyncConnection`, `AbortSync` | the admission of full, limited and cycle pulls; `/sync/abort` |
| `BeginPull`, `FetchSnapshot` | the runner before and in its fetch, with its checks of the guard |
| `ApplyHistory`, `ObserveSnapshot` | import and baseline of a pull outside a cycle, with the removals a snapshot infers (`Missing`) |
| `CollectSnapshot`, `ReconcileWatches` | a cycle: staging, then `resolve` and `finalize` for watches |
| `PullFails` | an error, a refused check or a cancellation between two commits |
| `ClearData`, `ClearStarts`, `SetGuard`, `ClearFinishes`, `ClearFails`, `RestartClear` | `core/streaming_clear.py` and `lifespan` |
| `ConfirmImport`, `EditProvider` | the review; the owner of the account elsewhere |

A pull outlives a job that `/sync/abort` cancelled until its next checkpoint, so a
clear may be admitted beside it: this is the interleaving the guard, the two flags
and the checkpoints after each fetch exist for. Whatever holds the row of the user
from its checks to its commit is one step.

Simplifications. The scope of a clear includes watched history, all push and sync
flags are on, the first import is done. The runner is that of Nuvio
(`core/server_sync.py`); the one of Stremio makes the same checks in the same order.
A full push, propagation to other providers, the check of the target identity before
the remote mutation and the bounds of a batch of intents are left out. Observations
of Nuvio have no removal times, so a title missing in a snapshot is read as removed
exactly under the conditions `Missing` states.

### StreamActions

What the user decides about one title (deleting, starting, putting it away) as rows
for the connected services. Durable: `entry`, `marker` (the pending connections of
`TrackingDeletion`), `notice` (the review that tells the user a deletion waits),
`reset` (a row per connection and id, and per cloud service), `queued` (resumes and
dismissals per connection, and `frozen` for one a clear gave up), `disputed` (open
conflicts), `pushing`, `ready`. The world: `remote`, `shown`. Inside a dispatch: `undo`
(the rows as last committed) and `todo`. `waived` is history: targets the last deletion
did not ask, and those the user released since.

| actions | code |
|---|---|
| `DeleteTitle`, `SaveEntry` | deletion with `queue_stream_resets` and `queue_cloud_resets`; the save of a tracking entry |
| `RetryDeletion`, `KeepHistory`, `ResolveDeletion`, `ResolvePlayback` | answers to the reviews of conflicts |
| `Cleanup` | the clean-up at the start of a dispatch |
| `SwitchOff`, `SwitchOn`, `SwapAccount`, `RemoveConnection` | settings, replaced account, removal |
| `StopsWrites`, `AllowsWrites` | a first import begins, the approval of a service lapses; the import is confirmed, or a clear that wrote nothing gives the approval back |
| `GuardWrites`, `ClearEnds` | a clear: the commit of `_set_guard`, which turns pending resets into `cleared` and, with the scope of playback, gives up pending resumes and dismissals; its end, completed or failed at any point |
| `DispatchStarts` ... `DispatchCommits`, `DispatchDies` | `dispatch_stream_actions` and its cloud twin, one action per row, by what the service answers: `ResetConflicts` when the title was viewed after the deletion, `ResetUnclear` when the answer does not tell (a page cut at 200 rows, another content type, an unreadable time, a missing key) |
| `WatchRemotely`, `ImportSnapshot` | the owner elsewhere; an import between dispatches |

A dispatch writes to services row by row and commits at its end: `DispatchDies` puts
the rows back and leaves what the services were told, the duplicate a restart causes.

Simplifications. One title. `push_watched` and `push_playback` are one flag, `ready`
stands for what `require_stream_reconciliation` asks beside open conflicts. Imports are
one step between two dispatches. The clean-up after a change of the settings of a cloud
service is one step with the change. A cloud reset clears every episode; the code's
payload leaves out season 0 (`core/cloud_actions.py:20-25`). Attempts and back-off only order retries and are
left out. Next-up visibility of Nuvio and the legacy restore action are left out.

### ImportSessions

One session. Durable: `status`, `payload`, `overdue`, `conn` (identity version of the
draft, moved on, or gone), `baseline`, `syncing`. Memory: `prep` and `commit` (positions
of the two tasks, whose membership in `_running` and `_committing` is the task itself),
`flag` (the session is in `_cancelled`), `cancelling`, `removing`. History: `applied`,
`signalled`.

| actions | code |
|---|---|
| `UploadHistory`, `StageFirstSnapshot`, `StagingEnds` | the two origins of a session |
| `PrepareSession` ... `PrepareFailed` | `_prepare_session` and its handler |
| `AcceptCommit`, `PollPreparing`, `PollImport` | the POST of a commit, the GET that schedules a task that is gone |
| `CommitBegins` ... `CommitFailed` | `_commit_session`, with its checks before and after the import, the pull it waits for and its handlers |
| `CancelImport`, `CancelLocked` | DELETE of the import: the flag, then the row |
| `RemovalSignals`, `RemovalBumps`, `RemovalLocked` | DELETE of the connection: flag and identity version first, then the row |
| `ReplaceAccount`, `DraftExpires`, `CleanupExpired`, `RestartImports` | other account, expiry, restart |

The two failure handlers read the session without a lock; they are two steps each
(`PrepareFails`/`PrepareFailed`, `CommitFails`/`CommitFailed`). One session, because a
user has one open import at a time; clocks are flags; parsing, matching and edits of the
draft in review are left out.

### ImportHandoff

Starts where a commit ends. Durable: `pending` and `pullJob` (in the session's result),
`handoff` (of the baseline), `cycle` (jobs and their outcomes), `routine` (another cycle
is active). Memory: `hand`, `copy`, `mine` of the task of the commit and of the retry the
scheduler runs. `LoadSession`, `PreviousHasPulled`, `PreviousIsBusy`, `AdmitPull`,
`AdmissionRefused`, `NothingToPull`, `LinkPull`, `PullReturns` are the branches of
`_run_import_handoff` between its commits; `CycleReconciles`, `CycleFails`,
`DeliveryEnds`, `RoutineStarts`, `RoutineEnds` are the rest of the system as this code
sees it, and `StopHandoff` is a crash or stop. Both coroutines may hold stale copies of
the result they write back whole. `JobsLeft` keeps disturbances from using up the bound
on jobs.

### StatisticsLease and Generations

One account. Durable: three revisions (`facts`, `shared`, `shape`), the `generation`
that is published, `dirty`, `due`, `lease`, `expired`. Memory: `worker`, `outcome`,
`tries`, `page`. History: `removed`. Workers are scheduler tasks, runs of the data health
repair and requests for a refresh; a worker stands for the token of its one claim.

| actions | code |
|---|---|
| `PrepareStartup`, `SkipCurrent`, `ClaimNext`, `Compute` | start of the scheduler, `claim_next`, `compute` |
| `Publish`, `PublishOutrun`, `PublishTooLate`, `RecordFailure` | `publish` with its two checks, and `fail` |
| `RepairSelects`, `RepairMarks`, `RepairFindsNone` | the repair, which selects before it updates |
| `RefreshAccount`, `RefreshClaims` | a refresh with its bounded attempts |
| `PageLoads`, `PageReads`, `PageQueuesUpgrade` | the overview, whose two reads have no common snapshot |
| `FactChanged`, `FactRemoved`, `MetadataChanged`, `VisibilityChanged` | the triggers of the migrations |
| `LeaseExpires`, `BecomesDue`, `Restart` | clocks, and a restart that may deploy a new calculation |

`Generations` is what readers are promised: one generation, which appears whole,
describes the moment it appears, and stays until it is replaced or what it shows is
removed. `StatisticsLease` implements it with `published` from `generation`. The figures
themselves are queries and are not modelled. Revisions are bounded by `MaxFacts`,
`MaxShared`, `MaxShape`.

### RatingMerge

The score of one title, in tenths. Durable: the local `score`, `ratedAt`, `review` (the
open combined conflict), `baseline` and `baselineAt` of each provider. The world: `held`,
`heldAt`, and `sending` (writes under way). Memory of a cycle: `started`, `collected`,
`gathered` (its observations). History: `chosenAt`, `calm`. Trackers (`Dated`) say when a
rating was made and keep whole points, media servers (`Undated`) keep the score and no
time; `Pushing` are the ones our ratings are written to, so both kinds may be pull-only.

| actions | code |
|---|---|
| `UserRates` | `submit_rating` with the task it starts |
| `UseProviderScore`, `KeepLocalScore` | `resolve_event` for a rating conflict |
| `OwnerRates`, `WriteLands` | the owner elsewhere; a write of ours, which a provider stamps as rated now |
| `CycleStarts`, `Collect`, `CollectFails`, `CycleStops` | a cycle up to its decision: an import that ends, one that fails after it read the rating, a cycle that is cancelled, fails or dies |
| `Reconcile` | `_ratings` inside `finalize` |

`Value` and `Previous` are the projection of rounded scores to the local one, `Changed`,
`Clock`, `Candidates`, `Ordered`, `Latest` and `Winners` are `resolve`, `Accept` and
`Dispute` what `_ratings` makes of it. A tracker's baseline time is written by its own
import and its value by `_ratings`; a media server's baseline is written as a whole, after
a complete import only.

Simplifications. Time is discrete: a choice of the user and the start of a cycle take an
instant of their own, providers may stamp the same one. The title is rated manually (an
average is never overwritten), not per season; the user does not remove a rating; sources
are approved and keep their account. What a local decision offers is written to all of
`Pushing` or to none (`CycleDelivery` has what happens in between), each write lands in
any order or never.

### PlaybackSessions

Durable: `manual` and `due` (the session a user started by hand, and when it runs out),
`watches` (how many watch events a title has at each minute, added by paths that look
for a duplicate first) and `unlooked` (the titles and minutes at which others added one).
In transactions: `task`,
`subject`, `since`, `locked` (the advisory lock of a title), `ended` and `added` (what is
deleted and inserted and not committed). Memory of the completer: `same` says for which of
the sessions it selected the row is still there, since it deletes by id.

| actions | code |
|---|---|
| `StartSession`, `Heartbeat`, `Dismiss`, `ClearSessions` | the session routes of `routers/history.py` |
| `RemoveEvent`, `Unwatch` | `delete_single_event`, `unwatch_item` |
| `WritesUnlooked` | every writer that does not look: progress edits, season marks, imports, pulls, a mark with `force` |
| `Arrives`, `LooksForDuplicate`, `HandlerCommits`, `HandlerFails` | `complete_manual_session`, `mark_as_watched` and the completed plays of webhooks (`_write_watch_event`): the read, the check under the lock, the end of the transaction |
| `MarkCommits`, `ReadsEarlier`, `InfersEarlier` | what `mark_as_watched` does after its first commit, which releases the lock: it reads which earlier episodes are unwatched and adds a watch for each, without looking again |
| `CompleterSelects`, `CompleterEnds`, `CompleterCommits`, `CompleterRollsBack` | `auto_complete_manual_sessions`, one title at a time, one transaction for all |
| `PlaybackTick`, `PlaybackRestarts` | the clock; `lifespan`, which deletes all sessions |

Simplifications. One user. A deletion and the check after it are one step: a transaction
that waits for the lock holds the row it deleted, which only delays those who want that
row. Sessions that media servers report, partial progress, echoes of pushed watches and
what follows the commit (rewatches, pushes) are left out; a webhook may add no watch
(`HandlerFails`). Watches added without a look are a set: two of them at one minute count
as one, which nothing here tells apart. `find_duplicate_watch_event` sees them
(`Duplicate`); `OneWatchPerViewing` does not speak of them, see 6.

### MC modules

`MCAccountSync` adds symmetry, `MCCycleDelivery` refuses flushes of one batch only.
`MCServices`, `MCStreams` (a streaming connection, and what playback adds to the
history), `MCStreamingLibrary` (the library and the score of a title) and `MCLive`
(cycles and the library) bring together several modules that share no variable: a
behaviour has one of them in `focus`, chosen initially, and the others keep an initial
state, so the states add up instead of multiplying. `MCStreamingLibrary` narrows the
score to the cases that differ: the owner of the media server rates in whole points, the
import of the tracker does not fail half way, and the user gives 72 (which comes back as
70) or 80, never the 70 a provider offers. It and `MCLive` let `push_collection` change
only between the syncs of a connection; choices, deltas, clears and account switches
come at any point of one, and the proofs have the rest. Liveness is then stated as
`focus = "x" /\ XFairness => P`. In `MCStreams` a pull of `ProviderClear` is admitted by
the rule `AccountSync` shows to be exclusive: one job of an account is active. In its
admission an abort begins before the last cycle is admitted, and lasts as long as it likes.
Playback is checked there with every report about one title (`reports`), with two
sessions that run out together while one handler serves the first (`sessions`), or with
marks of a second episode that infer the first beside webhooks for it and writers that do
not look (`episodes`).
`MCServices` keeps the cloud service approved, which halves the states.

## 4. Runs

| run | question | bounds |
|---|---|---|
| `requests` | do cycles keep their promises under requests, cancels, aborts, stops, crashes | 2 cycles, 1 provider; about 2.1 million states |
| `streams` | is admission exclusive beside clears and switches, are cancels honoured; does a clear that dies half way cost local history, and does the provider get what was asked for last; is one viewing kept as one watch | admission: 2 cycles on a streaming connection. Clears: 1 title, 2 runners (one with full and limited pulls whose job may be cancelled, one with limited pulls and cycles). Playback: 2 titles, 2 handlers and the completer, window and runtime of 1, minutes 0 to 2, which leaves room for two watches that are not duplicates; unlooked writers in one of its three foci; about 1.8 million states |
| `live` | does every cycle end, is every follow-up served; is every pending delivery of the library retired | cycles: crashes only; library: as in `library`, without owner edits; fair; about 0.24 million states |
| `batches` | is acknowledged delivered, is nothing stale in flight, do batches retire, and not before every destination has acknowledged (`Outbox`) | 2 batches, 2 destinations, 1 title, 2 scores, 1 edit, 1 switch, refusals at any time; fair; 440 thousand states |
| `library` | library: is an applied delivery at the provider, is what is sent the decision in force, do settled deliveries stay settled. Score: does a settled score stay, does a newer choice of the user stand | 2 connections, 1 title; one connection syncs and is reconfigured. 1 tracker, 1 media server, which is written to, scores 7, 7.2 and 8, 3 instants; about 1.9 million states |
| `services` | statistics: is a clean mark current, is what is removed hidden, is only a leased result published, do they converge. Imports: is only a committed import applied, does a draft have its session, does a cancelled one stay out, does a commit end. Hand-over: was the import delivered before routine sync begins, does it end. Actions: is every mark served and every acknowledgement true, does a deletion settle | 1 scheduler with 1 repair, request or page, 1 change of each revision; 1 session of either origin; 3 pull jobs; 2 streams and 1 cloud with 2 ids for a deletion (one stream was removed), 2 streams for playback; 230 thousand states |
| `cancel_lost`, `followup_lost`, `delivery_orphaned`, `edit_lost`, `choice_lost`, `kept_score` | counterexamples, see 6 | |

Two cycles are enough for what the properties relate: a cycle and the one that
follows, retries or competes with it. A second provider would only run the same
steps on a row of its own: the parent looks at its children through "some" and
"all" alone. Titles of the library meet only in the order in which one dispatch after the
other takes the lock, and a second connection is what a dispatch has besides the one
that syncs. A clear and the pulls beside it decide title by title. Two workers are what
a lease is about: the one that holds it and the one that takes it over. Two ids are what
separates a connection that has settled from one that has not. Three jobs let a
hand-over be overtaken twice. A score needs three instants: a choice, a cycle around it
and one after it; one score that two providers round differently, and one that is apart. The proofs in section 5 remove every bound from the
safety results.

Fairness (`live`, `batches`). Every step of a coroutine that is ready is taken,
because the event loop runs ready tasks in turn and network calls time out. Steps
of a cycle are strongly fair: it waits for an `asyncio.Lock` and a row lock, and
both serve waiters in order. `RetryAutomatic` is weakly fair: it is called every
60 seconds (`_stream_action_retry_scheduler`). `RetryBegins` is strongly fair:
the scheduler retries each minute, and between two cycles it finds the lock free
again and again. `Dispatch` is strongly fair for the same reason: the scheduler
dispatches what is pending, least recently updated first, and the row lock is free
between two holders. Nothing is assumed of users, restarts or providers. `Settles`
and `DeliveriesRetired` therefore have a premise about the world: that crashes and refused
writes stop. The premise lists the steps that may go on for ever (`Undisturbed` of either
module) rather than the ones that must stop: a delivery that dies with nothing left to do
changes what one that ends changes, so forbidding the crash would forbid the retries that
find nothing, and a system that retries for ever would meet no premise at all.
`OwedCyclesServed` ends, within the bound, when no identity for another cycle is left.

Fairness (`services`). `StatsFairness`: the scheduler loops, every await of a worker
returns, clocks advance; nobody is obliged to repair, refresh or open a page.
`ImportsFairness`: a commit's task runs to its end, the page that shows a committing
import polls it, the scheduler erases what has expired. `HandoffFairness`: the retry of
the scheduler runs each minute, cycles and the deliveries they owe end (`CyclesEnd`,
`Settles`). `ActionsFairness`: the scheduler dispatches each minute while something is
pending, a dispatch that began goes on, and the user answers conflicts and confirms
imports; a connection that has another account is imported again, by a scheduled pull
(`pull_sync_interval`) or by the user's own. All of these wait for the row of the user,
which the database hands to every waiter in turn, hence strong fairness. Each property again
has the premise that from some point on only the steps of `StatsCalm`, `ImportsCalm`,
`HandoffCalm` or `ActionsCalm` happen: no more crashes, failed writes or changed minds, and
for actions no answers that leave open what the service holds (`ResetUnclear`), which
`dispatch_stream_actions` takes for newer viewing and asks the user about again and again.

`CHECK_DEADLOCK` is off in the runs of `CycleDelivery`, where both batches are done and
edits and switches are used up, and in `services`, where a hand-over that has ended and
a session that is closed have nothing left to do.

## 5. Proofs

Eight modules prove the safety properties of the passing runs, for every set of cycles,
providers, destinations, connections, titles, workers and scores: `AccountSync_proofs`,
`CycleDelivery_proofs`, `StreamingLibrary_proofs`, `Decisions_proofs` (of `RatingMerge`
and `PlaybackSessions`),
`ProviderClear_proofs`, `StreamActions_proofs`, `Imports_proofs` (of `ImportSessions` and
`ImportHandoff`, each under its own heading) and `StatisticsLease_proofs`. They start from
the named assumptions on the constants, which ask that placeholders differ from values and
that kinds (of cycles' providers, targets, workers) are disjoint or included as the names
say; the library needs none. Each proves the type invariant of its module first; type
invariants are theorems or lemmas only, and no run checks them again.

`AccountSync`. Type correctness first. `PositionsInvariant` ties coroutines to
rows: a cycle past `starting` is running, a worker that is not idle belongs to a
cycle that is pulling, an admitted cycle's children are its own. Admission and
stranded children follow from it, from the fact that both sides of an admission
look at the same rows, and from `Close` failing what is left. `FlagsInvariant`
says which flags of `stats` are set at each position, the session's copy included:
`reconciled` only after the window closed, so a cancel accepted later would have to
find the flag `reconciling` gone, which no whole-value write can cause once it is
in the writer's snapshot. `CancelHonouredTheorem` needs requests not to be split;
the run `cancel_lost` shows that this is necessary. The refinement of `PullCycles`
maps each action to `Open`, `Accept`, `End` or a stutter (`AbstractStep`).

More results need invariants of their own. `EndsOK`: a cycle that delivers has reconciled,
and one that closes without `raised` has reconciled or has a cancel, so `completed` implies
a commit (`CompletedReconciledTheorem`). A graceful stop breaks it, because it reaches the
`finally` block from anywhere without raising. `WindowsOK`: a closed window has no cancel,
in the row and in the copy of the session, and a cycle ends as cancelled only by a cancel or
by a cancelled child. So a batch no retry selects belongs to a cycle that has a cancelled job
and no cancel of its own (`OrphanTheorem`, under switches and aborts too); `ChildrenOK`
excludes such a job while only a cycle's own cancel cancels jobs
(`DeliveryRetryableTheorem`). `HandedOK`: a row hands nothing over before `Finalize`, which
runs once; each action is then a step of `Outbox` or a stutter (`BatchesImplementedTheorem`).
All of these need requests not to be split, like `CancelHonouredTheorem`: a request that
writes back what it read earlier can restore or remove any flag.
`LostUpdatesTheorem` has no such condition: it says of each flag that disappears who took it.
`NoCycleIsStuckTheorem` is the safety half of `CyclesEnd`, under every interference: `AttendedOK`
says that an active row has a coroutine, and who waits for a lock waits for someone who
waits for nobody. What is left to liveness is that steps that are ready are taken.

`CycleDelivery`. The inductive invariant is the conjunction of `Scoped` (what is
in flight belongs to the one job, its destination to its targets), `Marks` (only
targets are done, only accepted batches pending), `Edited` (an item with a local
edit in a queue is counted), `Fences` (the fence of a batch in delivery never runs
ahead of identity versions), `Canonical` (an unsuperseded accepted rating of an
unedited title is canonical), `Carried` (the state in use still holds every such
rating of its job), `InFlightIsCurrent`, `Written` (what the current flush has
sent without failure is at the destination) and `AcknowledgedIsDelivered` itself.
`Canonical` and `Carried` are the reason it is needed: acknowledging is justified
only because no other writer of `rating` ran since the batch was loaded. `OutboxTheorem`
adds `Retained`: a batch is pending exactly while one of its targets is not done, and what
is attempted is not done. `EditsReachTheorem` follows a rating of the user from the edit to
each destination: through the queue of tasks, the writes of a fan-out and the state of a
registered cycle. Of the invariant it needs `Edited` (the tasks of local edits
are about edited titles), since only what is written for an edited title counts as reached.
A destination that refuses writes is the exception of both: `AcknowledgedIsDelivered` does
not hold for a pair in `withheld`, nor `Written` while it is being flushed, and an edit that
fans out while a destination refuses is lost for it (`PassedOver`).

`StreamingLibrary`. The inductive invariant joins the copies of one decision: the
intent, the waiting row (`WaitingIsChosen`), the row a sync keeps (`HeldIsCurrent`),
the row a dispatch loaded (`LoadedIsCurrent`), what it sent but has not committed
(`SentReached`) and the applied row (`RowReached`). `Exclusive` says that what is
under way belongs to the one holder of the lock and is still pending in the
database, so no decision can change it; `Settled` ties a settled row to the copy a
sync keeps; `Undecided` says there is no row and no copy of one without an intent. Each is
stable because the steps that change a decision need the lock, or put the delivery into
`strayed`. That exemption is needed: `choice_lost` is the counterexample without it, and
`QuietStays` has it as well, since a sync that kept its rows writes pending over what a
clear or a change of the connection settled.

`ProviderClear`. `DueInv` is about the queue: a pending intent agrees with the history
while the last word was an edit (`PendingIsTrue`), and while a clear erases, nothing else
has an intent that asks for a title (`ClearIsLast`). `RunInv` is about who runs beside a
clear: only pulls whose job was cancelled, never a cycle. `ErasedInv` is about a title a
clear erased: it is not at the provider (`Gone`), the baseline lists it only under a guard
(`Listed`), and a snapshot that still shows it predates the guard or the last observation
and will be refused (`Shown`). `HistorySurvivesClear` follows because a removal is
inferred from an unguarded baseline that lists the title.

`StreamActions`. A crash puts the rows back to what was committed while the services keep
what was written. Each part of the invariant is therefore a predicate of rows, stated of
two sets of them: those in view of the dispatch and those in `undo`. `Owed` and `Covered`
tie the marker to the rows of its targets (a target that waits without the user's say has
a row for each id), `Cleared` ties an applied row to an id the service has cleared, and
`Dismissed` with `Pushed` says where a resume of ours may still stand. A row that a clear
froze is named in `Owed` and `Dismissed`: nothing moves it any more. `AttendedInv` adds
that a conflict keeps its open review and that nothing waits at a target that does not push
or is gone. So whom a marker waits for has someone to move it, a dispatch or the user,
unless its connection was forgotten or a clear froze its resets
(`DeletionAttendedTheorem`).

`ImportSessions`. `TasksKnow` says what a task may assume when it writes: a commit that
holds the locks finds the session committing, and a failure handler, which holds none,
finds it as it read it or cancelled. `RowsAgree` says what the session, the connection and
the baseline imply of one another. `AppliedIsCommitted` needs both. `CancelledStaysOut` and `DecidedOnce` are
action properties of the same invariant. `DraftKept` (a draft is erased with the decision
about it, and until then is the one the baseline names) gives `CommitAttended`: whoever
asked for a commit finds a task, a poll or the clean-up to end it.

`ImportHandoff`. `OneActive` (one active cycle, no two coroutines share a job) and
`Carried` (a cycle under way is named by the result, unless delivery has happened, and one
that reconciled carried the import) make the outcome of any linked job an answer for the
import. `PullAttended` adds that the active job is followed by the coroutine that admitted
it: neither a race nor a stop leaves one behind that keeps the account busy.

`StatisticsLease`. `StatsInv` adds that a removal is never ahead of the rows and that what
a worker holds was computed by the deployed version. `OverviewCorrect` maps every action to
`Change`, `Remove`, `Generate` or a stutter of `Generations`; the publication needs
`StillCurrent`, checked under the lock under which it is written.

`RatingMerge`. `ClocksInv` orders the clocks: a choice of the user is never after the local
`ratedAt` and never at the instant a cycle starts, and what a cycle has collected of a
tracker has a stamp. A winner is a candidate, hence
not stamped before the local rating, and `RatedMeanwhile` excludes a choice since the start:
`ChoiceStands`. `CalmInv` is about the time after a complete cycle: a provider holds what
its baseline says or a copy of the score, exact or rounded, and what a cycle under way has
read of it is either of the two. So whatever is still a change stands for the score itself
(`ChangesAreEchoes`), the cycle accepts it without effect, and `SettledStays` follows.
`KeptScoreCauseTheorem` needs no invariant, only a case for each action: none but a rating
of the user moves the score and leaves a review open.

`PlaybackSessions`. `LockInv` is about what is added and not committed: its actor holds the
lock of the title, nobody else does, and no committed watch of a path that looks lies
within the window of it (`Recorded`).
The last part is stable because only the holder of a lock commits watches of its title, and
removals take watches away. The completer holds several locks, and adds one watch under
each because it never comes back to a title (`subject` and `locked` are disjoint).
`OneWatchPerViewing` follows at each commit.

Model-checked only: liveness (`CyclesEnd`, `OwedCyclesServed`, `Settles`, `DeliveriesRetired`,
`StatisticsConverge`, `CommitsSettle`, `HandoffsEnd`, `DeletionsSettle`), which needs
fairness and `ENABLED`, beyond the prover. For cycles, commits, hand-overs and deletions the
safety halves above say that something is always there to make the next step. Every other property
of a passing run is a theorem. No module declares a recursive operator.

## 6. Findings

Six statements of the code's own comments, tests and labels do not hold; each has a run whose
counterexample shows it, and an entry under `findings`.

1. `cancel_lost`: an accepted cancel is erased by a coalesced request.
2. `followup_lost`: an accepted follow-up is erased by `persist_delivery`.
3. `delivery_orphaned`: a cycle with a job cancelled by an account switch ends as
   cancelled, with a batch no retry selects.
4. `edit_lost`: a user's rating deferred into a running cycle is forgotten.
5. `choice_lost`: a sync sends the previous library choice and records the new one
   as applied.
6. `kept_score`: "Keep local score" sends the score from when the review was opened, or a
   removal, though the user has rated the title since.

A counterexample shows one way to go wrong. The findings have theorems that say
which ways there are, so that a repair can be known to be complete:

| finding | theorem | the causes, for every interleaving |
|---|---|---|
| `cancel_lost`, `followup_lost` | `LostUpdatesTheorem` | a flag is lost only by `request_automatic_pull` or `persist_delivery` writing a copy in which it is missing |
| `delivery_orphaned` | `OrphanTheorem` | only a job that was cancelled while its cycle was not (or a split request, which is `cancel_lost`) |
| `edit_lost` | `EditsReachTheorem` | only a crash, or a destination that refuses writes when the edit fans out; and for a rating deferred into a cycle its failure, its `finalize` (unless the rating was removed), the end of its delivery, and the task of an older edit deferred later |
| `choice_lost` | `SentIsChosenTheorem`, `AppliedReachedTheorem` | only a row that a sync keeps while the delivery is decided anew, by the user, a provider's change, a clear or an account switch, or a waiting one that a provider's change passes over because `push_collection` is off (`strayed`) |
| `kept_score` | `KeptScoreCauseTheorem` | only a rating of the user while the review is open |

### Observations without a run

Met while modelling; no doc, comment or test of the repository says otherwise, or the
effect is bounded, so no run states them. The models contain the behaviour.

- Imports. A DELETE that is refused (the connection still syncs) leaves the session in
  `_cancelled`, and a later commit of it is taken for cancelled at its next check
  (`routers/netflix_import.py:620-634`). The failure handlers read the session without a
  lock and can overwrite a cancellation with "failed" (`core/netflix_sessions.py:490-503`,
  `1136-1147`). The removal of a connection moves the identity version before it knows
  that it may remove: refused or dead in between, it leaves a baseline that names a
  session nobody can commit. A commit accepted while the previous task is in its `finally`
  is scheduled only by the next poll or restart.
- Hand-over. A graceful stop completes a cycle that has not reconciled, and the hand-over
  takes it for done: `Delivered` names this case.
- Actions. The reset of a replaced connection leaves it in the marker
  (`core/connection_identity.py:184`), which then waits until the user acts. A title deleted
  just after the account was replaced has a reset that waits for the next import of the
  connection: no dispatch writes to it before, and without a schedule nobody starts one. Keeping the
  history for one id releases the connection while the reset of another id is pending. A
  marker that names a removed connection is cleaned up at that user's next dispatch only.
  A clear freezes the pending resets of its connection in the commit of its guard
  (`core/streaming_clear.py:149-158`, `200`) and tells neither marker nor review: the marker
  then waits for nobody, and imports of the title stay blocked until it is viewed again or
  the user acts (`GuardWrites`; `MarkerServed` names the case). With the scope of playback it gives up
  pending dismissals too, and one that fails before it wrote anything leaves a resume of
  ours on a title that was put away. An answer that does not tell whether the title was
  viewed (a Nuvio page of 200 rows, say) is reported as newer viewing, and a user who
  retries the deletion meets the same conflict again (`ResetUnclear`).
- Delivery. A destination that is held back when its turn comes is acknowledged with nothing
  sent (`core/outbound_sync.py:442-449`, `core/sync_delivery.py:128-136`): the batch does not
  return to it, and neither does an edit that fans out meanwhile. The next change of the
  title, or a push of everything, repairs it. `AcknowledgedIsDelivered` and `EditsReach` name
  the case.
- Library. A pull whose job `/sync/abort` cancelled still ends with
  `retry_pending_library_deliveries` (`core/server_sync.py:3178`, `3229-3231`), beside a clear
  that was admitted because no job is active: it writes pending over what the clear settled
  and fills the library again. `QuietStays` exempts it through `strayed`.
- Playback. The completer commits only if it added a watch (`core/manual_sessions.py:55`):
  a session that runs out within the window of another report of the viewing is deleted
  and rolled back at each tick, and once the window has passed a later tick adds a second
  watch of the same viewing. It deletes by id without looking whether the row was still
  there, so a session dismissed, paused or restarted between its select and its delete is
  watched all the same. `mark_as_watched` releases the lock with its first commit, then
  reads which earlier episodes are unwatched and adds a watch for each, with no look at the
  window (`routers/history.py:1961-2022`): a webhook for such an episode, or a second mark,
  in between keeps its viewing twice. Imports, pulls, progress edits and marks of a season
  look at what they loaded before, without the lock, and dates move later
  (`replace_inferred_watch_date`). `OneWatchPerViewing` is about the watches of the paths
  that take the lock, with all the others beside them.
- Statistics. The overview reads the state and the generation separately; one that is
  removed in between is shown as missing once.
- Clears. `ClearFinishes` approves a baseline, also one the user had never confirmed. A
  full resync that is stale may add a title again that was unwatched meanwhile. The
  cancellation check after a fetch is essential: without it a pull whose job was
  aborted carries the emptied account past the clear.

- Scores. An edit on a media server has no time, so it gets the start of the cycle that
  sees it (`core/sync_reconciliation.py:47-51`): made before a choice of the user but read
  for the first time after it, it replaces the choice. The docstring of `resolve` (line 40)
  allows an unknown clock to be ordered only after a choice its baseline has seen;
  `ChoiceStands` therefore asks for a stamp of trackers only. An edit at a provider that is
  older than the local rating, or read by a cycle during which the user rated, is observed
  and never proposed again. A newer report of the value already held does not
  advance `rated_at`. A review proposes the score of the first source by name.
  `is_projected_echo` truncates the provider's score: 8.4 from a media server passes for
  an echo of a local 7.6.

## 7. Not modelled

- Catalogue and metadata, accounts and sharing: the components marked `not_modelled`
  in `PROJECT.json`. Their handlers are one transaction of one request, caches of external
  data, or queries; what they do to the sync core (an edit, a save of an entry) are the
  inputs of the modules above.
- The other categories that `resolve` decides (watched dates, playback, progress, library)
  and the merge of values that are compatible: what they compare is derived from a history,
  and the modules take any decision `finalize` could commit.
- What a provider's reply is parsed into, how records are matched with titles, and how a
  history turns into a status and progress: data, which no property here tells apart.
- Most of the repository by lines is of these kinds: routers that validate and render,
  provider clients, metadata, and the web client.
- Races inside one flush against the user's own edits (a rating read once per flush,
  a task of an edit that answers late) are listed as hazards without a property:
  destinations offer no clock to state one with.
