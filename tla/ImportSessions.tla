--------------------------- MODULE ImportSessions ---------------------------
(***************************************************************************)
(* One streaming history import: preparation, review, commit, and the      *)
(* races of a commit with cancellation, removal of the connection, expiry  *)
(* and restarts (core/netflix_sessions.py, core/connection_imports.py,     *)
(* core/connection_lifecycle.py, routers/netflix_import.py).               *)
(*                                                                         *)
(* The import comes from an uploaded file or from the first snapshot of a  *)
(* connection, in which case the connection is provisional: it waits for   *)
(* the review, and an abandoned review takes it away.  The rows of the     *)
(* session, the connection and its baseline are durable; the sets _running *)
(* and _committing are the tasks themselves (their last step discards the  *)
(* membership) and _cancelled is the variable flag.  A commit holds the    *)
(* row of the user, and that of the session, from its first read to its    *)
(* COMMIT; everybody else who changes a session or removes a connection    *)
(* waits for one of them, except the two failure handlers, which read the  *)
(* session without a lock.                                                 *)
(***************************************************************************)
EXTENDS Integers

CONSTANT Origins  \* where imports come from: a subset of {"file", "connection"}

ASSUME OriginsAssumption == Origins \subseteq {"file", "connection"}

VARIABLES
    origin,    \* where this import comes from
    status,    \* NetflixImportSession.status, "none" before it exists
    payload,   \* the draft is still there: cancellation and commit erase it
    overdue,   \* expires_at has passed
    conn,      \* the connection: with the identity_version of the draft, moved on, or gone
    baseline,  \* StreamBaseline: none, naming the session, or its handoff
    syncing,   \* the job that staged the snapshot is still running
    flag,      \* memory: the session is in _cancelled
    prep, commit,       \* memory: the tasks
    cancelling,         \* memory: a DELETE of the import
    removing,           \* memory: a DELETE of the connection
    applied,   \* history: commits of the viewing history
    signalled  \* history: a removal has invalidated the draft and not ended

importRows == <<status, payload, overdue, conn, baseline, syncing>>
importMemory == <<flag, prep, commit, cancelling, removing>>
importVars == <<origin, importRows, importMemory, applied, signalled>>

Drafted == {"preparing", "review", "committing", "failed"}

RowsTypeOK ==
    /\ origin \in {"file", "connection"}
    /\ status \in Drafted \cup {"none", "committed", "cancelled"}
    /\ conn \in {"own", "moved", "gone"}
    /\ baseline \in {"none", "draft", "handoff"}
    /\ applied \in 0..2

TasksTypeOK ==
    /\ prep \in {"none", "queued", "working", "breaking", "broken"}
    /\ commit \in {"none", "queued", "applying", "checked", "pulling",
                   "aborting", "rejected", "ending", "breaking", "broken"}
    /\ cancelling \in {"idle", "locking"}
    /\ removing \in {"idle", "bumping", "locking"}

FlagsTypeOK ==
    /\ payload \in BOOLEAN /\ overdue \in BOOLEAN /\ syncing \in BOOLEAN
    /\ flag \in BOOLEAN /\ signalled \in BOOLEAN

ImportsTypeOK == RowsTypeOK /\ TasksTypeOK /\ FlagsTypeOK

ImportsInit ==
    /\ origin \in Origins
    /\ status = "none" /\ payload = FALSE /\ overdue = FALSE
    /\ conn = IF origin = "connection" THEN "own" ELSE "gone"
    /\ baseline = "none" /\ syncing = FALSE
    /\ flag = FALSE /\ prep = "none" /\ commit = "none"
    /\ cancelling = "idle" /\ removing = "idle"
    /\ applied = 0 /\ signalled = FALSE

---------------------------------------------------------------------------
(* Helpers.                                                                *)

\* Nobody holds the row of the user or that of the session.
Unlocked == commit \notin {"applying", "checked"}

\* Mutant: the identity is only compared when the draft is read.
SameAccountAssumed == TRUE

\* finish_import: the draft is still that of the account behind the connection.
SameAccount == origin = "file" \/ conn = "own"

\* What _load_owned requires of a draft of a connection.
Available ==
    /\ status # "none"
    /\ payload /\ origin = "connection" /\ status \in Drafted => conn = "own" /\ baseline = "draft"

\* Mutant: the provisional connection is left behind.
RemoveAbandonedNever == UNCHANGED <<conn, baseline>>

\* remove_abandoned_connection.
RemoveAbandoned ==
    IF payload /\ conn = "own" /\ baseline = "draft"
    THEN conn' = "gone" /\ baseline' = "none"
    ELSE UNCHANGED <<conn, baseline>>

\* status = "cancelled", with the draft erased.
Cancelled == status' = "cancelled" /\ payload' = FALSE

\* The finally clauses.
PrepareFinishes == prep' = "none" /\ flag' = FALSE
CommitFinishes  == commit' = "none" /\ flag' = FALSE

---------------------------------------------------------------------------
(* Admission and preparation.                                              *)

UploadHistory ==
    /\ origin = "file" /\ status = "none"
    /\ status' = "preparing" /\ payload' = TRUE
    /\ prep' = "queued"
    /\ UNCHANGED <<origin, overdue, conn, baseline, syncing, flag, commit,
                   cancelling, removing, applied, signalled>>

\* stage_first_snapshot, inside the pull of the new connection.
StageFirstSnapshot ==
    /\ origin = "connection" /\ status = "none" /\ conn = "own"
    /\ status' = "review" /\ payload' = TRUE
    /\ baseline' = "draft" /\ syncing' = TRUE
    /\ UNCHANGED <<origin, overdue, conn, importMemory, applied, signalled>>

StagingEnds ==
    /\ syncing
    /\ syncing' = FALSE
    /\ UNCHANGED <<origin, status, payload, overdue, conn, baseline, importMemory, applied, signalled>>

PrepareSession ==
    /\ prep = "queued"
    /\ IF status = "preparing"
       THEN prep' \in {"working", "breaking"} /\ UNCHANGED flag
       ELSE PrepareFinishes
    /\ UNCHANGED <<origin, importRows, commit, cancelling, removing, applied, signalled>>

PrepareEnds ==
    /\ prep = "working"
    /\ \/ prep' = "breaking" /\ UNCHANGED <<flag, status>>
       \/ /\ PrepareFinishes
          /\ status' = IF status = "preparing" /\ ~flag THEN "review" ELSE status
    /\ UNCHANGED <<origin, payload, overdue, conn, baseline, syncing, commit,
                   cancelling, removing, applied, signalled>>

\* The failure handler reads without a lock ...
PrepareFails ==
    /\ prep = "breaking"
    /\ IF status = "preparing" THEN prep' = "broken" /\ UNCHANGED flag ELSE PrepareFinishes
    /\ UNCHANGED <<origin, importRows, commit, cancelling, removing, applied, signalled>>

\* ... and writes later.
PrepareFailed ==
    /\ prep = "broken"
    /\ status' = "failed"
    /\ PrepareFinishes
    /\ UNCHANGED <<origin, payload, overdue, conn, baseline, syncing, commit,
                   cancelling, removing, applied, signalled>>

---------------------------------------------------------------------------
(* The commit.                                                             *)

\* POST /{session_id}/commit.  While the previous task is ending it is still in
\* _committing, and nothing is scheduled.
AcceptCommit ==
    /\ status = "review" /\ ~overdue /\ Available /\ Unlocked
    /\ status' = "committing"
    /\ commit' = IF commit = "none" THEN "queued" ELSE commit
    /\ UNCHANGED <<origin, payload, overdue, conn, baseline, syncing, flag, prep,
                   cancelling, removing, applied, signalled>>

\* Mutant: only a preparation is started again.
PollPreparing ==
    /\ ~overdue /\ Available
    /\ status = "preparing" /\ prep = "none" /\ prep' = "queued"
    /\ UNCHANGED <<origin, importRows, flag, commit, cancelling, removing, applied, signalled>>

\* GET /{session_id}, or a second POST with the key, starts what is not running.
PollImport ==
    /\ ~overdue /\ Available
    /\ \/ status = "preparing" /\ prep = "none" /\ prep' = "queued" /\ UNCHANGED commit
       \/ status = "committing" /\ commit = "none" /\ commit' = "queued" /\ UNCHANGED prep
    /\ UNCHANGED <<origin, importRows, flag, cancelling, removing, applied, signalled>>

CommitBegins ==
    /\ commit = "queued"
    /\ IF status = "committing"
       THEN commit' = (IF flag THEN "aborting" ELSE "applying") /\ UNCHANGED flag
       ELSE CommitFinishes
    /\ UNCHANGED <<origin, importRows, prep, cancelling, removing, applied, signalled>>

\* The history is applied; then _cancelled and the identity are read.
CommitChecks ==
    /\ commit = "applying"
    /\ commit' = IF flag \/ ~SameAccount THEN "aborting" ELSE "checked"
    /\ UNCHANGED <<origin, importRows, flag, prep, cancelling, removing, applied, signalled>>

CommitEnds ==
    /\ commit = "checked"
    /\ IF flag
       THEN commit' = "aborting" /\ UNCHANGED <<status, payload, overdue, baseline, applied>>
       ELSE /\ status' = "committed" /\ payload' = FALSE /\ overdue' = FALSE
            /\ baseline' = IF baseline = "draft" THEN "handoff" ELSE baseline
            /\ applied' = applied + 1
            /\ commit' = "pulling"
    /\ UNCHANGED <<origin, conn, syncing, flag, prep, cancelling, removing, signalled>>

\* The transaction rolls back: a review is needed, or anything else failed.
CommitRaises ==
    /\ commit \in {"applying", "checked"}
    /\ commit' \in {"rejected", "breaking"}
    /\ UNCHANGED <<origin, importRows, flag, prep, cancelling, removing, applied, signalled>>

\* _pull_committed_import returns or raises (ImportHandoff).
PullEnds ==
    /\ commit = "pulling"
    /\ \/ commit' \in {"rejected", "breaking"} /\ UNCHANGED flag
       \/ CommitFinishes
    /\ UNCHANGED <<origin, importRows, prep, cancelling, removing, applied, signalled>>

\* except ImportCancelled.
CommitAborts ==
    /\ commit = "aborting"
    /\ IF status = "committing"
       THEN RemoveAbandoned /\ Cancelled
       ELSE UNCHANGED <<status, payload, conn, baseline>>
    /\ CommitFinishes
    /\ UNCHANGED <<origin, overdue, syncing, prep, cancelling, removing, applied, signalled>>

\* Mutant: the status is not read again before the draft is reopened.
CommitRejectedAnyway ==
    /\ commit = "rejected"
    /\ status' = "review" /\ commit' = "ending"
    /\ UNCHANGED <<origin, payload, overdue, conn, baseline, syncing, flag, prep,
                   cancelling, removing, applied, signalled>>

\* except ValueError.
CommitRejected ==
    /\ commit = "rejected"
    /\ status' = IF status = "committing" THEN "review" ELSE status
    /\ commit' = "ending"
    /\ UNCHANGED <<origin, payload, overdue, conn, baseline, syncing, flag, prep,
                   cancelling, removing, applied, signalled>>

\* The session is open for review again before the finally clause runs.
CommitReturns ==
    /\ commit = "ending"
    /\ CommitFinishes
    /\ UNCHANGED <<origin, importRows, prep, cancelling, removing, applied, signalled>>

\* except Exception, which reads without a lock ...
CommitFails ==
    /\ commit = "breaking"
    /\ IF status = "committing" THEN commit' = "broken" /\ UNCHANGED flag ELSE CommitFinishes
    /\ UNCHANGED <<origin, importRows, prep, cancelling, removing, applied, signalled>>

\* ... and writes later.
CommitFailed ==
    /\ commit = "broken"
    /\ status' = "failed"
    /\ CommitFinishes
    /\ UNCHANGED <<origin, payload, overdue, conn, baseline, syncing, prep,
                   cancelling, removing, applied, signalled>>
---------------------------------------------------------------------------
(* Cancellation of the import, removal of the connection, expiry, restart.  *)

\* DELETE /{session_id} signals the worker of its process before it waits.
CancelImport ==
    /\ cancelling = "idle" /\ ~overdue /\ Available
    /\ cancelling' = "locking"
    /\ flag' \in (IF status = "committing" THEN BOOLEAN ELSE {flag})
    /\ flag => flag'
    /\ UNCHANGED <<origin, importRows, prep, commit, removing, applied, signalled>>

\* Then, with the locks: it may be too late, the draft may be gone, and the
\* removal of a connection whose sync is running refuses and rolls back, with
\* the session left in _cancelled.
CancelLocked ==
    /\ cancelling = "locking" /\ Unlocked
    /\ cancelling' = "idle"
    /\ \/ /\ status = "committed"
          /\ flag' \in {FALSE, flag}
          /\ UNCHANGED <<status, payload, conn, baseline>>
       \/ /\ status \in Drafted /\ overdue
          /\ RemoveAbandoned /\ Cancelled
          /\ UNCHANGED flag
       \/ /\ status = "cancelled" \/ (~overdue /\ ~Available)
          /\ UNCHANGED <<flag, status, payload, conn, baseline>>
       \/ /\ status \in Drafted /\ ~overdue /\ Available
          /\ flag' \in {TRUE, flag}
          /\ IF payload /\ conn = "own"
             THEN IF syncing
                  THEN UNCHANGED <<status, payload, conn, baseline>>
                  ELSE conn' = "gone" /\ baseline' = "none" /\ Cancelled
             ELSE Cancelled /\ UNCHANGED <<conn, baseline>>
    /\ UNCHANGED <<origin, overdue, syncing, prep, commit, removing, applied, signalled>>

\* DELETE of the connection: signal_connection_import_cancellation finds the
\* committing draft and marks it for the worker of its process ...
RemovalSignals ==
    /\ removing = "idle" /\ conn # "gone"
    /\ IF payload /\ status = "committing"
       THEN /\ flag' \in {commit # "none" \/ flag, flag}
            /\ removing' = "bumping"
       ELSE removing' = "locking" /\ UNCHANGED flag
    /\ UNCHANGED <<origin, importRows, prep, commit, cancelling, applied, signalled>>

\* ... commits a new identity version for the worker of any other ...
RemovalBumps ==
    /\ removing = "bumping"
    /\ conn' = IF conn = "own" THEN "moved" ELSE conn
    /\ signalled' = (signalled \/ conn = "own")
    /\ removing' = "locking"
    /\ UNCHANGED <<origin, status, payload, overdue, baseline, syncing, flag, prep,
                   commit, cancelling, applied>>

\* ... and removes the connection under the lock of the user, unless its sync
\* is running.
RemovalLocked ==
    /\ removing = "locking" /\ Unlocked
    /\ removing' = "idle"
    /\ IF conn = "gone" \/ syncing
       THEN UNCHANGED <<status, payload, conn, baseline, signalled>>
       ELSE /\ conn' = "gone" /\ baseline' = "none" /\ signalled' = FALSE
            /\ IF payload /\ status \in Drafted
               THEN Cancelled ELSE UNCHANGED <<status, payload>>
    /\ UNCHANGED <<origin, overdue, syncing, flag, prep, commit, cancelling, applied>>

\* Another account behind the same connection: reset_stream_connection_state.
ReplaceAccount ==
    /\ conn # "gone" /\ ~syncing /\ Unlocked
    /\ conn' = "moved" /\ baseline' = "none" /\ signalled' = FALSE
    /\ IF payload /\ status \in Drafted
       THEN Cancelled ELSE UNCHANGED <<status, payload>>
    /\ UNCHANGED <<origin, overdue, syncing, importMemory, applied>>

DraftExpires ==
    /\ status \in Drafted /\ ~overdue
    /\ overdue' = TRUE
    /\ UNCHANGED <<origin, status, payload, conn, baseline, syncing, importMemory, applied, signalled>>

\* cleanup_expired_netflix_imports skips a locked row; a request that finds an
\* expired draft does the same (_load_owned).
CleanupExpired ==
    /\ overdue /\ status \in Drafted /\ Unlocked
    /\ RemoveAbandoned /\ Cancelled
    /\ UNCHANGED <<origin, overdue, syncing, importMemory, applied, signalled>>

\* The process dies; lifespan erases what has expired, fails the running jobs
\* and resumes the rest.
RestartImports ==
    /\ IF overdue /\ status \in Drafted
       THEN RemoveAbandoned /\ Cancelled
       ELSE UNCHANGED <<status, payload, conn, baseline>>
    /\ syncing' = FALSE
    /\ flag' = FALSE /\ cancelling' = "idle" /\ removing' = "idle"
    /\ prep' = IF status' = "preparing" THEN "queued" ELSE "none"
    /\ commit' = IF status' = "committing" THEN "queued" ELSE "none"
    /\ UNCHANGED <<origin, overdue, applied, signalled>>

---------------------------------------------------------------------------
(* The specification.                                                      *)

PrepareWorks == PrepareSession \/ PrepareEnds \/ PrepareFails \/ PrepareFailed

CommitWorks ==
    \/ CommitBegins \/ CommitChecks \/ CommitEnds \/ CommitRaises \/ PullEnds
    \/ CommitAborts \/ CommitRejected \/ CommitReturns \/ CommitFails \/ CommitFailed

ImportsCalm ==
    \/ UploadHistory \/ StageFirstSnapshot \/ StagingEnds
    \/ PrepareWorks \/ CommitWorks
    \/ AcceptCommit \/ PollImport
    \/ CancelImport \/ CancelLocked
    \/ RemovalSignals \/ RemovalBumps \/ RemovalLocked \/ ReplaceAccount
    \/ DraftExpires \/ CleanupExpired

ImportsNext == ImportsCalm \/ RestartImports

ImportsSpec == ImportsInit /\ [][ImportsNext]_importVars

(***************************************************************************)
(* Tasks run to their end, the page that shows a committing import polls   *)
(* it, and the scheduler erases what has expired.  Nobody is obliged to    *)
(* cancel, and a draft need not expire.                                    *)
(***************************************************************************)
ImportsFairness ==
    WF_importVars(CommitWorks) /\ WF_importVars(PollImport) /\ WF_importVars(CleanupExpired)

FairImportsSpec == ImportsSpec /\ ImportsFairness

---------------------------------------------------------------------------
(* Properties.                                                             *)

\* What the tasks know of the session: one that holds the locks, or has only to
\* write, finds it as it left it or cancelled.
TasksKnow ==
    /\ commit \in {"applying", "checked"} => status = "committing"
    /\ commit = "checked" => origin = "file" \/ conn = "own" \/ removing = "locking"
    /\ commit = "broken" => status \in {"committing", "cancelled"}
    /\ prep = "broken" => status \in {"preparing", "cancelled"}
    /\ prep # "none" => origin = "file"
    /\ status \in {"review", "committing", "committed"} \/ commit # "none" => prep = "none"
    /\ status \in {"none", "preparing"} => commit = "none"

\* What the rows say of each other.
RowsAgree ==
    /\ status \in {"preparing", "review", "committing"} => payload
    /\ status = "preparing" => origin = "file"
    /\ status = "none" => baseline = "none"
    /\ origin = "file" => conn = "gone" /\ baseline = "none"
    /\ baseline = "draft" => conn = "own" \/ signalled

\* The viewing history is applied once if the import is committed and never
\* otherwise, and only the commit lets the connection into routine sync: no
\* retry, poll, resumed task or late failure handler tells the user another
\* outcome than the one the database has (_commit_session, finish_import).
AppliedIsCommitted ==
    /\ applied = IF status = "committed" THEN 1 ELSE 0
    /\ baseline = "handoff" => status = "committed"

\* An import that was cancelled, whoever cancelled it, is not applied later by
\* a task that was scheduled, queued or under way; and the history of one
\* account is not applied behind another, nor behind a removal that had
\* signalled before the worker looked (_commit_session against
\* cancel_netflix_import, signal_connection_import_cancellation,
\* reset_stream_connection_state and cleanup).
CancelledStaysOut ==
    [][applied' # applied =>
           /\ status = "committing"
           /\ origin = "file" \/ conn = "own" \/ removing = "locking"]_importVars

\* A connection that waits for the review of a draft has that draft: its
\* baseline never outlives the session and locks the connection out of sync,
\* except after the signal of a removal that was then refused or lost
\* (remove_abandoned_connection, cancel_connection_imports).
DraftHasSession ==
    baseline = "draft" => (status \in Drafted /\ payload) \/ signalled

\* A commit the user has asked for comes to an end, through the last restart
\* and through tasks that end while it is accepted and leave it without one
\* (get_netflix_import, _schedule_commit); only the signal of a removal may
\* leave it waiting.
CommitSettles ==
    <>[][ImportsCalm]_importVars =>
        (status = "committing" ~> status # "committing" \/ signalled)

\* The inductive invariant.
ImportsInv == ImportsTypeOK /\ TasksKnow /\ RowsAgree /\ AppliedIsCommitted /\ DraftHasSession
=============================================================================
