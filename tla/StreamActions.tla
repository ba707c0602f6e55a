--------------------------- MODULE StreamActions ---------------------------
(* What the user decides about a title - deleting it, starting it, putting *)
(* it away - as durable work for the connected services: one row for each  *)
(* reset of a deleted title (core/stream_actions.py, core/cloud_actions.py *)
(* ), one for each resume or dismissal of a tracked one, and the deletion  *)
(* marker that keeps imports from bringing a deleted title back until      *)
(* every service has acknowledged (core/deletion_markers.py).              *)
(*                                                                         *)
(* One title of one user.  Every request and every dispatch takes the row  *)
(* of the user first, so a dispatch is a transaction nobody looks into:    *)
(* the variables are its view, `undo` what a crash falls back to - the     *)
(* provider keeps what was already written.  An import of a pull cycle     *)
(* (dispatches return while one is active) is a step between dispatches.   *)
(* A connection pushes or does not: push_watched and push_playback are one *)
(* flag here, and `ready` stands for everything                            *)
(* require_stream_reconciliation asks beside open conflicts.               *)
EXTENDS FiniteSets

CONSTANTS
    Streams,    \* Stremio and Nuvio connections
    Clouds,     \* Trakt, SIMKL, MDBList
    Ids,        \* the ids a title has in the library of a connection
    Unmarked    \* the title has no deletion marker

Targets == Streams \cup Clouds

\* A reset row of a connection is about one id, that of a cloud service about
\* the title.
Resets == (Streams \X Ids) \cup {<<t, t>> : t \in Clouds}

ASSUME ActionsAssumption ==
    /\ Streams \cap Clouds = {}
    /\ Ids \cap {"upsert", "dismiss"} = {}
    /\ \A targets \in SUBSET Targets : Unmarked # targets

VARIABLES
    entry,      \* the tracked entry: "none", "watching", "resting"
    marker,     \* TrackingDeletion.pending_connections
    notice,     \* the outbound_pending review of the deletion
    reset,      \* the state of each reset row, "none" where there is none
    queued,     \* connection -> its pending "upsert" and "dismiss" rows, and
                \* "frozen" for a dismissal that a clear of it froze
    disputed,   \* connection -> open conflict reviews, by kind of row
    pushing,    \* the targets whose push flags are on
    ready,      \* the targets the user may write to
    remote,     \* what a service holds: "clear", "old", or viewed since, "new"
    shown,      \* what a connection shows: "theirs", or what we last wrote;
                \* "unknown" before its first import, "gone" once removed
    waived,     \* targets released by the user, not by an acknowledgement
    undo,       \* inside a dispatch <<rows as last committed>>, else <<>>
    todo        \* the rows a dispatch has not come to yet

actionRows == <<entry, marker, notice, reset, queued, disputed>>
actionVars == <<entry, marker, notice, reset, queued, disputed, pushing,
                ready, remote, shown, waived, undo, todo>>

ResetStates == {"none", "pending", "conflict", "applied", "cancelled", "cleared"}
Plays == {"upsert", "dismiss"}
PlayRows == Plays \cup {"frozen"}
Kinds == {"reset", "play"}
Notices == {"none", "pending", "confirmed", "corrected"}

\* The rows a dispatch may change and a crash restores.
RowViews == [marker : {Unmarked} \cup SUBSET Targets, notice : Notices,
             reset : [Resets -> ResetStates],
             queued : [Streams -> SUBSET PlayRows],
             disputed : [Streams -> SUBSET Kinds]]

RowView == [marker |-> marker, notice |-> notice, reset |-> reset,
            queued |-> queued, disputed |-> disputed]

ActionsTypeOK ==
    /\ entry \in {"none", "watching", "resting"}
    /\ RowView \in RowViews
    /\ pushing \subseteq Targets /\ ready \subseteq Targets
    /\ waived \subseteq Targets
    /\ remote \in [Resets -> {"clear", "old", "new"}]
    /\ shown \in [Streams -> {"theirs", "resume", "hidden", "unknown", "gone"}]
    /\ undo = <<>> \/ (undo = <<undo[1]>> /\ undo[1] \in RowViews)
    /\ todo \subseteq Resets \cup (Streams \X Plays)

\* A title in progress on the connections that are `there`; any of the targets
\* may have its push flags off.
ActionsInit ==
    /\ entry = "watching" /\ marker = Unmarked /\ notice = "none"
    /\ reset = [r \in Resets |-> "none"]
    /\ queued = [c \in Streams |-> {}] /\ disputed = [c \in Streams |-> {}]
    /\ \E there \in SUBSET Streams :
        /\ pushing \in SUBSET (there \cup Clouds)
        /\ ready = there \cup Clouds
        /\ remote = [r \in Resets |-> IF r[1] \in ready THEN "new" ELSE "clear"]
        /\ shown = [c \in Streams |-> IF c \in there THEN "theirs" ELSE "gone"]
    /\ waived = Targets /\ undo = <<>> /\ todo = {}

\* Nobody holds the row of the user.
Idle == undo = <<>>

RowsOf(t) == {r \in Resets : r[1] = t}
Live(t) == \E r \in RowsOf(t) : reset[r] \in {"pending", "conflict"}

\* The marker without the targets of `gone`; its review follows when it
\* empties.
LetGo(gone, verdict) ==
    IF marker = Unmarked THEN UNCHANGED <<marker, notice>>
    ELSE /\ marker' = marker \ gone
         /\ notice' = IF marker \subseteq gone /\ notice = "pending"
                      THEN verdict ELSE notice

---------------------------------------------------------------------------
(* Requests of the user.                                                   *)

\* remove_entry: the rows and reviews of the title go; every target that
\* pushes and knows the title gets a reset for each id; what was viewed up to
\* now is what the deletion covers.
DeleteTitle ==
    LET asked == {t \in pushing : RowsOf(t) # {}} IN
    /\ Idle
    /\ entry' = "none"
    /\ reset' = [r \in Resets |-> IF r[1] \in asked THEN "pending" ELSE "none"]
    /\ marker' = asked
    /\ notice' = IF asked = {} THEN "none" ELSE "pending"
    /\ queued' = [c \in Streams |-> {}] /\ disputed' = [c \in Streams |-> {}]
    /\ remote' = [r \in Resets |-> IF remote[r] = "new" THEN "old" ELSE remote[r]]
    /\ waived' = Targets \ asked
    /\ UNCHANGED <<pushing, ready, shown, undo, todo>>

\* Mutant of Requeued: a dismissal replaces the resume that is still queued.
RequeuedInstead(status, c) ==
    IF c \notin pushing THEN queued[c]
    ELSE IF status = "resting"
    THEN IF "upsert" \in queued[c] THEN queued[c] \ {"upsert"}
         ELSE (queued[c] \ {"frozen"}) \cup {"dismiss"}
    ELSE (queued[c] \ {"dismiss", "frozen"})
         \cup (IF c \in ready THEN {"upsert"} ELSE {})

\* The play rows after a decision for `status`: putting the title away queues
\* a dismissal beside a resume that waits, unless the connection was never
\* imported; starting it cancels the dismissal and queues a resume.
Requeued(status, c) ==
    IF c \notin pushing THEN queued[c]
    ELSE IF status = "resting"
    THEN IF shown[c] = "unknown" THEN queued[c]
         ELSE (queued[c] \ {"frozen"}) \cup {"dismiss"}
    ELSE (queued[c] \ {"dismiss", "frozen"})
         \cup (IF c \in ready THEN {"upsert"} ELSE {})

\* _save_entry with a status the entry did not have: adding a deleted title
\* again drops its marker and the review of its deletion; the reset rows stay.
SaveEntry(status) ==
    /\ Idle
    /\ status # entry
    /\ entry' = status
    /\ IF entry = "none" THEN marker' = Unmarked /\ notice' = "none"
                         ELSE UNCHANGED <<marker, notice>>
    /\ queued' = [c \in Streams |-> Requeued(status, c)]
    /\ UNCHANGED <<reset, disputed, pushing, ready, remote, shown, waived,
                   undo, todo>>

Stuck(c) == {r \in RowsOf(c) : reset[r] = "conflict"}

\* Retrying stamps the rows with the time of the answer, so the viewing seen so
\* far is covered.
RetryDeletion(c) ==
    /\ reset' = [r \in Resets |-> IF r \in Stuck(c) THEN "pending" ELSE reset[r]]
    /\ remote' = [r \in Resets |-> IF r \in Stuck(c) /\ remote[r] = "new"
                                   THEN "old" ELSE remote[r]]
    /\ UNCHANGED <<marker, notice, waived>>

\* Mutant of KeepHistory: the marker lets the connection go, its review is
\* forgotten.
KeepHistoryQuietly(c) ==
    /\ reset' = [r \in Resets |-> IF r \in Stuck(c) THEN "cancelled" ELSE reset[r]]
    /\ marker' = IF marker = Unmarked THEN Unmarked ELSE marker \ {c}
    /\ waived' = waived \cup {c}
    /\ UNCHANGED <<remote, notice>>

\* Keeping cancels the rows in conflict and releases the connection.
KeepHistory(c) ==
    /\ reset' = [r \in Resets |-> IF r \in Stuck(c) THEN "cancelled" ELSE reset[r]]
    /\ LetGo({c}, "corrected")
    /\ waived' = waived \cup {c}
    /\ UNCHANGED remote

\* Mutant of ResolveDeletion: a retry closes the review and leaves the row.
ResolveDeletionOnly(c, verdict) ==
    /\ Idle
    /\ "reset" \in disputed[c]
    /\ disputed' = [disputed EXCEPT ![c] = @ \ {"reset"}]
    /\ \/ verdict = "confirm" /\ UNCHANGED <<reset, remote, marker, notice, waived>>
       \/ verdict = "keep" /\ KeepHistory(c)
    /\ UNCHANGED <<entry, queued, pushing, ready, shown, undo, todo>>

\* resolve_event on a deletion_conflict.
ResolveDeletion(c, verdict) ==
    /\ Idle
    /\ "reset" \in disputed[c]
    /\ disputed' = [disputed EXCEPT ![c] = @ \ {"reset"}]
    /\ \/ verdict = "confirm" /\ RetryDeletion(c)
       \/ verdict = "keep" /\ KeepHistory(c)
    /\ UNCHANGED <<entry, queued, pushing, ready, shown, undo, todo>>

\* resolve_event on a conflict of a tracked title: the answer is a status,
\* queued again for every connection; without an entry it is refused.
ResolvePlayback(c, status) ==
    /\ Idle
    /\ "play" \in disputed[c] /\ entry # "none"
    /\ disputed' = [disputed EXCEPT ![c] = @ \ {"play"}]
    /\ entry' = status
    /\ queued' = [d \in Streams |-> Requeued(status, d)]
    /\ UNCHANGED <<marker, notice, reset, pushing, ready, remote, shown,
                   waived, undo, todo>>

\* Mutant of Cleanup: the rows are cancelled, the marker is not settled.
CleanupUnsettled(kind, on) ==
    LET off == kind \ on IN
    /\ reset' = [r \in Resets |->
                   IF r[1] \in off /\ reset[r] \in {"pending", "conflict"}
                   THEN "cancelled" ELSE reset[r]]
    /\ queued' = [c \in Streams |-> IF c \in off THEN {} ELSE queued[c]]
    /\ disputed' = [c \in Streams |-> IF c \in off THEN {} ELSE disputed[c]]
    /\ UNCHANGED <<marker, notice, waived>>

\* cleanup_disabled_stream_actions and cleanup_disabled_cloud_actions: work for
\* the targets of a kind that no longer push is cancelled and the marker lets
\* them go, the ones included whose connection is no longer there.
Cleanup(kind, on) ==
    LET off == kind \ on IN
    /\ reset' = [r \in Resets |->
                   IF r[1] \in off /\ reset[r] \in {"pending", "conflict"}
                   THEN "cancelled" ELSE reset[r]]
    /\ queued' = [c \in Streams |-> IF c \in off THEN {} ELSE queued[c]]
    /\ disputed' = [c \in Streams |-> IF c \in off THEN {} ELSE disputed[c]]
    /\ LetGo(off, "corrected")
    /\ waived' = waived \cup off

KindOf(t) == IF t \in Streams THEN Streams ELSE Clouds

\* A target's push flags are switched off: its work is dropped with them, and
\* what it shows is no longer for us to correct.
SwitchOff(t) ==
    /\ Idle
    /\ t \in pushing
    /\ pushing' = pushing \ {t}
    /\ Cleanup(KindOf(t), pushing')
    /\ shown' = [c \in Streams |-> IF c = t /\ shown[c] # "unknown"
                                    THEN "theirs" ELSE shown[c]]
    /\ UNCHANGED <<entry, ready, remote, undo, todo>>

SwitchOn(t) ==
    /\ Idle
    /\ t \notin pushing
    /\ t \in Streams => shown[t] # "gone"
    /\ pushing' = pushing \cup {t}
    /\ UNCHANGED <<actionRows, ready, remote, shown, waived, undo, todo>>

\* reset_stream_connection_state: the rows, reviews and baseline of a
\* connection go; the marker of the deletion is not told.
Forget(c) ==
    /\ Idle
    /\ shown[c] # "gone"
    /\ reset' = [r \in Resets |-> IF r[1] = c THEN "none" ELSE reset[r]]
    /\ queued' = [queued EXCEPT ![c] = {}]
    /\ disputed' = [disputed EXCEPT ![c] = {}]
    /\ ready' = ready \ {c}
    /\ waived' = waived \cup {c}
    /\ UNCHANGED <<entry, marker, notice, undo, todo>>

\* The connection gets another account, which may have its own history.
SwapAccount(c) ==
    /\ Forget(c)
    /\ \E held \in {"clear", "new"} :
        remote' = [r \in Resets |-> IF r[1] = c THEN held ELSE remote[r]]
    /\ shown' = [shown EXCEPT ![c] = "unknown"]
    /\ UNCHANGED pushing

\* delete_connection: a later connection has another id.
RemoveConnection(c) ==
    /\ Forget(c)
    /\ remote' = [r \in Resets |-> IF r[1] = c THEN "clear" ELSE remote[r]]
    /\ shown' = [shown EXCEPT ![c] = "gone"]
    /\ pushing' = pushing \ {c}

\* A new first import begins, or the approval of a service lapses.
StopsWrites(t) ==
    /\ Idle
    /\ t \in ready
    /\ ready' = ready \ {t}
    /\ UNCHANGED <<actionRows, pushing, remote, shown, waived, undo, todo>>

\* The summary of an import is confirmed, or a clear that wrote nothing gives the
\* approval back.
AllowsWrites(t) ==
    /\ Idle
    /\ t \notin ready
    /\ t \in Streams => shown[t] \notin {"unknown", "gone"}
    /\ ready' = ready \cup {t}
    /\ UNCHANGED <<actionRows, pushing, remote, shown, waived, undo, todo>>

Frozen(c) == IF queued[c] \cap {"dismiss", "frozen"} # {} THEN {"frozen"} ELSE {}

\* The guard of a clear of the connection: writes stop, and with that commit
\* _freeze_outbound_work gives up the pending resets (a clear of the history or
\* of the playback) and the pending play rows (of the playback).  Rows in
\* conflict, the marker and the review of the deletion are not told.
GuardWrites(c) ==
    /\ Idle
    /\ shown[c] # "gone"
    /\ ready' = ready \ {c}
    /\ shown' = [shown EXCEPT ![c] = IF @ = "unknown" THEN "theirs" ELSE @]
    /\ \E history, playback \in BOOLEAN :
        /\ reset' = IF history \/ playback
             THEN [r \in Resets |-> IF r[1] = c /\ reset[r] = "pending"
                                   THEN "cleared" ELSE reset[r]]
             ELSE reset
        /\ queued' = IF playback THEN [queued EXCEPT ![c] = Frozen(c)] ELSE queued
    /\ UNCHANGED <<entry, marker, notice, disputed, pushing, remote, waived, undo,
                   todo>>

\* The clear ends: it may have failed before, amid or after the writes, and only
\* if it completed the connection may be written to again.
ClearEnds(c) ==
    /\ Idle
    /\ shown[c] # "gone"
    /\ c \notin ready
    /\ \E gone \in SUBSET RowsOf(c) :
        remote' = [r \in Resets |-> IF r \in gone THEN "clear" ELSE remote[r]]
    /\ shown' \in {shown, [shown EXCEPT ![c] = "theirs"]}
    /\ ready' \in {ready, ready \cup {c}}
    /\ UNCHANGED <<actionRows, pushing, waived, undo, todo>>

---------------------------------------------------------------------------
(* The services and the imports.                                           *)

\* Somebody watches the title on a service, at any moment.
WatchRemotely(r) ==
    /\ r[1] \in Streams => shown[r[1]] # "gone"
    /\ remote' = [remote EXCEPT ![r] = "new"]
    /\ shown' = [c \in Streams |-> IF c = r[1] /\ shown[c] # "unknown"
                                    THEN "theirs" ELSE shown[c]]
    /\ UNCHANGED <<actionRows, pushing, ready, waived, undo, todo>>

\* The snapshot of a connection is applied: viewing newer than the deletion
\* releases a marker no service still owes a reset for
\* (release_rewatched_deletions); without a marker the title is imported.
\* Playback it accepts is queued for the peers (queue_progress_update).
ImportSnapshot(c) ==
    LET held == {remote[r] : r \in RowsOf(c)}
        released == marker = {} /\ "new" \in held
        imported == (marker = Unmarked /\ held # {"clear"}) \/ released
        tracked == entry = "none" /\ imported
    IN
    /\ Idle
    /\ shown[c] # "gone"
    /\ shown' = [shown EXCEPT ![c] = IF @ = "unknown" THEN "theirs" ELSE @]
    /\ IF released THEN marker' = Unmarked /\ notice' = "none"
                   ELSE UNCHANGED <<marker, notice>>
    /\ entry' = IF tracked THEN "watching" ELSE entry
    /\ \E peers \in {{}, (pushing \cap ready \cap Streams) \ {c}} :
        /\ peers # {} => imported /\ "new" \in held
        /\ queued' = [d \in Streams |-> IF d \in peers
                         THEN queued[d] \cup {"upsert"} ELSE queued[d]]
    /\ UNCHANGED <<reset, disputed, pushing, ready, remote, waived, undo, todo>>

---------------------------------------------------------------------------
(* dispatch_stream_actions and dispatch_cloud_actions.                     *)

DispatchStarts(kind) ==
    /\ Idle
    /\ undo' = <<RowView>>
    /\ Cleanup(kind, pushing)
    /\ todo' = {r \in Resets : r[1] \in kind /\ reset'[r] = "pending"}
               \cup {p \in Streams \X Plays : p[1] \in kind /\ p[2] \in queued'[p[1]]}
    /\ UNCHANGED <<entry, pushing, ready, remote, shown>>

\* A refused target is left for a later dispatch.
Blocked(t) == t \notin ready \/ (t \in Streams /\ disputed[t] # {})

Handled(x) == ~Idle /\ x \in todo /\ todo' = todo \ {x}

\* The row is outside what the user wants by now, or its target is refused.
ResetSkipped(r) ==
    /\ Handled(r) /\ r \in Resets
    /\ \/ /\ marker = Unmarked \/ entry # "none"
          /\ reset' = [reset EXCEPT ![r] = "cancelled"]
       \/ /\ marker # Unmarked /\ entry = "none" /\ Blocked(r[1])
          /\ UNCHANGED reset
    /\ UNCHANGED <<entry, marker, notice, queued, disputed, pushing, ready,
                   remote, shown, waived, undo>>

Wanted(r) == /\ Handled(r) /\ r \in Resets
             /\ marker # Unmarked /\ entry = "none" /\ ~Blocked(r[1])

\* Mutant of Owing: the first acknowledged id stands for all of them.
OwingNothing(t) == {}

\* Rows of a target that its marker still waits for.
Owing(t) == {q \in RowsOf(t) : reset[q] \notin {"applied", "none"}}

\* The service cleared the title.  The target is released with its last row.
ResetApplied(r) ==
    LET left == IF Owing(r[1]) \subseteq {r} THEN marker \ {r[1]} ELSE marker IN
    /\ Wanted(r)
    /\ r[1] \in Clouds \/ remote[r] # "new"
    /\ remote' = [remote EXCEPT ![r] = "clear"]
    /\ reset' = [reset EXCEPT ![r] = "applied"]
    /\ marker' = left
    /\ notice' = IF left = {} /\ notice # "none" THEN "confirmed" ELSE notice
    /\ UNCHANGED <<entry, queued, disputed, pushing, ready, shown, waived, undo>>

\* RemotePlaybackChanged.  The review refuses every later write to the
\* connection until it is answered.
ResetDisputed(r) ==
    /\ Wanted(r)
    /\ r[1] \in Streams
    /\ reset' = [reset EXCEPT ![r] = "conflict"]
    /\ disputed' = [disputed EXCEPT ![r[1]] = @ \cup {"reset"}]
    /\ UNCHANGED <<entry, marker, notice, queued, pushing, ready, remote, shown,
                   waived, undo>>

\* The service was used after the deletion.
ResetConflicts(r) == remote[r] = "new" /\ ResetDisputed(r)

\* The service cannot tell: its page may be cut at 200 rows, the title is of
\* another type there, a time is unreadable or a key is missing.
ResetUnclear(r) == remote[r] # "new" /\ ResetDisputed(r)

\* The write raises, before or after it took effect; the row stays pending.
ResetFails(r) ==
    /\ Wanted(r)
    /\ remote' \in {remote, [remote EXCEPT ![r] = IF @ = "new" THEN "new" ELSE "clear"]}
    /\ UNCHANGED <<actionRows, pushing, ready, shown, waived, undo>>

Fits(a) == /\ marker = Unmarked
           /\ entry = IF a = "upsert" THEN "watching" ELSE "resting"

PlaySkipped(c, a) ==
    /\ Handled(<<c, a>>)
    /\ \/ ~Fits(a) /\ queued' = [queued EXCEPT ![c] = @ \ {a}]
       \/ Fits(a) /\ Blocked(c) /\ UNCHANGED queued
    /\ UNCHANGED <<entry, marker, notice, reset, disputed, pushing, ready,
                   remote, shown, waived, undo>>

Written(c, a) == [shown EXCEPT ![c] = IF a = "upsert" THEN "resume" ELSE "hidden"]

PlayApplied(c, a) ==
    /\ Handled(<<c, a>>) /\ Fits(a) /\ ~Blocked(c)
    /\ shown' = Written(c, a)
    /\ queued' = [queued EXCEPT ![c] = @ \ {a}]
    /\ UNCHANGED <<entry, marker, notice, reset, disputed, pushing, ready,
                   remote, waived, undo>>

\* RemotePlaybackChanged, of another position there or of an answer that is
\* unclear as for a reset.
PlayConflicts(c, a) ==
    /\ Handled(<<c, a>>) /\ Fits(a) /\ ~Blocked(c)
    /\ queued' = [queued EXCEPT ![c] = @ \ {a}]
    /\ disputed' = [disputed EXCEPT ![c] = @ \cup {"play"}]
    /\ UNCHANGED <<entry, marker, notice, reset, pushing, ready, remote, shown,
                   waived, undo>>

PlayFails(c, a) ==
    /\ Handled(<<c, a>>) /\ Fits(a) /\ ~Blocked(c)
    /\ shown' \in {shown, Written(c, a)}
    /\ UNCHANGED <<actionRows, pushing, ready, remote, waived, undo>>

\* One commit for all rows.
DispatchCommits ==
    /\ ~Idle
    /\ todo = {}
    /\ undo' = <<>>
    /\ UNCHANGED <<actionRows, pushing, ready, remote, shown, waived, todo>>

\* The process dies, or an error leaves the dispatch: the rows are as before.
DispatchDies ==
    /\ ~Idle
    /\ marker' = undo[1].marker /\ notice' = undo[1].notice /\ reset' = undo[1].reset
    /\ queued' = undo[1].queued /\ disputed' = undo[1].disputed
    /\ undo' = <<>> /\ todo' = {}
    /\ UNCHANGED <<entry, pushing, ready, remote, shown, waived>>

---------------------------------------------------------------------------
DispatchGoesOn ==
    \/ \E r \in Resets : ResetSkipped(r) \/ ResetApplied(r) \/ ResetConflicts(r)
    \/ \E c \in Streams, a \in Plays :
        PlaySkipped(c, a) \/ PlayApplied(c, a) \/ PlayConflicts(c, a)
    \/ DispatchCommits

DispatchFails ==
    \/ \E r \in Resets : ResetFails(r) \/ ResetUnclear(r)
    \/ \E c \in Streams, a \in Plays : PlayFails(c, a)
    \/ DispatchDies

Decides ==
    \/ DeleteTitle
    \/ \E status \in {"watching", "resting"} :
        \/ SaveEntry(status)
        \/ \E c \in Streams : ResolvePlayback(c, status)
    \/ \E t \in Targets : SwitchOff(t) \/ SwitchOn(t) \/ StopsWrites(t)
    \/ \E c \in Streams :
        SwapAccount(c) \/ RemoveConnection(c) \/ GuardWrites(c) \/ ClearEnds(c)

Answers(c) == \E verdict \in {"confirm", "keep"} : ResolveDeletion(c, verdict)

\* What a deletion settles beside, and what it may have to be repeated for.  A
\* dispatch that dies with nothing done and nothing left to do is one that ends.
ActionsCalm ==
    \/ \E c \in Streams : Answers(c) \/ ImportSnapshot(c)
    \/ \E t \in Targets : AllowsWrites(t)
    \/ DispatchStarts(Streams) \/ DispatchStarts(Clouds)
    \/ DispatchGoesOn

ActionsDisturbed ==
    Decides \/ DispatchFails \/ \E r \in Resets : WatchRemotely(r)

ActionsNext == ActionsCalm \/ ActionsDisturbed

ActionsSpec == ActionsInit /\ [][ActionsNext]_actionVars

\* The retry scheduler dispatches for every user with a pending row (
\* core/scheduler.py:340-378), its session runs on, scheduled pulls reach a
\* connection that has another account (_schedule_sync_tick), and the user answers
\* open conflicts and confirms imports.  All of them wait for the row of the
\* user, which the database hands to every waiter in turn: strong fairness.
HasPending(kind) ==
    \/ \E r \in Resets : r[1] \in kind /\ reset[r] = "pending"
    \/ \E c \in Streams \cap kind : queued[c] \cap Plays # {}

ActionsFairness ==
    /\ WF_actionVars(DispatchGoesOn)
    /\ SF_actionVars(HasPending(Streams) /\ DispatchStarts(Streams))
    /\ SF_actionVars(HasPending(Clouds) /\ DispatchStarts(Clouds))
    /\ SF_actionVars(\E c \in Streams : Answers(c))
    /\ SF_actionVars(\E t \in Targets : AllowsWrites(t))
    /\ SF_actionVars(\E c \in Streams : shown[c] = "unknown" /\ ImportSnapshot(c))

FairActionsSpec == ActionsSpec /\ ActionsFairness

---------------------------------------------------------------------------
(* What must hold.                                                         *)

\* A marker waits only for targets that still have a reset to deliver.  The
\* exceptions are what the marker is not told: the rows of a connection that
\* changed its account or went away are gone altogether, and a clear of a
\* connection froze the resets that waited for it.
MarkerServed ==
    marker # Unmarked => \A t \in marker :
        \/ Live(t) \/ \A r \in RowsOf(t) : reset[r] = "none"
        \/ \E r \in RowsOf(t) : reset[r] = "cleared"

\* A target leaves the marker by itself only after the service has cleared all
\* that was watched before the deletion, on every id of the title: crashes,
\* failed writes and conflicts on one of the ids included.
AcknowledgedIsCleared ==
    marker # Unmarked => \A r \in Resets :
        r[1] \in marker \cup waived \/ remote[r] # "old"

\* The review that tells the user about pending resets is open exactly while
\* the marker waits for somebody.
NoticeMatchesMarker ==
    (notice = "pending") <=> (marker \notin {Unmarked, {}})

\* A title that was put away does not stay where we resumed it: a dismissal is
\* queued, or a conflict asks the user, or the resume is no longer ours.  This
\* covers a resume whose write took effect and whose commit was lost.  Only a
\* clear of the playback there takes the dismissal back, even if it then fails.
RestedIsDismissed ==
    entry = "resting" => \A c \in Streams :
        shown[c] = "resume" =>
            \/ "dismiss" \in queued[c] \/ "play" \in disputed[c]
            \/ "frozen" \in queued[c]

\* Once the user decides nothing more, nobody watches, nothing fails and the
\* services answer clearly, every deletion settles: no target stays pending that
\* has a reset to deliver.
DeletionSettles ==
    <>[][ActionsCalm]_actionVars
        => <>[](marker # Unmarked => \A t \in marker : ~Live(t))
=============================================================================
