------------------------- MODULE PlaybackSessions -------------------------
(***************************************************************************)
(* Manual playback sessions and the watches that end a viewing             *)
(* (core/manual_sessions.py, core/watch_dedup.py, the session routes of    *)
(* routers/history.py, the completed plays of routers/webhooks.py).        *)
(*                                                                         *)
(* One viewing is reported several times: a media server sends a scrobble  *)
(* and a stop, repeats a delivery, and the session a user started by hand  *)
(* for the same film runs out as well.  The paths of a viewing therefore   *)
(* look for a watch within the window of the user before they add one, and *)
(* an advisory lock of the user and the title, held to the end of the      *)
(* transaction, keeps two of them from looking at once.  The completer of  *)
(* the scheduler does so for several titles in one transaction, the others *)
(* for one.  Other writers add watches without that look: they are kept    *)
(* apart, in `unlooked`.                                                   *)
(*                                                                         *)
(* A transaction is a read, then one step that deletes the session, takes  *)
(* the lock and looks (a transaction that waits for the lock has changed   *)
(* nothing another may read), then a commit or a rollback.                 *)
(***************************************************************************)
EXTENDS Integers

CONSTANTS
    Films,
    Handlers,    \* requests and webhook deliveries handled at a time
    Completer,   \* the completer of the scheduler
    Window,      \* the duplicate window of the user
    Runtime,     \* length of a title
    LastMinute   \* bound on the clock, in the unit of the window

Actors == Handlers \cup {Completer}

Minutes == 0 .. LastMinute

ASSUME PlaybackAssumption ==
    /\ Completer \notin Handlers
    /\ Window \in Nat \ {0} /\ Runtime \in Nat \ {0} /\ LastMinute \in Nat

VARIABLES
    clock,
    manual,    \* the manual session of a title: "playing", "paused" or "none"
    due,       \* when one that plays runs out: updated_at + runtime - progress
    watches,   \* the number of watch events of a title at each minute
    unlooked,  \* titles and minutes with watches that were added without a look
    task,      \* what a handler serves, "tick" for a completer at work
    subject,   \* the title it serves; the sessions the completer has still to end;
               \* the episodes a mark has read as unwatched
    since,     \* when it started; what the completer takes for now; the date of
               \* a mark once it has committed
    same,      \* titles whose selected session is still the row of the title
    locked,    \* titles whose advisory lock an actor holds
    ended,     \* titles whose session it has deleted, not committed
    added      \* the watches it has added, not committed

sessionRows  == <<manual, due>>
transactions == <<task, subject, since, same, locked, ended, added>>
playbackVars == <<clock, sessionRows, watches, unlooked, transactions>>

Tasks == {"complete", "webhook", "mark"}
Phases == Tasks \cup {"idle", "tick", "marked", "infers"}

PlaybackTypeOK ==
    /\ clock \in Minutes
    /\ manual \in [Films -> {"playing", "paused", "none"}]
    /\ due \in [Films -> 0 .. (LastMinute + Runtime)]
    /\ watches \in [Films -> [Minutes -> Nat]]
    /\ unlooked \subseteq Films \X Minutes
    /\ task \in [Actors -> Phases]
    /\ subject \in [Actors -> SUBSET Films]
    /\ since \in [Actors -> Minutes]
    /\ same \subseteq Films
    /\ locked \in [Actors -> SUBSET Films]
    /\ ended \in [Actors -> SUBSET Films]
    /\ added \in [Actors -> SUBSET (Films \X Minutes)]

PlaybackInit ==
    /\ clock = 0
    /\ manual = [t \in Films |-> "none"] /\ due = [t \in Films |-> 0]
    /\ watches = [t \in Films |-> [m \in Minutes |-> 0]] /\ unlooked = {}
    /\ task = [a \in Actors |-> "idle"]
    /\ subject = [a \in Actors |-> {}] /\ since = [a \in Actors |-> 0]
    /\ same = {}
    /\ locked = [a \in Actors |-> {}]
    /\ ended = [a \in Actors |-> {}]
    /\ added = [a \in Actors |-> {}]

---------------------------------------------------------------------------
(* Helpers.                                                                *)

\* Mutant: the check does not wait for another of the same title.
LockFreeAssumed(a, t) == t \in Films

\* _acquire_dedup_lock returns: nobody else holds the lock of the title.
LockFree(a, t) == \A b \in Actors \ {a} : t \notin locked[b]

\* No transaction holds the row of the session it has deleted.
RowFree(t) == \A a \in Actors : t \notin ended[a]

\* Minutes within the window of `at`.
Near(at) == {m \in Minutes : at - Window <= m /\ m <= at + Window}

\* A path that looks has committed a watch within the window.
Recorded(t, at) == \E m \in Near(at) : watches[t][m] > 0

\* find_duplicate_watch_event, which sees the watches of every writer.
Duplicate(t, at) == Recorded(t, at) \/ \E m \in Near(at) : <<t, m>> \in unlooked

\* The transaction of a ends, and with it what it held; the request goes on as
\* `next`, for the time `at`.
EndsAs(a, next, at) ==
    /\ task' = [task EXCEPT ![a] = next]
    /\ subject' = [subject EXCEPT ![a] = {}]
    /\ since' = [since EXCEPT ![a] = at]
    /\ locked' = [locked EXCEPT ![a] = {}]
    /\ ended' = [ended EXCEPT ![a] = {}]
    /\ added' = [added EXCEPT ![a] = {}]

Ends(a) == EndsAs(a, "idle", 0)

\* What it did takes effect.
CommitsAs(a, next, at) ==
    /\ manual' = [t \in Films |-> IF t \in ended[a] THEN "none" ELSE manual[t]]
    /\ due' = [t \in Films |-> IF t \in ended[a] THEN 0 ELSE due[t]]
    /\ watches' = [t \in Films |-> [m \in Minutes |->
         watches[t][m] + (IF <<t, m>> \in added[a] THEN 1 ELSE 0)]]
    /\ same' = same \ ended[a]
    /\ UNCHANGED unlooked
    /\ EndsAs(a, next, at)

Commits(a) == CommitsAs(a, "idle", 0)

\* The sessions of some titles are deleted, by a transaction of their own.
SessionsGone(gone) ==
    /\ \A t \in gone : RowFree(t)
    /\ manual' = [t \in Films |-> IF t \in gone THEN "none" ELSE manual[t]]
    /\ due' = [t \in Films |-> IF t \in gone THEN 0 ELSE due[t]]
    /\ same' = same \ gone
    /\ UNCHANGED <<clock, watches, unlooked, task, subject, since, locked, ended, added>>

---------------------------------------------------------------------------
(* Sessions.                                                               *)

PlaybackTick ==
    /\ clock < LastMinute
    /\ clock' = clock + 1
    /\ UNCHANGED <<sessionRows, watches, unlooked, transactions>>

\* start_manual_session: a session of the title is deleted, a new row inserted.
StartSession(t) ==
    /\ RowFree(t)
    /\ manual' = [manual EXCEPT ![t] = "playing"]
    /\ due' = [due EXCEPT ![t] = clock + Runtime]
    /\ same' = same \ {t}
    /\ UNCHANGED <<clock, watches, unlooked, task, subject, since, locked, ended, added>>

\* update_manual_session: a heartbeat with the position, pausing or resuming.
Heartbeat(t, progress, state) ==
    /\ manual[t] # "none" /\ RowFree(t)
    /\ manual' = [manual EXCEPT ![t] = state]
    /\ due' = [due EXCEPT ![t] =
         IF state = "playing" THEN clock + Runtime - progress ELSE 0]
    /\ UNCHANGED <<clock, watches, unlooked, transactions>>

\* dismiss_session.
Dismiss(t) == manual[t] # "none" /\ SessionsGone({t})

\* clear_now_playing_sessions.
ClearSessions == SessionsGone(Films)

\* delete_single_event, unwatch_item.
RemoveEvent(t, m) ==
    /\ \/ /\ watches[t][m] > 0
          /\ watches' = [watches EXCEPT ![t][m] = @ - 1]
          /\ UNCHANGED unlooked
       \/ unlooked' = unlooked \ {<<t, m>>} /\ UNCHANGED watches
    /\ UNCHANGED <<clock, sessionRows, transactions>>

\* The user has no watch of the title.
Unseen(t) == \A m \in Minutes : watches[t][m] = 0 /\ <<t, m>> \notin unlooked

Unwatch(t) ==
    /\ watches' = [watches EXCEPT ![t] = [m \in Minutes |-> 0]]
    /\ unlooked' = {w \in unlooked : w[1] # t}
    /\ UNCHANGED <<clock, sessionRows, transactions>>

\* A progress edit, a season mark, an import or a pull, which decide from a list
\* they read, or a mark with `force`: a watch of any date, with no look.
WritesUnlooked(t, m) ==
    /\ unlooked' = unlooked \cup {<<t, m>>}
    /\ UNCHANGED <<clock, sessionRows, watches, transactions>>

---------------------------------------------------------------------------
(* Requests and webhooks.                                                  *)

\* A session is completed (404 without one), a webhook reports a play, or the
\* user marks a title as watched.
Arrives(h, t, what) ==
    /\ task[h] = "idle"
    /\ what = "complete" => manual[t] # "none"
    /\ task' = [task EXCEPT ![h] = what]
    /\ subject' = [subject EXCEPT ![h] = {t}]
    /\ since' = [since EXCEPT ![h] = clock]
    /\ UNCHANGED <<clock, sessionRows, watches, unlooked, same, locked, ended, added>>

\* The time of the play: now, as read before the wait for the lock, or any date
\* the user enters.
PlayTimes(h) == (IF task[h] = "mark" THEN 0 ELSE since[h]) .. clock

\* The completion deletes the session by its key, whichever row has it by now.
LooksForDuplicate(h, t, at) ==
    /\ task[h] \in Tasks /\ t \in subject[h] /\ at \in PlayTimes(h)
    /\ LockFree(h, t)
    /\ task[h] = "complete" => RowFree(t)
    /\ subject' = [subject EXCEPT ![h] = {}]
    /\ locked' = [locked EXCEPT ![h] = {t}]
    /\ ended' = [ended EXCEPT ![h] =
         IF task[h] = "complete" /\ manual[t] # "none" THEN {t} ELSE {}]
    /\ added' = [added EXCEPT ![h] = IF Duplicate(t, at) THEN {} ELSE {<<t, at>>}]
    /\ UNCHANGED <<clock, sessionRows, watches, unlooked, task, since, same>>

\* The session is gone with a duplicate as well.
HandlerCommits(h) ==
    /\ task[h] \in Tasks \ {"mark"} /\ locked[h] # {}
    /\ Commits(h)
    /\ UNCHANGED clock

\* The first commit of a mark releases the lock; the request goes on with the
\* other episodes.
MarkCommits(h, at) ==
    /\ task[h] = "mark" /\ \E t \in Films : <<t, at>> \in added[h]
    /\ CommitsAs(h, "marked", at)
    /\ UNCHANGED clock

\* It reads which of the earlier episodes are unwatched ...
ReadsEarlier(h, earlier) ==
    /\ task[h] = "marked"
    /\ task' = [task EXCEPT ![h] = "infers"]
    /\ subject' = [subject EXCEPT ![h] = {t \in earlier : Unseen(t)}]
    /\ UNCHANGED <<clock, sessionRows, watches, unlooked, since, same, locked, ended,
                   added>>

\* ... and adds a watch of each at the date of the mark: no look, no lock.
InfersEarlier(h) ==
    /\ task[h] = "infers"
    /\ unlooked' = unlooked \cup (subject[h] \X {since[h]})
    /\ Ends(h)
    /\ UNCHANGED <<clock, sessionRows, watches, same>>

\* 409 for a duplicate, an error, or the client is gone.
HandlerFails(h) ==
    /\ task[h] # "idle"
    /\ Ends(h)
    /\ UNCHANGED <<clock, sessionRows, watches, unlooked, same>>

---------------------------------------------------------------------------
(* auto_complete_manual_sessions.                                          *)

RanOut == {t \in Films : manual[t] = "playing" /\ due[t] <= clock}

CompleterSelects ==
    /\ task[Completer] = "idle" /\ RanOut # {}
    /\ task' = [task EXCEPT ![Completer] = "tick"]
    /\ subject' = [subject EXCEPT ![Completer] = RanOut]
    /\ since' = [since EXCEPT ![Completer] = clock]
    /\ same' = RanOut
    /\ UNCHANGED <<clock, sessionRows, watches, unlooked, locked, ended, added>>

\* The row selected is deleted if it is still there, and the watch added in
\* either case.
CompleterEnds(t) ==
    LET now == since[Completer]
    IN  /\ t \in subject[Completer] /\ RowFree(t) /\ LockFree(Completer, t)
        /\ subject' = [subject EXCEPT ![Completer] = @ \ {t}]
        /\ locked' = [locked EXCEPT ![Completer] = @ \cup {t}]
        /\ ended' = [ended EXCEPT ![Completer] = @ \cup ({t} \cap same)]
        /\ added' = [added EXCEPT ![Completer] =
             IF Duplicate(t, now) THEN @ ELSE @ \cup {<<t, now>>}]
        /\ UNCHANGED <<clock, sessionRows, watches, unlooked, task, since, same>>

\* It commits only if a watch was added; what it deleted beside a duplicate
\* goes with that commit ...
CompleterCommits ==
    /\ task[Completer] = "tick"
    /\ subject[Completer] = {} /\ added[Completer] # {}
    /\ Commits(Completer)
    /\ UNCHANGED clock

\* ... or comes back, as it does after an error.
CompleterRollsBack ==
    /\ task[Completer] = "tick"
    /\ Ends(Completer)
    /\ same' = {}
    /\ UNCHANGED <<clock, sessionRows, watches, unlooked>>

---------------------------------------------------------------------------

\* The process restarts: transactions roll back, sessions are deleted.
PlaybackRestarts ==
    /\ manual' = [t \in Films |-> "none"] /\ due' = [t \in Films |-> 0]
    /\ task' = [a \in Actors |-> "idle"]
    /\ subject' = [a \in Actors |-> {}] /\ since' = [a \in Actors |-> 0]
    /\ same' = {}
    /\ locked' = [a \in Actors |-> {}]
    /\ ended' = [a \in Actors |-> {}]
    /\ added' = [a \in Actors |-> {}]
    /\ UNCHANGED <<clock, watches, unlooked>>

PlaybackNext ==
    \/ PlaybackTick \/ ClearSessions \/ PlaybackRestarts
    \/ CompleterSelects \/ CompleterCommits \/ CompleterRollsBack
    \/ \E t \in Films :
         \/ StartSession(t) \/ Dismiss(t) \/ CompleterEnds(t)
         \/ \E p \in 0 .. Runtime, state \in {"playing", "paused"} : Heartbeat(t, p, state)
         \/ Unwatch(t)
         \/ \E m \in Minutes : RemoveEvent(t, m) \/ WritesUnlooked(t, m)
         \/ \E h \in Handlers, what \in Tasks : Arrives(h, t, what)
         \/ \E h \in Handlers, at \in 0 .. clock : LooksForDuplicate(h, t, at)
    \/ \E h \in Handlers :
         \/ HandlerCommits(h) \/ HandlerFails(h)
         \/ \E at \in Minutes : MarkCommits(h, at)
         \/ \E earlier \in SUBSET Films : ReadsEarlier(h, earlier)
         \/ InfersEarlier(h)

PlaybackSpec == PlaybackInit /\ [][PlaybackNext]_playbackVars

---------------------------------------------------------------------------
(* Properties.                                                             *)

\* However the reports of a viewing interleave, on whichever of the paths that
\* look they come, whatever rolls back between them and whatever other writers
\* add beside them, two watches of a title that they added are never within the
\* duplicate window of the user: the lock must outlive the look to the commit, on
\* every path (core/watch_dedup.py:49-60).  Watches of the writers that do not
\* look, the episodes a mark infers among them, are the exception.
OneWatchPerViewing ==
    \A t \in Films : \A m \in Minutes : watches[t][m] > 0 =>
        /\ watches[t][m] = 1
        /\ \A n \in Minutes : watches[t][n] > 0 /\ n > m => n > m + Window
=============================================================================
