---------------------------- MODULE DataLifecycle ----------------------------
(***************************************************************************)
(* What becomes of recorded usage: the two tables (core/database.py), the  *)
(* monitor that writes to them under ids it remembers (core/monitor.py),   *)
(* and the user who adds and removes apps, clears today, deletes           *)
(* everything or changes the retention (ui/files_page.py,                  *)
(* ui/processes_page.py, ui/settings_page.py).                             *)
(*                                                                         *)
(* A statement of SQL runs under the database's lock and is one step; a    *)
(* poll is many, and the user's clicks fall between them, as do the resets *)
(* of the day that the kill watcher makes in its own thread.  How seconds  *)
(* are counted is UsageSessions' subject: here a poll that finds an app    *)
(* running credits it one unit.                                            *)
(***************************************************************************)
EXTENDS Integers, FiniteSetsExt

CONSTANTS Programs,     \* what the user can track
          None,         \* no row, no session
          Retentions,   \* choices of retention_days; 0 is "keep everything"
          MaxApps,      \* bound: ids of tracked_apps
          MaxSessions,  \* bound: ids of usage_sessions
          MaxSec,       \* bound: units a session can count
          LastDay,      \* bound: days
          ResetsFrom    \* bound: when everything may be deleted under open sessions

ASSUME DataAssumption ==
  /\ Retentions \subseteq Nat /\ Retentions # {}
  /\ MaxApps \in Nat \ {0} /\ MaxSessions \in Nat /\ MaxSec \in Nat /\ LastDay \in Nat /\ ResetsFrom \in Nat
  /\ None \notin Programs

AppIds == 1..MaxApps
SessionIds == 1..MaxSessions
Days == 0..LastDay

Row == [app : AppIds, day : Days, sec : 0..MaxSec, by : SUBSET Programs]
Session == [sid : SessionIds, day : Days, sec : 0..MaxSec, by : SUBSET Programs,
            gone : BOOLEAN]

ASSUME NoneAssumption == None \notin Row \cup Session

VARIABLES
  (* the database *)
  apps,         \* tracked_apps: the program of each id
  rows,         \* usage_sessions
  lastApp,      \* sqlite_sequence of either table
  lastSession,
  (* the monitor *)
  open,         \* active_sessions, by app id
  noted,        \* _notified_day
  stage,        \* where the poll and the kill watcher are
  days,         \* the retention_days that each has read
  todo,         \* the apps of this poll that are still to be looked at
  pollDay,      \* the poll's now.date(); 0 when it has none
  (* the user and the world *)
  today,
  keep,         \* config["retention_days"]
  (* history *)
  idsReset      \* everything was deleted while the monitor had sessions

tables == <<apps, rows, lastApp, lastSession>>
passes == <<noted, stage, days, todo, pollDay>>
monitor == <<open, passes>>
world == <<today, keep>>
vars == <<tables, monitor, world, idsReset>>

Threads == {"poll", "watch"}

Init ==
  /\ apps = [a \in AppIds |-> None] /\ rows = [s \in SessionIds |-> None]
  /\ lastApp = 0 /\ lastSession = 0
  /\ open = [a \in AppIds |-> None]
  /\ noted = 0 /\ stage = [t \in Threads |-> "idle"] /\ days = [t \in Threads |-> 0]
  /\ todo = {} /\ pollDay = 0
  /\ today = 0 /\ keep \in Retentions
  /\ idsReset = FALSE

-----------------------------------------------------------------------------
(* Statements *)

\* DELETE FROM usage_sessions, and the sessions whose row it took.
Without(deleted) == [s \in SessionIds |-> IF s \in deleted THEN None ELSE rows[s]]
Orphaned(deleted) ==
  [a \in AppIds |-> IF open[a] # None /\ open[a].sid \in deleted
                    THEN [open[a] EXCEPT !.gone = TRUE] ELSE open[a]]

Rows(Test(_)) == {s \in SessionIds : rows[s] # None /\ Test(rows[s])}

\* Fault: a checkpoint writes its row anew if there is none.
Saved_Upsert(table, a) ==
  [table EXCEPT ![open[a].sid] =
     [app |-> a, day |-> open[a].day, sec |-> open[a].sec, by |-> open[a].by]]

\* update_session_duration() and end_session(): an UPDATE, which may find no row.
Saved(table, a) ==
  LET s == open[a].sid
  IN  IF table[s] = None THEN table
      ELSE [table EXCEPT ![s].sec = open[a].sec, ![s].by = open[a].by]

\* The UPDATEs of all open sessions: where two have one id, the one whose turn is last
\* has the last word.
OpenOn(s) == {a \in AppIds : open[a] # None /\ open[a].sid = s}
AllSaved(last) ==
  [s \in SessionIds |-> IF OpenOn(s) = {} THEN rows[s] ELSE Saved(rows, last[s])[s]]
SaveSessions ==
  \E last \in [SessionIds -> AppIds] :
    /\ \A s \in SessionIds : OpenOn(s) # {} => last[s] \in OpenOn(s)
    /\ rows' = AllSaved(last)

\* Fault: without PRAGMA foreign_keys the INSERT succeeds for any id.
MayInsert_Unchecked(a) == lastSession < MaxSessions

\* start_session(): the INSERT fails when the app is not there any more.
MayInsert(a) == apps[a] # None /\ lastSession < MaxSessions

NewSession == [sid |-> lastSession + 1, day |-> pollDay, sec |-> 0, by |-> {}, gone |-> FALSE]

NewRow(a) == [app |-> a, day |-> pollDay, sec |-> 0, by |-> {}]
Inserted(table, a) == [table EXCEPT ![lastSession + 1] = NewRow(a)]

-----------------------------------------------------------------------------
(* The daily reset, and retention with it *)

Goto(t, s) == stage' = [stage EXCEPT ![t] = s]

\* What a thread goes on to after _reset_daily_state_if_needed().
Onward(t) == Goto(t, IF t = "poll" THEN "list" ELSE "idle")

\* At the start of a poll, and every five seconds in the kill watcher: the first of them
\* to see a new date notes it ...  (The date is read just before the lock is
\* taken; one gone stale in between costs one reset more, see LimitEnforcement.)
NoteDay(t) ==
  /\ stage[t] = "idle"
  /\ noted' = today
  /\ IF noted # today THEN Goto(t, "read") ELSE Onward(t)
  /\ UNCHANGED <<tables, open, days, todo, pollDay, world, idsReset>>

\* ... reads, without the lock, what the user wants kept ...
ReadRetention(t) ==
  /\ stage[t] = "read"
  /\ days' = [days EXCEPT ![t] = keep]
  /\ IF keep > 0 THEN Goto(t, "prune") ELSE Onward(t)
  /\ UNCHANGED <<tables, open, noted, todo, pollDay, world, idsReset>>

\* Fault: a day too many is deleted.
Outdated_OffByOne(t) == Rows(LAMBDA r : r.day <= today - days[t])

\* DELETE ... WHERE date < cutoff
Outdated(t) == Rows(LAMBDA r : r.day < today - days[t])

\* ... and calls prune_sessions_older_than(), which looks at the date again.
Prune(t) ==
  /\ stage[t] = "prune"
  /\ rows' = Without(Outdated(t)) /\ open' = Orphaned(Outdated(t))
  /\ days' = [days EXCEPT ![t] = 0]
  /\ Onward(t)
  /\ UNCHANGED <<apps, lastApp, lastSession, noted, todo, pollDay, world, idsReset>>

-----------------------------------------------------------------------------
(* The monitor's poll *)

\* The apps as they are now.  The processes were listed before: any of the programs may
\* have been running then.
ReadApps ==
  /\ stage["poll"] = "list"
  /\ Goto("poll", "date")
  /\ \E running \in SUBSET Programs :
       todo' = {<<a, apps[a], apps[a] \in running>> : a \in {b \in AppIds : apps[b] # None}}
  /\ UNCHANGED <<tables, open, noted, days, pollDay, world, idsReset>>

\* now = datetime.now()
ReadDate ==
  /\ stage["poll"] = "date"
  /\ Goto("poll", "apps")
  /\ pollDay' = today
  /\ UNCHANGED <<tables, open, noted, days, todo, world, idsReset>>

\* The app has started.
Launched(a, isRunning) ==
  /\ isRunning /\ open[a] = None
  /\ IF MayInsert(a)
       THEN /\ rows' = Inserted(rows, a) /\ lastSession' = lastSession + 1
            /\ open' = [open EXCEPT ![a] = NewSession]
       ELSE UNCHANGED <<rows, lastSession, open>>

\* The app has stopped.
Stopped(a, isRunning) ==
  /\ ~isRunning /\ open[a] # None
  /\ rows' = Saved(rows, a)
  /\ open' = [open EXCEPT ![a] = None]
  /\ UNCHANGED lastSession

\* One unit more, of program p.
Credit(session, p) ==
  [session EXCEPT !.sec = IF @ < MaxSec THEN @ + 1 ELSE @, !.by = @ \cup {p}]

\* The app runs on: split at midnight, unless the new session cannot be started,
\* and credit.
Continues(a, p, isRunning) ==
  /\ isRunning /\ open[a] # None
  /\ IF open[a].day # pollDay
       THEN IF MayInsert(a)
              THEN /\ rows' = Inserted(Saved(rows, a), a)
                   /\ lastSession' = lastSession + 1
                   /\ open' = [open EXCEPT ![a] = Credit(NewSession, p)]
              ELSE /\ rows' = Saved(rows, a)
                   /\ open' = [open EXCEPT ![a] = Credit(@, p)]
                   /\ UNCHANGED lastSession
       ELSE /\ open' = [open EXCEPT ![a] = Credit(@, p)]
            /\ UNCHANGED <<rows, lastSession>>

Absent(a, isRunning) ==
  /\ ~isRunning /\ open[a] = None
  /\ UNCHANGED <<rows, lastSession, open>>

PollApp(t) ==
  /\ stage["poll"] = "apps" /\ t \in todo
  /\ todo' = todo \ {t}
  /\ \/ Launched(t[1], t[3]) \/ Stopped(t[1], t[3])
     \/ Continues(t[1], t[2], t[3]) \/ Absent(t[1], t[3])
  /\ UNCHANGED <<apps, lastApp, noted, stage, days, pollDay, world, idsReset>>

\* "Save progress for all still-running sessions", the ones whose app was removed
\* included: nothing but a stop takes those out of active_sessions.
SaveAll ==
  /\ stage["poll"] = "apps" /\ todo = {}
  /\ SaveSessions
  /\ Goto("poll", "idle") /\ pollDay' = 0
  /\ UNCHANGED <<apps, lastApp, lastSession, open, noted, days, todo, world, idsReset>>

\* ProtBot ends, or is ended, and starts again: the day it starts on is noted as seen.
Restart ==
  /\ open' = [a \in AppIds |-> None]
  /\ noted' = today /\ stage' = [t \in Threads |-> "idle"] /\ days' = [t \in Threads |-> 0]
  /\ todo' = {} /\ pollDay' = 0
  /\ UNCHANGED rows \/ SaveSessions
  /\ UNCHANGED <<apps, lastApp, lastSession, world, idsReset>>

-----------------------------------------------------------------------------
(* The user *)

\* Fault: without AUTOINCREMENT an id is used again once its row is the last no more.
NextApp_Reused == Max({0} \cup {a \in AppIds : apps[a] # None}) + 1

NextApp == lastApp + 1

\* add_selected(), add_file(), add_folder(): the last two take a program that is tracked
\* already for another app.
AddApp(p) ==
  /\ NextApp <= MaxApps
  /\ apps' = [apps EXCEPT ![NextApp] = p]
  /\ lastApp' = NextApp
  /\ UNCHANGED <<rows, lastSession, monitor, world, idsReset>>

\* remove_selected(), with the rows that ON DELETE CASCADE takes.
RemoveApp(a) ==
  /\ apps[a] # None
  /\ apps' = [apps EXCEPT ![a] = None]
  /\ rows' = Without(Rows(LAMBDA r : r.app = a))
  /\ open' = Orphaned(Rows(LAMBDA r : r.app = a))
  /\ UNCHANGED <<lastApp, lastSession, passes, world, idsReset>>

\* clear_today(): "Delete all usage sessions recorded today"
ClearToday ==
  /\ rows' = Without(Rows(LAMBDA r : r.day = today))
  /\ open' = Orphaned(Rows(LAMBDA r : r.day = today))
  /\ UNCHANGED <<apps, lastApp, lastSession, passes, world, idsReset>>

\* delete_all_data(): the rows, the apps, and the sequences of their ids; the monitor
\* is not told.
DeleteAll ==
  /\ rows' = [s \in SessionIds |-> None] /\ apps' = [a \in AppIds |-> None]
  /\ open' = Orphaned(SessionIds)
  /\ lastApp' = 0 /\ lastSession' = 0
  /\ idsReset' = (idsReset \/ todo # {} \/ \E a \in AppIds : open[a] # None)
  /\ idsReset' => today >= ResetsFrom
  /\ UNCHANGED <<passes, world>>

\* _on_retention()
SetRetention(choice) ==
  /\ keep' = choice
  /\ UNCHANGED <<tables, monitor, today, idsReset>>

NextDay ==
  /\ today < LastDay
  /\ today' = today + 1
  /\ UNCHANGED <<tables, monitor, keep, idsReset>>

Reset == \E t \in Threads : NoteDay(t) \/ ReadRetention(t) \/ Prune(t)

Poll == ReadApps \/ ReadDate \/ (\E t \in todo : PollApp(t)) \/ SaveAll

User ==
  \/ ClearToday \/ DeleteAll
  \/ \E p \in Programs : AddApp(p)
  \/ \E a \in AppIds : RemoveApp(a)
  \/ \E choice \in Retentions : SetRetention(choice)

Next == Reset \/ Poll \/ Restart \/ User \/ NextDay

Spec == Init /\ [][Next]_vars

-----------------------------------------------------------------------------
(* Properties *)

Stages == {"idle", "read", "prune", "list", "date", "apps"}

\* Every variable stays in its type (database.py:23-48, monitor.py:75-90).
TypeOK ==
  /\ apps \in [AppIds -> Programs \cup {None}]
  /\ rows \in [SessionIds -> Row \cup {None}]
  /\ lastApp \in 0..MaxApps /\ lastSession \in 0..MaxSessions
  /\ open \in [AppIds -> Session \cup {None}]
  /\ todo \subseteq AppIds \X Programs \X BOOLEAN
  /\ stage \in [Threads -> Stages]
  /\ days \in [Threads -> {0} \cup Retentions]
  /\ pollDay \in Days /\ noted \in Days /\ today \in Days
  /\ keep \in Retentions
  /\ idsReset \in BOOLEAN

\* "All usage data will also be deleted" (files_page.py:410): a removed app has no
\* usage, whatever a poll that still has it on its list goes on to write.
RemovedIsForgotten ==
  \A s \in SessionIds : rows[s] # None => apps[rows[s].app] # None

\* "Deleted from this PC" (settings_page.py:634): what was deleted under a session that
\* goes on is not written back by its checkpoints, its end or a midnight.  It holds
\* as long as everything is not deleted under open sessions: their ids are given out again.
DeletedStaysDeleted ==
  ~idsReset => \A a \in AppIds : open[a] # None /\ open[a].gone => rows[open[a].sid] = None

\* A row's seconds were earned by the program that its app stands for, through removals,
\* new apps and polls that overlap either (database.py:25, 40).  It holds under the same
\* condition.
UsageIsTheApps ==
  ~idsReset => \A s \in SessionIds : rows[s] # None => rows[s].by \subseteq {apps[rows[s].app]}

\* Nothing else deletes history: a row goes when the user deletes it, or when it is older
\* than the retention that was read since the date changed (database.py:343-362,
\* monitor.py:546-567), whichever thread deletes and however long it takes.
HistoryIsKept ==
  [][\A s \in SessionIds : rows[s] # None /\ rows'[s] = None =>
       \/ ClearToday /\ rows[s].day = today
       \/ DeleteAll
       \/ RemoveApp(rows[s].app)
       \/ \E t \in Threads : Prune(t) /\ days[t] > 0 /\ rows[s].day < today - days[t]]_vars

\* "Older history is deleted automatically, once a day" (settings_page.py:450): when the
\* date has been noted and nobody is at work on it, nothing older than the retention is
\* there.
OlderIsDeleted ==
  keep > 0 /\ noted = today /\ (\A t \in Threads : stage[t] = "idle") =>
    \A s \in SessionIds : rows[s] # None => rows[s].day >= today - keep

\* "Save progress for all still-running sessions so data survives crashes"
\* (monitor.py:379): between two polls the usage counted for a tracked app is in its row.
ProgressIsSaved ==
  stage["poll"] = "idle" =>
    \A a \in {b \in AppIds : apps[b] # None /\ open[b] # None} :
      LET row == rows[open[a].sid]
      IN  IF row = None THEN FALSE ELSE row.app = a /\ row.sec = open[a].sec

=============================================================================
