---------------------------- MODULE UsageSessions ----------------------------
(***************************************************************************)
(* How ProtBot's desktop monitor turns "this program is running" into      *)
(* seconds of usage in the database (core/monitor.py, core/database.py).   *)
(*                                                                         *)
(* Three parties work on the same sessions:                                *)
(*   - the monitor thread, whose _poll() opens, credits, splits, closes    *)
(*     and checkpoints sessions;                                           *)
(*   - the main thread, whose stop() ends every session while a poll may   *)
(*     still be in flight, and then closes the database;                   *)
(*   - the outside world: time passes, the date changes, and ProtBot is    *)
(*     killed and started again at any moment.                             *)
(*                                                                         *)
(* A session exists twice: as a row of usage_sessions, which survives, and *)
(* as a Python dict, which does not.  Both are indexed by the row's id.    *)
(* The dict outlives its entry in active_sessions for as long as a thread  *)
(* holds a reference to it, so `sess` keeps every dict ever made; after a  *)
(* restart it is the record of what had been credited, not program state.  *)
(*                                                                         *)
(* running_apps is left out: the code changes it in the same lock regions  *)
(* as active_sessions.  Closing an over-limit program is the subject of    *)
(* LimitEnforcement; here it is one more way for a program to go away.     *)
(***************************************************************************)
EXTENDS Naturals

CONSTANTS Apps,        \* the tracked applications that have an executable
          SessionIds,  \* ids the usage_sessions table can still hand out
          Days,        \* calendar dates the clock may show
          Cap,         \* most seconds one interval can earn: poll_interval * 1.5
          MaxNow,      \* bound on the monotonic clock
          DiskFaults,  \* TRUE: a database write may fail at any time
          NoApp, NoSession

ASSUME UsageAssumption ==
  /\ Cap \in Nat
  /\ MaxNow \in Nat
  /\ DiskFaults \in BOOLEAN
  /\ NoApp \notin Apps
  /\ NoSession \notin SessionIds
  /\ Days # {}

VARIABLES
  now,      \* time.monotonic()
  today,    \* date.today()
  row,      \* usage_sessions, by id
  dbOpen,   \* FALSE once Database.close() has run
  active,   \* Monitor.active_sessions
  sess,     \* the session dicts, by id
  mpc,      \* where the monitor thread is
  poll,     \* the locals of the poll in progress
  spc,      \* where the main thread is in stop()
  stop      \* the locals of stop()

env   == <<now, today>>
store == <<row, dbOpen>>
mon   == <<mpc, poll>>
main  == <<spc, stop>>
vars  == <<env, store, active, sess, mon, main>>

-----------------------------------------------------------------------------
(* Records *)

\* The dict's own copy of the date is left out: row and dict are always given
\* the date of the same poll.
NewRow(a, d) == [app |-> a, date |-> d, dur |-> 0, ended |-> FALSE]

\* `from` is the tick the session was created with; only properties read it.
NewSession(t) == [counted |-> 0, written |-> 0, tick |-> t, from |-> t]

\* Fault: the table hands out the id of an ended row again.
UnusedOrEnded == {id \in SessionIds : row[id].app = NoApp \/ row[id].ended}

Unused == {id \in SessionIds : row[id].app = NoApp}
ActiveIds == {active[a] : a \in Apps} \ {NoSession}

NoPoll(d) == [date |-> d, seen |-> {}, todo |-> {}, sid |-> NoSession,
              new |-> NoSession, list |-> {}]
NoStop == [list |-> {}, sid |-> NoSession, val |-> 0]

Stopping == spc # "up"
DbFails == ~dbOpen \/ DiskFaults

\* Fault: a session is never split.
NeverSplit(id) == FALSE

\* session["date"] != now.date()
NeedsSplit(id) == row[id].date # poll.date

\* Fault: the split builds the dict by hand and forgets written_sec.
ContinueUnwritten(s) == [counted |-> 0, tick |-> s.tick, from |-> s.tick]

\* The session that carries on after a split: it inherits the tick.
Continue(s) == NewSession(s.tick)

\* Fault: a long gap (the machine slept) is credited in full.
UncappedSeconds(wall) == {0, wall}

\* What _accrue() may credit for a gap of `wall` seconds: nothing when the
\* user is idle or another window is in front, else the gap, capped.
CountedSeconds(wall) == {0, IF wall < Cap THEN wall ELSE Cap}

\* Fault: the tick is not moved on by a credit.
EarnKeepingTick(s, c) == [s EXCEPT !.counted = @ + c]

\* ... and how it is booked: the next interval starts where this one ended.
Earn(s, c) == [s EXCEPT !.counted = @ + c, !.tick = now]

\* db.end_session(id, ..., d)
Ended(r, d) == [r EXCEPT !.dur = d, !.ended = TRUE]
EndRow(id, d) == row' = [row EXCEPT ![id] = Ended(@, d)]

-----------------------------------------------------------------------------
Init ==
  /\ now = 0
  /\ today \in Days
  /\ row = [id \in SessionIds |-> NewRow(NoApp, today)]
  /\ dbOpen = TRUE
  /\ active = [a \in Apps |-> NoSession]
  /\ sess = [id \in SessionIds |-> NewSession(0)]
  /\ mpc = "wait"
  /\ poll = NoPoll(today)
  /\ spc = "up"
  /\ stop = NoStop

-----------------------------------------------------------------------------
(* The monitor thread: _run() and _poll() *)

\* The sleep ended (interval elapsed, or trigger_poll()) and no stop was asked
\* for.  Programs start and exit, and the user enables and disables tracking,
\* at any time: what the poll sees running and which apps are enabled are both
\* arbitrary.
BeginPoll ==
  /\ mpc = "wait" /\ ~Stopping
  /\ \E seen \in SUBSET Apps, enabled \in SUBSET Apps :
       poll' = [NoPoll(today) EXCEPT !.seen = seen, !.todo = enabled]
  /\ mpc' = "visit"
  /\ UNCHANGED <<env, store, active, sess, main>>

ExitLoop ==
  /\ mpc = "wait" /\ Stopping
  /\ mpc' = "exited"
  /\ UNCHANGED <<env, store, active, sess, poll, main>>

\* The poll is finished with the app it was visiting.
Visited(p, a) == [p EXCEPT !.todo = @ \ {a}, !.sid = NoSession, !.new = NoSession]

\* Nothing to record for a: it is not running and has no session; or it was
\* just launched over its limit and has been closed instead; or its session
\* vanished under the poll because stop() cleared active_sessions.
SkipApp(a) ==
  /\ mpc = "visit" /\ a \in poll.todo
  /\ active[a] = NoSession
  /\ poll' = Visited(poll, a)
  /\ UNCHANGED <<env, store, active, sess, mpc, main>>

\* db.start_session() for a newly seen app; it raises if the write fails.
StartRow(a) ==
  /\ mpc = "visit" /\ a \in poll.todo \cap poll.seen
  /\ active[a] = NoSession
  /\ \/ /\ dbOpen
        /\ \E id \in Unused :
             /\ row' = [row EXCEPT ![id] = NewRow(a, poll.date)]
             /\ poll' = [poll EXCEPT !.sid = id]
        /\ mpc' = "record"
     \/ /\ DbFails
        /\ poll' = Visited(poll, a)
        /\ UNCHANGED <<row, mpc>>
  /\ UNCHANGED <<env, dbOpen, active, sess, main>>

\* active_sessions[app_id] = self._new_session(session_id, now)
RecordSession ==
  /\ mpc = "record"
  /\ LET id == poll.sid
         a  == row[id].app
     IN  /\ sess' = [sess EXCEPT ![id] = NewSession(now)]
         /\ active' = [active EXCEPT ![a] = id]
         /\ poll' = Visited(poll, a)
  /\ mpc' = "visit"
  /\ UNCHANGED <<env, store, main>>

\* The app is gone but has a session: the elif at line 336 was true.
SeeStopped(a) ==
  /\ mpc = "visit" /\ a \in poll.todo \ poll.seen
  /\ active[a] # NoSession
  /\ poll' = [poll EXCEPT !.sid = active[a]]
  /\ mpc' = "pop"
  /\ UNCHANGED <<env, store, active, sess, main>>

\* active_sessions.pop(app_id) under the lock.  If stop() has emptied the map
\* since, the pop raises and _run() abandons the whole poll.
PopSession ==
  /\ mpc = "pop"
  /\ LET a == row[poll.sid].app
     IN  \/ /\ active[a] # NoSession
            /\ active' = [active EXCEPT ![a] = NoSession]
            /\ mpc' = "end"
            /\ UNCHANGED poll
         \/ /\ active[a] = NoSession
            /\ mpc' = "wait"
            /\ poll' = NoPoll(poll.date)
            /\ UNCHANGED active
  /\ UNCHANGED <<env, store, sess, main>>

\* db.end_session() for the popped session; a failure is only logged.
EndSession ==
  /\ mpc = "end"
  /\ \/ dbOpen /\ EndRow(poll.sid, sess[poll.sid].counted)
     \/ DbFails /\ UNCHANGED row
  /\ poll' = Visited(poll, row[poll.sid].app)
  /\ mpc' = "visit"
  /\ UNCHANGED <<env, dbOpen, active, sess, main>>

\* A running app with a session: split first if the date has changed.
TakeSession(a) ==
  /\ mpc = "visit" /\ a \in poll.todo \cap poll.seen
  /\ active[a] # NoSession
  /\ poll' = [poll EXCEPT !.sid = active[a]]
  /\ mpc' = IF NeedsSplit(active[a]) THEN "split" ELSE "credit"
  /\ UNCHANGED <<env, store, active, sess, main>>

\* _split_at_midnight(): end the old row ...
SplitEnd ==
  /\ mpc = "split"
  /\ \/ dbOpen /\ EndRow(poll.sid, sess[poll.sid].counted) /\ mpc' = "splitStart"
     \/ DbFails /\ mpc' = "credit" /\ UNCHANGED row
  /\ UNCHANGED <<env, dbOpen, active, sess, poll, main>>

\* ... start a new one (if that fails the old session carries on) ...
SplitStart ==
  /\ mpc = "splitStart"
  /\ \/ /\ dbOpen
        /\ \E id \in Unused :
             /\ row' = [row EXCEPT ![id] = NewRow(row[poll.sid].app, poll.date)]
             /\ poll' = [poll EXCEPT !.new = id]
        /\ mpc' = "install"
     \/ DbFails /\ mpc' = "credit" /\ UNCHANGED <<row, poll>>
  /\ UNCHANGED <<env, dbOpen, active, sess, main>>

\* ... and put it in place, continuing from the old session's tick.
SplitInstall ==
  /\ mpc = "install"
  /\ sess' = [sess EXCEPT ![poll.new] = Continue(sess[poll.sid])]
  /\ active' = [active EXCEPT ![row[poll.sid].app] = poll.new]
  /\ mpc' = "reget"
  /\ UNCHANGED <<env, store, poll, main>>

\* Fault: the poll goes on with the session it had in hand before the split.
Reget_Stale ==
  /\ mpc = "reget"
  /\ poll' = [poll EXCEPT !.new = NoSession]
  /\ mpc' = "credit"
  /\ UNCHANGED <<env, store, active, sess, main>>

\* Back in _poll(), which looks the session up again after a split.
Reget ==
  /\ mpc = "reget"
  /\ LET a == row[poll.sid].app
     IN  \/ /\ active[a] # NoSession
            /\ poll' = [poll EXCEPT !.sid = active[a], !.new = NoSession]
            /\ mpc' = "credit"
         \/ /\ active[a] = NoSession
            /\ poll' = Visited(poll, a)
            /\ mpc' = "visit"
  /\ UNCHANGED <<env, store, active, sess, main>>

\* _accrue(): earn the time since the last tick, on the dict in hand.
Accrue ==
  /\ mpc = "credit"
  /\ \E c \in CountedSeconds(now - sess[poll.sid].tick) :
       sess' = [sess EXCEPT ![poll.sid] = Earn(@, c)]
  /\ poll' = Visited(poll, row[poll.sid].app)
  /\ mpc' = "visit"
  /\ UNCHANGED <<env, store, active, main>>

\* Every app visited: list the open sessions to checkpoint.
BeginSave ==
  /\ mpc = "visit" /\ poll.todo = {}
  /\ poll' = [poll EXCEPT !.list = ActiveIds]
  /\ mpc' = "save"
  /\ UNCHANGED <<env, store, active, sess, main>>

\* db.update_session_duration(); a failure moves on to the next session.
SaveRow(id) ==
  /\ mpc = "save" /\ id \in poll.list
  /\ \/ /\ dbOpen
        /\ row' = [row EXCEPT ![id].dur = sess[id].counted]
        /\ poll' = [poll EXCEPT !.sid = id]
        /\ mpc' = "mark"
     \/ /\ DbFails
        /\ poll' = [poll EXCEPT !.list = @ \ {id}]
        /\ UNCHANGED <<row, mpc>>
  /\ UNCHANGED <<env, dbOpen, active, sess, main>>

\* session["written_sec"] = counted
MarkWritten ==
  /\ mpc = "mark"
  /\ sess' = [sess EXCEPT ![poll.sid].written = sess[poll.sid].counted]
  /\ poll' = [poll EXCEPT !.list = @ \ {poll.sid}, !.sid = NoSession]
  /\ mpc' = "save"
  /\ UNCHANGED <<env, store, active, main>>

EndPoll ==
  /\ mpc = "save" /\ poll.list = {}
  /\ mpc' = "wait"
  /\ poll' = NoPoll(poll.date)
  /\ UNCHANGED <<env, store, active, sess, main>>

Monitor ==
  \/ BeginPoll \/ ExitLoop
  \/ \E a \in Apps : SkipApp(a) \/ StartRow(a) \/ SeeStopped(a) \/ TakeSession(a)
  \/ RecordSession \/ PopSession \/ EndSession
  \/ SplitEnd \/ SplitStart \/ SplitInstall \/ Reget \/ Accrue
  \/ BeginSave \/ (\E id \in SessionIds : SaveRow(id)) \/ MarkWritten \/ EndPoll

-----------------------------------------------------------------------------
(* The main thread: Monitor.stop(), then Database.close() *)

\* Raise the stop flag and copy the open sessions.
StopBegin ==
  /\ spc = "up"
  /\ spc' = "ending"
  /\ stop' = [NoStop EXCEPT !.list = ActiveIds]
  /\ UNCHANGED <<env, store, active, sess, mon>>

\* The counted_sec argument of end_session() is read before the database lock
\* is taken, so the monitor thread can credit and save in between.
StopRead(id) ==
  /\ spc = "ending" /\ id \in stop.list
  /\ stop' = [list |-> stop.list \ {id}, sid |-> id, val |-> sess[id].counted]
  /\ spc' = "write"
  /\ UNCHANGED <<env, store, active, sess, mon>>

StopWrite ==
  /\ spc = "write"
  /\ \/ EndRow(stop.sid, stop.val)
     \/ DbFails /\ UNCHANGED row
  /\ stop' = [NoStop EXCEPT !.list = stop.list]
  /\ spc' = "ending"
  /\ UNCHANGED <<env, dbOpen, active, sess, mon>>

StopClear ==
  /\ spc = "ending" /\ stop.list = {}
  /\ active' = [a \in Apps |-> NoSession]
  /\ spc' = "joining"
  /\ UNCHANGED <<env, store, sess, mon, stop>>

\* join(timeout=5) returned, with the thread gone or not, and do_quit() went on
\* to close the database.
CloseDatabase ==
  /\ spc = "joining"
  /\ dbOpen' = FALSE
  /\ spc' = "closed"
  /\ UNCHANGED <<env, row, active, sess, mon, stop>>

Main ==
  \/ StopBegin \/ StopWrite \/ StopClear \/ CloseDatabase
  \/ \E id \in SessionIds : StopRead(id)

-----------------------------------------------------------------------------
(* The world around it *)

Tick ==
  /\ now < MaxNow
  /\ now' = now + 1
  /\ UNCHANGED <<today, store, active, sess, mon, main>>

\* Midnight passes, or somebody sets the clock.
ChangeDate ==
  /\ \E d \in Days \ {today} : today' = d
  /\ UNCHANGED <<now, store, active, sess, mon, main>>

\* The process dies at any point (crash, kill, power loss, or the end of a
\* quit) and ProtBot is started again: only the database is left.
Relaunch ==
  /\ dbOpen' = TRUE
  /\ active' = [a \in Apps |-> NoSession]
  /\ mpc' = "wait" /\ poll' = NoPoll(today)
  /\ spc' = "up" /\ stop' = NoStop
  /\ UNCHANGED <<env, row, sess>>

World == Tick \/ ChangeDate \/ Relaunch

Next == Monitor \/ Main \/ World

Spec == Init /\ [][Next]_vars

-----------------------------------------------------------------------------
(* Properties *)

Row == [app : Apps \cup {NoApp}, date : Days, dur : Nat, ended : BOOLEAN]
Session == [counted : Nat, written : Nat, tick : Nat, from : Nat]
MaybeSession == SessionIds \cup {NoSession}
PollLocals == [date : Days, seen : SUBSET Apps, todo : SUBSET Apps,
               sid : MaybeSession, new : MaybeSession, list : SUBSET SessionIds]
StopLocals == [list : SUBSET SessionIds, sid : MaybeSession, val : Nat]

\* Every variable stays in its type (monitor.py:65-103 and the two tables).
TypeOK ==
  /\ now \in Nat
  /\ today \in Days
  /\ row \in [SessionIds -> Row]
  /\ dbOpen \in BOOLEAN
  /\ active \in [Apps -> MaybeSession]
  /\ sess \in [SessionIds -> Session]
  /\ mpc \in {"wait", "visit", "record", "pop", "end", "split", "splitStart",
              "install", "reget", "credit", "save", "mark", "exited"}
  /\ poll \in PollLocals
  /\ spc \in {"up", "ending", "write", "joining", "closed"}
  /\ stop \in StopLocals

\* "Save progress for all still-running sessions so data survives crashes"
\* (monitor.py:379-388): at every instant, so at any crash, and whatever stop()
\* and a poll in flight do to each other, a row is never ahead of what was
\* credited and never behind it by more than one interval.
RowTracksSession ==
  ~DiskFaults =>
    \A id \in SessionIds :
      row[id].dur <= sess[id].counted /\ sess[id].counted <= row[id].dur + Cap

\* The accounting of an app never credits the same moment twice, over polls,
\* midnight splits, failed splits, re-enabling, shutdown races and restarts
\* (_accrue and _split_at_midnight, monitor.py:436-504): sessions of one app
\* cover disjoint spans of the monotonic clock and earn at most their span.
NoMomentCreditedTwice ==
  \A i \in SessionIds :
    /\ sess[i].from + sess[i].counted <= sess[i].tick
    /\ \A j \in SessionIds :
         (i # j /\ row[i].app = row[j].app) =>
           sess[i].tick <= sess[j].from \/ sess[j].tick <= sess[i].from

\* "Split BEFORE crediting" (monitor.py:358-361): while the database works,
\* seconds are only ever added to a session filed under the date of the poll
\* that adds them.
CreditGoesToPollDay ==
  [][\A id \in SessionIds :
       sess'[id].counted > sess[id].counted =>
         row[id].date = poll.date \/ DbFails]_vars

\* "End all active sessions cleanly" (monitor.py:120): once stop() has cleared
\* the map and the monitor thread has ended, no session of ProtBot's is left
\* open in memory.
StopEndsEverySession ==
  spc = "joining" /\ mpc = "exited" => ActiveIds = {}

-----------------------------------------------------------------------------
(* The inductive invariant behind them *)

\* The monitor thread holds a session it has yet to credit or close ...
HoldsUncredited == {"pop", "end", "split", "splitStart", "install", "credit"}
\* ... is anywhere between looking at one app and the next ...
Visiting == HoldsUncredited \cup {"visit", "record", "reget"}
\* ... and, at these points, poll.sid names a row.
Holding == HoldsUncredited \cup {"record", "reget", "mark"}

\* The ids the two threads work on are rows of the app being visited, and
\* active_sessions files each session under its own app.
HandsOK ==
  /\ mpc \in Holding => poll.sid \in SessionIds
  /\ mpc \in Holding \ {"mark"} => row[poll.sid].app \in poll.todo
  /\ mpc \in {"install", "reget"} =>
       /\ poll.new \in SessionIds \ {poll.sid}
       /\ row[poll.new].app = row[poll.sid].app
  /\ mpc = "mark" => poll.sid \in poll.list
  /\ \A id \in poll.list : row[id].app \in Apps
  /\ spc = "write" => stop.sid \in SessionIds
  /\ \A a \in Apps : active[a] # NoSession => row[active[a]].app = a
  /\ mpc \in HoldsUncredited => active[row[poll.sid].app] \in {poll.sid, NoSession}
  /\ mpc = "pop" /\ spc = "up" => active[row[poll.sid].app] = poll.sid
  /\ ~dbOpen => spc = "closed"

\* A row that has no session dict yet has earned nothing.
BlankUntilRecorded ==
  \A id \in SessionIds :
    \/ row[id].app = NoApp
    \/ mpc = "record" /\ id = poll.sid
    \/ mpc = "install" /\ id = poll.new
    => sess[id] = NewSession(0)

\* No session of the app has been credited beyond the start of id.
Latest(id) ==
  \A j \in SessionIds \ {id} :
    row[j].app = row[id].app => sess[j].tick <= sess[id].from

Open(id) == \E a \in Apps : active[a] = id
InHand(id) == mpc \in HoldsUncredited /\ poll.sid = id

\* Only the latest session of an app can still be credited.
OnlyLatestEarns ==
  \A id \in SessionIds :
    /\ sess[id].tick <= now
    /\ Open(id) \/ InHand(id) => Latest(id)

Saved(id) == sess[id].counted = row[id].dur

\* The poll in progress may still credit this session.
Pending(id) ==
  InHand(id) \/ (mpc \in Visiting /\ \E a \in poll.todo : active[a] = id)

\* Between polls, and until the poll credits it, a session is fully saved; and
\* what stop() is about to write is at most one interval old.
SavedWhenDue(id) ==
  /\ Pending(id) => Saved(id)
  /\ Open(id) /\ mpc = "wait" /\ spc = "up" => Saved(id)
  /\ Open(id) /\ mpc \in {"save", "mark"} /\ spc = "up" =>
       id \in poll.list \/ Saved(id)
  /\ mpc = "mark" /\ spc = "up" /\ poll.sid = id => Saved(id)

StopWritesRecent(id) ==
  spc = "write" /\ stop.sid = id =>
    /\ stop.val <= sess[id].counted
    /\ sess[id].counted <= stop.val + Cap
    /\ Pending(id) => stop.val = sess[id].counted

SavedUntilCredited ==
  \A id \in SessionIds : SavedWhenDue(id) /\ StopWritesRecent(id)

\* What TLAPS shows to be preserved by every step (UsageProofs).
IInv ==
  /\ TypeOK /\ HandsOK /\ BlankUntilRecorded /\ OnlyLatestEarns
  /\ NoMomentCreditedTwice /\ RowTracksSession
  /\ ~DiskFaults => SavedUntilCredited

\* The session about to be credited, or about to be handed over for it by a
\* split, is filed under the poll's date.
CreditDayOK ==
  /\ mpc = "credit" => row[poll.sid].date = poll.date \/ DbFails
  /\ mpc \in {"install", "reget"} => row[poll.new].date = poll.date
  /\ mpc = "reget" => active[row[poll.sid].app] \in {poll.new, NoSession}

=============================================================================
