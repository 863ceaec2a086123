--------------------------- MODULE LimitEnforcement ---------------------------
(***************************************************************************)
(* How ProtBot warns about a daily limit and closes what is over it        *)
(* (core/monitor.py, core/procutil.py).                                    *)
(*                                                                         *)
(* Two threads enforce limits side by side: the poll, once per interval,   *)
(* and the kill watcher, every five seconds.  They share the deadlines and *)
(* the set of notices already given, under a lock that is released between *)
(* reading the usage, deciding, closing and clearing up.  Meanwhile usage  *)
(* and limits change, programs come and go, midnight passes, the clock is  *)
(* set, and ProtBot itself is restarted.                                   *)
(*                                                                         *)
(* What _usage_today_sec() and the limit amount to is one level per app;   *)
(* how usage is counted is the subject of UsageSessions.  Every app here   *)
(* is tracked, enabled and has one process at a time.  Deadlines are kept  *)
(* as the time that is left: the code stores the wall-clock time they end. *)
(***************************************************************************)
EXTENDS Naturals

CONSTANTS Apps,         \* the tracked, enabled applications
          Kinds,        \* how they may take to being closed (see `kind`)
          Grace,        \* _grace_seconds(), in ticks
          MaxLaunches,  \* bound: how often an app is launched
          MaxRestarts,  \* bound: how often ProtBot is restarted
          LastDay,      \* bound: the last date
          NoDeadline, NoApp

ASSUME LimitAssumption ==
  /\ Kinds # {} /\ Kinds \subseteq {"plain", "protected", "stubborn"}
  /\ Grace \in Nat \ {0}   \* MIN_GRACE_SECONDS
  /\ MaxLaunches \in Nat \ {0} /\ MaxRestarts \in Nat /\ LastDay \in Nat
  /\ NoDeadline \notin Nat /\ NoApp \notin Apps

VARIABLES
  level,        \* usage against the limit: "under", "warn" or "over"
  proc,         \* which launch of the app is running; 0 when none is
  launches,     \* how many there have been
  kind,         \* never changes: "plain", "protected" (by core/protected.py)
                \* or "stubborn" (survives being terminated)
  autoKill,     \* the setting auto_kill_over_limit
  today,
  active,       \* the apps in active_sessions
  deadline,     \* _close_deadlines
  notified,     \* _notified_limits
  notifiedDay,  \* _notified_day
  pc, loc,      \* where the two threads are, and their locals
  restarts,
  past          \* what only properties look at

world == <<level, proc, launches, kind, autoKill, today, restarts>>
daily == <<deadline, notified, notifiedDay>>
vars  == <<world, active, daily, pc, loc, past>>

Threads == {"poll", "watch"}
Levels == {"under", "warn", "over"}

\* The locals of a pass: the date it began on, the apps still to visit, those seen
\* running, and for the app in hand what was read of it, why it is being closed, and
\* its process.
Pass(date, todo, seen) == [date |-> date, todo |-> todo, seen |-> seen, app |-> NoApp,
                           lvl |-> "under", why |-> "due", pid |-> 0]
Idle == Pass(0, {}, {})
TakeUp(l, a, lvl, why) == [l EXCEPT !.app = a, !.lvl = lvl, !.why = why]

\* Per app: wall-clock time since the last warning (up to Grace; or NoDeadline),
\* whether its process is older than ProtBot's, and the dates of the last warning and
\* the last notice of a limit since the daily reset (0 before the first).
NewPast(old) == [age |-> NoDeadline, old |-> old, warnedOn |-> 0, noticedOn |-> 0]
Warned(p) == [p EXCEPT !.age = 0, !.warnedOn = today]
Noticed(p) == [p EXCEPT !.noticedOn = today]
Forgotten(p) == [p EXCEPT !.warnedOn = 0, !.noticedOn = 0]
Older(p) == [p EXCEPT !.age = IF @ = NoDeadline THEN @
                              ELSE IF @ < Grace THEN @ + 1 ELSE Grace]
LongAgo(p) == [p EXCEPT !.age = IF @ = NoDeadline THEN @ ELSE Grace]

-----------------------------------------------------------------------------
(* Small decisions of the code *)

\* Fault: one key for all notices about an app.
SharedKey(a, l) == <<a, "warn">>

\* f"{app_id}_over", or the decile the usage is in.
Key(a, l) == <<a, l>>

\* `not in self._notified_limits`
FirstNotice(k) == k \notin notified

\* Fault: only the poll resets the daily state.
RolledOver_PollOnly(t) == t = "poll" /\ loc[t].date # notifiedDay

\* `today != self._notified_day`
RolledOver(t) == loc[t].date # notifiedDay

\* Fault: every pass over the app starts its grace period anew.
RestartedDeadline(a) == Grace
\* Fault: a configured grace period of zero is not floored.
NoGrace(a) == IF deadline[a] = NoDeadline THEN 0 ELSE deadline[a]

\* The deadline after _due_to_close(): the first time, a grace period starts.
PendingDeadline(a) == IF deadline[a] = NoDeadline THEN Grace ELSE deadline[a]

\* One tick less.
Sooner(d) == IF d = NoDeadline \/ d = 0 THEN d ELSE d - 1

-----------------------------------------------------------------------------
Init ==
  /\ level \in [Apps -> Levels]
  /\ proc \in [Apps -> {0, 1}]
  /\ launches = proc
  /\ kind \in [Apps -> Kinds]
  /\ autoKill \in BOOLEAN
  /\ today = 0
  /\ active = {}
  /\ deadline = [a \in Apps |-> NoDeadline]
  /\ notified = {}
  /\ notifiedDay = 0
  /\ pc = [t \in Threads |-> "sleep"]
  /\ loc = [t \in Threads |-> Idle]
  /\ restarts = 0
  /\ past = [a \in Apps |-> NewPast(proc[a] # 0)]

-----------------------------------------------------------------------------
(* Steps the two threads have in common *)

Goto(t, l) == pc' = [pc EXCEPT ![t] = l]

\* On to the next app of this pass.
Proceed(t, a) ==
  /\ Goto(t, "visit")
  /\ loc' = [loc EXCEPT ![t] = Pass(@.date, @.todo \ {a}, @.seen)]

\* _reset_daily_state_if_needed() reads the date ...
Wake(t) ==
  /\ pc[t] = "sleep"
  /\ loc' = [loc EXCEPT ![t].date = today]
  /\ Goto(t, "reset")
  /\ UNCHANGED <<world, active, daily, past>>

\* ... and, with the lock, forgets notices and deadlines if it is not that of the last
\* reset, by whichever thread.
DailyReset(t) ==
  /\ pc[t] = "reset"
  /\ IF RolledOver(t)
     THEN /\ notifiedDay' = loc[t].date
          /\ notified' = {}
          /\ deadline' = [a \in Apps |-> NoDeadline]
          /\ past' = [a \in Apps |-> Forgotten(past[a])]
     ELSE UNCHANGED <<daily, past>>
  /\ Goto(t, "scan")
  /\ UNCHANGED <<world, active, loc>>

\* The processes are listed once per pass.  The kill watcher does so only when
\* closing is on, and then looks at running apps only.
Scan(t) ==
  /\ pc[t] = "scan"
  /\ LET seen == {a \in Apps : proc[a] # 0}
     IN  \/ /\ t = "watch" => autoKill
            /\ loc' = [loc EXCEPT ![t] =
                         Pass(@.date, IF t = "poll" THEN Apps ELSE seen, seen)]
            /\ Goto(t, "visit")
         \/ /\ t = "watch" /\ ~autoKill
            /\ loc' = [loc EXCEPT ![t] = Idle]
            /\ Goto(t, "sleep")
  /\ UNCHANGED <<world, active, daily, past>>

FinishPass(t) ==
  /\ pc[t] = "visit" /\ loc[t].todo = {}
  /\ Goto(t, "sleep")
  /\ loc' = [loc EXCEPT ![t] = Idle]
  /\ UNCHANGED <<world, active, daily, past>>

\* _due_to_close(): warn and start the grace period, wait, or go ahead.
Decide(t) ==
  /\ pc[t] = "due"
  /\ LET a == loc[t].app
     IN  /\ deadline' = [deadline EXCEPT ![a] = PendingDeadline(a)]
         /\ \/ /\ deadline[a] = NoDeadline
               /\ past' = [past EXCEPT ![a] = Warned(@)]
               /\ Proceed(t, a)
            \/ /\ deadline[a] # NoDeadline /\ deadline[a] # 0
               /\ Proceed(t, a)
               /\ UNCHANGED past
            \/ /\ deadline[a] = 0
               /\ Goto(t, "close")
               /\ UNCHANGED <<loc, past>>
  /\ UNCHANGED <<world, active, notified, notifiedDay>>

\* close_app(): find the processes and ask them to close ...
AskToClose(t) ==
  /\ pc[t] = "close"
  /\ LET a == loc[t].app
     IN  IF kind[a] = "protected" \/ proc[a] = 0
         THEN Goto(t, "refused") /\ UNCHANGED loc
         ELSE /\ Goto(t, "wait")
              /\ loc' = [loc EXCEPT ![t].pid = proc[a]]
  /\ UNCHANGED <<world, active, daily, past>>

\* ... wait, terminate one that did not go in time, and see whether it is gone.
AwaitExit(t) ==
  /\ pc[t] = "wait"
  /\ LET a == loc[t].app
     IN  \/ /\ proc[a] # loc[t].pid
            /\ Goto(t, "closed")
            /\ UNCHANGED proc
         \/ /\ proc[a] = loc[t].pid /\ kind[a] # "stubborn"
            /\ proc' = [proc EXCEPT ![a] = 0]
            /\ Goto(t, "closed")
         \/ /\ proc[a] = loc[t].pid /\ kind[a] = "stubborn"
            /\ Goto(t, "refused")
            /\ UNCHANGED proc
  /\ UNCHANGED <<level, launches, kind, autoKill, today, restarts, active, daily, loc, past>>

\* Closed: the deadline goes with it, unless it was closed at launch.
AfterClosing(t) ==
  /\ pc[t] = "closed"
  /\ LET a == loc[t].app
     IN  /\ deadline' = IF loc[t].why = "due"
                        THEN [deadline EXCEPT ![a] = NoDeadline]
                        ELSE deadline
         /\ Proceed(t, a)
  /\ UNCHANGED <<world, active, notified, notifiedDay, past>>

\* Not closed: the watcher tries again in five seconds; the poll gives notice
\* of the limit instead, or records the app it could not block.
AfterRefusal(t) ==
  /\ pc[t] = "refused"
  /\ LET a == loc[t].app
     IN  \/ /\ t = "watch"
            /\ Proceed(t, a)
            /\ UNCHANGED active
         \/ /\ t = "poll" /\ loc[t].why = "due"
            /\ Goto(t, "notice")
            /\ UNCHANGED <<loc, active>>
         \/ /\ t = "poll" /\ loc[t].why = "launch"
            /\ active' = active \cup {a}
            /\ Proceed(t, a)
  /\ UNCHANGED <<world, daily, past>>

-----------------------------------------------------------------------------
(* The kill watcher's look at one app *)

WatchApp(a) ==
  /\ pc["watch"] = "visit" /\ a \in loc["watch"].todo
  /\ \/ /\ level[a] = "over"
        /\ Goto("watch", "due")
        /\ loc' = [loc EXCEPT !["watch"] = TakeUp(@, a, "over", "due")]
     \/ /\ level[a] # "over"
        /\ Proceed("watch", a)
  /\ UNCHANGED <<world, active, daily, past>>

-----------------------------------------------------------------------------
(* The poll's look at one app *)

\* Newly seen: if it is over its limit already, close it at once; no grace.
PollNewApp(a) ==
  /\ pc["poll"] = "visit" /\ a \in loc["poll"].todo \cap loc["poll"].seen
  /\ a \notin active
  /\ \/ /\ autoKill /\ level[a] = "over"
        /\ Goto("poll", "close")
        /\ loc' = [loc EXCEPT !["poll"] = TakeUp(@, a, "over", "launch")]
        /\ UNCHANGED active
     \/ /\ ~(autoKill /\ level[a] = "over")
        /\ active' = active \cup {a}
        /\ Proceed("poll", a)
  /\ UNCHANGED <<world, daily, past>>

\* Not running: its session, if any, ends.  The discard(app_id) that goes with
\* it names no key of _notified_limits, so that set stays as it is.
PollStoppedApp(a) ==
  /\ pc["poll"] = "visit" /\ a \in loc["poll"].todo \ loc["poll"].seen
  /\ active' = active \ {a}
  /\ Proceed("poll", a)
  /\ UNCHANGED <<world, daily, past>>

\* Still running: _check_limits() reads the usage once and acts on it.
PollRunningApp(a) ==
  /\ pc["poll"] = "visit" /\ a \in loc["poll"].todo \cap loc["poll"].seen
  /\ a \in active
  /\ \/ /\ level[a] = "under"
        /\ Proceed("poll", a)
     \/ /\ level[a] # "under"
        /\ Goto("poll", IF level[a] = "over" /\ autoKill THEN "due" ELSE "notice")
        /\ loc' = [loc EXCEPT !["poll"] = TakeUp(@, a, level[a], "due")]
  /\ UNCHANGED <<world, active, daily, past>>

\* Give the notice, once.
PollNotice ==
  /\ pc["poll"] = "notice"
  /\ LET a == loc["poll"].app
         k == Key(a, loc["poll"].lvl)
     IN  /\ \/ /\ FirstNotice(k)
               /\ notified' = notified \cup {k}
               /\ past' = IF loc["poll"].lvl = "over"
                          THEN [past EXCEPT ![a] = Noticed(@)]
                          ELSE past
            \/ /\ ~FirstNotice(k)
               /\ UNCHANGED <<notified, past>>
         /\ Proceed("poll", a)
  /\ UNCHANGED <<world, active, deadline, notifiedDay>>

-----------------------------------------------------------------------------
Step(t) ==
  \/ Wake(t) \/ DailyReset(t) \/ Scan(t) \/ FinishPass(t)
  \/ Decide(t) \/ AskToClose(t) \/ AwaitExit(t) \/ AfterClosing(t) \/ AfterRefusal(t)

Watch == Step("watch") \/ \E a \in Apps : WatchApp(a)

Poll ==
  \/ Step("poll") \/ PollNotice
  \/ \E a \in Apps : PollNewApp(a) \/ PollStoppedApp(a) \/ PollRunningApp(a)

-----------------------------------------------------------------------------
(* The world *)

Launch(a) ==
  /\ proc[a] = 0 /\ launches[a] < MaxLaunches
  /\ launches' = [launches EXCEPT ![a] = @ + 1]
  /\ proc' = [proc EXCEPT ![a] = launches'[a]]
  /\ past' = [past EXCEPT ![a].old = FALSE]
  /\ UNCHANGED <<level, kind, autoKill, today, restarts, active, daily, pc, loc>>

\* The user quits the app, or the app obeys a request to close.
Exit(a) ==
  /\ proc[a] # 0
  /\ proc' = [proc EXCEPT ![a] = 0]
  /\ UNCHANGED <<level, launches, kind, autoKill, today, restarts, active, daily, pc, loc, past>>

\* Usage grows here or on another device; the user edits the limit; focus hours
\* begin or end; another device's figure goes stale.
ChangeLevel(a) ==
  /\ \E l \in Levels \ {level[a]} : level' = [level EXCEPT ![a] = l]
  /\ UNCHANGED <<proc, launches, kind, autoKill, today, restarts, active, daily, pc, loc, past>>

ToggleAutoKill ==
  /\ autoKill' = ~autoKill
  /\ UNCHANGED <<level, proc, launches, kind, today, restarts, active, daily, pc, loc, past>>

\* A new day starts with no usage (an app blocked by focus hours stays over).
Midnight ==
  /\ today < LastDay
  /\ today' = today + 1
  /\ level' \in [Apps -> {"under", "over"}]
  /\ \A a \in Apps : level'[a] = "over" => level[a] = "over"
  /\ UNCHANGED <<proc, launches, kind, autoKill, restarts, active, daily, pc, loc, past>>

Tick ==
  /\ deadline' = [a \in Apps |-> Sooner(deadline[a])]
  /\ past' = [a \in Apps |-> Older(past[a])]
  /\ UNCHANGED <<world, active, notified, notifiedDay, pc, loc>>

\* Summer time begins, or somebody sets the clock on: deadlines are wall-clock
\* times and are passed at once.  (Set back, they only move away.)
SetClockForward ==
  /\ deadline' = [a \in Apps |-> IF deadline[a] = NoDeadline THEN NoDeadline ELSE 0]
  /\ past' = [a \in Apps |-> LongAgo(past[a])]
  /\ UNCHANGED <<world, active, notified, notifiedDay, pc, loc>>

\* ProtBot is closed, or dies, and is started again; apps keep running.
Restart ==
  /\ restarts < MaxRestarts
  /\ restarts' = restarts + 1
  /\ active' = {}
  /\ deadline' = [a \in Apps |-> NoDeadline]
  /\ notified' = {} /\ notifiedDay' = today
  /\ pc' = [t \in Threads |-> "sleep"]
  /\ loc' = [t \in Threads |-> Idle]
  /\ past' = [a \in Apps |-> NewPast(proc[a] # 0)]
  /\ UNCHANGED <<level, proc, launches, kind, autoKill, today>>

World ==
  \/ \E a \in Apps : Launch(a) \/ Exit(a) \/ ChangeLevel(a)
  \/ ToggleAutoKill \/ Midnight \/ Tick \/ SetClockForward \/ Restart

Next == Watch \/ Poll \/ World

Spec == Init /\ [][Next]_vars

\* Both threads run for as long as ProtBot does, and time passes.
FairSpec == Spec /\ WF_vars(Watch) /\ WF_vars(Poll) /\ WF_vars(Tick)

-----------------------------------------------------------------------------
(* Properties *)

Places == {"sleep", "reset", "scan", "visit", "due", "close", "wait", "closed", "refused",
           "notice"}
Locals == [date : 0..LastDay, todo : SUBSET Apps, seen : SUBSET Apps, app : Apps \cup {NoApp},
           lvl : Levels, why : {"due", "launch"}, pid : 0..MaxLaunches]
Past == [age : {NoDeadline} \cup 0..Grace, old : BOOLEAN,
         warnedOn : 0..LastDay, noticedOn : 0..LastDay]

\* Every variable stays in its type (monitor.py:65-103).
TypeOK ==
  /\ level \in [Apps -> Levels]
  /\ proc \in [Apps -> 0..MaxLaunches] /\ launches \in [Apps -> 0..MaxLaunches]
  /\ kind \in [Apps -> Kinds] /\ autoKill \in BOOLEAN
  /\ today \in 0..LastDay /\ notifiedDay \in 0..LastDay
  /\ active \subseteq Apps
  /\ deadline \in [Apps -> {NoDeadline} \cup 0..Grace]
  /\ notified \subseteq Apps \X {"warn", "over"}
  /\ pc \in [Threads -> Places]
  /\ loc \in [Threads -> Locals]
  /\ restarts \in 0..MaxRestarts
  /\ past \in [Apps -> Past]

\* Thread t has just decided that app a is due to be closed.
GoesAhead(t, a) ==
  pc[t] = "due" /\ loc[t].app = a /\ pc'[t] = "close"

\* "Only once that deadline passes" (monitor.py:634-643, floor at 24-28):
\* whichever thread decides, and whatever the other one warned, closed or reset
\* in between, the app's last warning is at least the grace period old.  (By the
\* wall clock, which the code goes by: see SetClockForward.)
GraceIsGiven ==
  [][\A t \in Threads, a \in Apps : GoesAhead(t, a) => past[a].age = Grace]_vars

\* The poll passes over the notice that app a is over its limit: one is on record.
Withholds(a) ==
  /\ pc["poll"] = "notice" /\ pc'["poll"] = "visit"
  /\ loc["poll"].app = a /\ loc["poll"].lvl = "over"
  /\ notified' = notified

\* "Clear per-day caches when the date rolls over" (monitor.py:679-694; without it
\* "the user stops receiving warnings entirely after day one"): whichever thread did it,
\* though the other's pass may straddle midnight and one may act on a date the other
\* has left behind, a pass closes no app on a warning, and withholds no notice for one,
\* from before the day the pass began.  (A restart and a second reset of the same day
\* may repeat a notice: the code means to, monitor.py:346.)
DayStartsAfresh ==
  [][\A a \in Apps :
       /\ \A t \in Threads : GoesAhead(t, a) => past[a].warnedOn >= loc[t].date
       /\ Withholds(a) => past[a].noticedOn >= loc["poll"].date]_vars

\* An app that may be closed does not stay over its limit and running for ever
\* while closing is on: passes, restarts of the app, refusals and rollovers may
\* delay the two threads but not defeat them (monitor.py:191-263 and 712-750).
OverLimitIsClosed ==
  \A a \in Apps :
    ~ <>[](autoKill /\ kind[a] = "plain" /\ level[a] = "over" /\ proc[a] # 0)

\* An app that stays over its limit and running is announced, whether closing
\* is off, is refused or fails: nothing keeps the poll from falling through to
\* the notice, or from repeating it the next day (monitor.py:734-765, 679-694).
OverLimitIsAnnounced ==
  \A a \in Apps :
    ~ <>[](level[a] = "over" /\ proc[a] # 0 /\ <<a, "over">> \notin notified)

\* "No grace period here: the app has only just launched" (monitor.py:306): an
\* app closed without grace was not running before ProtBot was.
OnlyNewcomersLackGrace ==
  \A a \in Apps :
    pc["poll"] = "close" /\ loc["poll"].why = "launch" /\ loc["poll"].app = a =>
      ~past[a].old

\* "The first time an app goes over, this starts a grace period and warns the
\* user" (monitor.py:638): and so does every later time, with no deadline left of an
\* earlier one.
EachBreachIsNew ==
  [][\A a \in Apps : level[a] # "over" /\ level'[a] = "over" => deadline[a] = NoDeadline]_vars

\* "Clear limit notification cache on stop so it can warn again next run"
\* (monitor.py:346): an app without a session has no notice on record.
StopRearmsNotice ==
  pc["poll"] = "sleep" =>
    \A a \in Apps \ active : <<a, "over">> \notin notified

-----------------------------------------------------------------------------
(* What the proofs add to these (LimitEnforcementProofs) *)

\* At these places a thread has an app in hand.
AppInHand ==
  \A t \in Threads :
    /\ pc[t] \in {"due", "close", "wait", "closed", "refused", "notice"} =>
         loc[t].app \in Apps
    /\ pc[t] = "notice" => t = "poll"
    /\ pc["poll"] \in {"due", "close", "wait", "closed", "refused", "notice"} =>
         loc["poll"].lvl # "under"

\* Time left and time since the warning make up the grace period.
GraceRuns ==
  \A a \in Apps : deadline[a] # NoDeadline =>
    past[a].age # NoDeadline /\ past[a].age + deadline[a] >= Grace

\* A pass that has made its reset.
UnderWay(t) == pc[t] \notin {"sleep", "reset"}

\* No date is ahead of today's.
DatesPassed ==
  /\ notifiedDay <= today
  /\ \A t \in Threads : loc[t].date <= today
  /\ \A a \in Apps : past[a].warnedOn <= today /\ past[a].noticedOn <= today

\* What is on record is no older than the last reset, nor than any pass under way.
RecordsAreOf(since) ==
  \A a \in Apps : /\ deadline[a] # NoDeadline => past[a].warnedOn >= since
                  /\ <<a, "over">> \in notified => past[a].noticedOn >= since
RecordsAreNew ==
  /\ RecordsAreOf(notifiedDay)
  /\ \A t \in Threads : UnderWay(t) => RecordsAreOf(loc[t].date)

LimitInv == TypeOK /\ AppInHand /\ GraceRuns /\ DatesPassed /\ RecordsAreNew

=============================================================================
