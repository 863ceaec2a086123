# ProtBot in TLA+

ProtBot is a Windows desktop application (Python, `src/core`, `src/ui`) with an
Android companion (Kotlin, `src/android`). It measures how long the user's
programs are in use, warns when a daily limit is near, closes a program that is
over its limit, and shares today's totals between the user's devices so that one
limit covers all of them.

This directory holds TLA+ models of the parts of ProtBot where the order of
events, or the edge of a rule, decides whether it is right; the TLC
configurations that check them on small instances; and proofs, checked by TLAPS,
of what holds for every instance.

    tlc -workers 2 -config Consent.cfg MCConsent      # one run
    tlapm ConfigStoreProofs.tla                       # one module's proofs

`PROJECT.json` lists every run with the properties it checks, maps every
definition to the source lines it stands for, and lists the hazards the
properties are for. Constants, assumptions and comments are in the modules.

## 1. The system

| Component | State | Operations | Talks to |
|---|---|---|---|
| Monitor, accounting (`core/monitor.py`, `core/activity.py`) | `active_sessions` (dicts with `counted_sec`, `written_sec`, `last_tick`), `running_apps` | `_poll`, `_accrue`, `_split_at_midnight`, `stop` | database rows, from two threads |
| Monitor, enforcement (`core/monitor.py`, `core/procutil.py`) | `_close_deadlines`, `_notified_limits`, `_notified_day` | `_check_limits`, `_kill_watcher`, `_due_to_close`, `_close_app`, daily reset | processes; usage and limit; the user, by notifications |
| Database (`core/database.py`) | `tracked_apps`, `usage_sessions`, their id sequences | session start / update / end, reports, retention, deletion | everything, through one connection and lock |
| Reports and exports (`ui/insights_page.py`, `ui/processes_page.py`, `core/dataexport.py`) | none | pure functions of the tables | database |
| Focus hours (`core/schedule.py`) | none | pure rules | monitor |
| Sync client (`core/syncclient.py`, `core/syncproto.py`) | `_group_totals` with date and time, `_uploaded` with date; `server_app_ids` in the config | `sync_once`, `remote_seconds_for`, register, unregister; the app key | database, config, server; read by the monitor |
| Server (`server/models.py`: message models only) | totals by device, app and date; groups | register, apps, upload, sync, link | the clients |
| Device linking (`core/linking.py`, `ui/devices_page.py`) | `device_id`, `linked_devices`, the code on screen, the guard and watchdog of the form | register, show a code, join, list | server, config |
| Link code symbol (`core/qrcode.py`) | none | `encode` | linking |
| Configuration (`core/config.py`) | the settings, a live file and a backup | load with recovery, get, set, save | every component, from several threads |
| Consent (`core/consent.py`) | three settings | ask at the start, record, withdraw | config, monitor |
| Licensing (`core/licensing.py`) | the signed entitlement among the settings | activate, refresh, entitlement with offline grace | licence server, config |
| Desktop process (`main.py`, `core/tray.py`) | the main loop, worker threads, the icon and its thread | start, hide, quit, clean up | starts and stops the others |
| Data directory (`core/paths.py`) | the directory's place on disk | migration from an old place | every component that keeps files |
| Android app (`android/app`, `android/core`) | Room database, policy snapshot, sync state | usage worker, blocker service, sync worker | server |
| UI pages, catalogue, updates, crash reports, packaging | widgets, files | user actions | trigger the operations above |

**What runs concurrently.** The monitor thread polls every few seconds; the kill
watcher, a second thread, looks for over-limit programs every five; the sync
thread runs a cycle every half hour; the icon in the notification area has a
thread with a message loop; every request of the Devices tab, and every
verification of the licence, is a thread of its own. The Tk thread changes
settings, reads today's usage, deletes data and calls `stop()`; other threads
hand it work by `after()`. The locks of the monitor cover single accesses, not
the sequences "read the usage, decide, act". The database has a lock per
statement. `Config.set()` holds its lock until its save has ended.

**What is hard.** Midnight, which every component notices by itself and at a
different moment; sleep gaps; a crash between a credit and its checkpoint, or
between two file operations of a save; `stop()` against a poll in flight;
deadlines that two threads set, read and clear; warnings and notices that must not
outlive their day; uploads that arrive late, twice, or without an answer; totals that are
of another day, or that contain our own share or not; answers that come after
their watchdog; codes that outlive the server's memory of them; rows deleted under
the sessions that count for them; a shutdown whose threads wait for each other.
`PROJECT.json` lists these under `hazards`, each at its line.

**What makes each component right**

- *Accounting*: what the database holds is what was credited, to within one
  interval, at every instant; no moment is credited twice; credit goes to the
  right day; a racing read is no further off than an interval.
- *Enforcement*: no program that was already running is closed without a full
  grace period; nothing of yesterday shortens a period or silences a notice of today;
  a program that stays over its limit is announced, and closed if it can be.
- *Data*: what was deleted stays deleted, nothing else is, and no usage is
  attributed to another program.
- *Sync*: other devices' usage is never overstated, is exact after a cycle, and
  does get counted; two platforms give one app one key.
- *Configuration, consent, licensing*: a crash loses at most the last change; what
  was reported as saved is there; nothing is recorded without agreement; a paid
  licence is not lost to an outage, and an unpaid one not kept beyond its grace.
- *Linking*: one registration at a time, a form that unlocks, a code that works
  while it is offered and is one a scanner can read, a page that shows what is set.
- *Process*: once asked to, it ends; nothing uses a closed database.
- *Rules and reports*: focus hours only tighten, figures add up.
- *Android*: what is enforced is not staler than promised; same rules as on the
  desktop.

## 2. The modules

| Module | Models | Uses |
|---|---|---|
| `UsageLedger` | abstract: seconds used and seconds kept, by app and day | |
| `UsageSessions` | session accounting: poll, stop, crash, against the table | |
| `UsageReads` | another thread that reads today's usage meanwhile, over restarts | `UsageSessions`; refines `UsageLedger` |
| `LimitEnforcement` | both enforcing threads, programs, the day | |
| `SyncClient` | the sync cycle, the monitor's view of it, the server | |
| `SettingsStore` | abstract: settings in memory and the settings a start finds | |
| `ConfigStore` | the settings file, its backup, the steps of a save | refines `SettingsStore` |
| `Consent` | the gate, agreement and withdrawal, over the settings file | `ConfigStore` |
| `Licensing` | the entitlement and the requests that change it | |
| `DeviceLinking` | the Devices tab: registration, link codes, the group | |
| `DataLifecycle` | tables and ids under polls, deletion and retention | |
| `DesktopProcess` | start, main loop, worker threads, tray, shutdown | |
| `Schedule`, `AppKeys`, `UsageViews`, `QRCode` | the pure rules, each with its reference definition | |
| `QRReader` | reference: what a scanner makes of a symbol | `QRCode` |
| `Calculations` | the pure rules asked and answered, for one run | the five above |
| `...Proofs` | proofs about the module they are named after (`ConfigStoreProofs`: `ConfigStore` and `Consent`; `UsageProofs`: `UsageSessions` and `UsageReads`; `MainProofs`: `Licensing` and `DesktopProcess`; `CalculationsProofs`: `Calculations` with `Schedule`, `AppKeys` and `UsageViews`) | that module, TLAPS |
| `MC...` | constants and symmetry of the runs | the module they are named after |

Definitions called *Fault* are never used by a specification. Each is the form a
plausible mistake would give the definition below it; putting it there makes the
property named with it in `PROJECT.json` fail.

### UsageLedger, UsageSessions and UsageReads

`row` is the table; `sess` the session dicts, under the id of their row;
`active` is `active_sessions`. `mpc` with `poll`, and `spc` with `stop`, are the
places and locals of the monitor thread and of the thread in `stop()`. An action
is one lock region or one database call, so every interleaving the code allows
between them is there. `_poll()` visits the enabled apps in any order. For each
it skips (`SkipApp`), starts (`StartRow`, `RecordSession`), ends (`SeeStopped`,
`PopSession`, `EndSession`) or goes on with a session (`TakeSession`, if the date
changed `SplitEnd`, `SplitStart`, `SplitInstall`, `Reget`, then `Accrue`), and in
the end it checkpoints (`BeginSave`, `SaveRow`, `MarkWritten`). `stop()` is
`StopBegin` to `StopClear`; `CloseDatabase` may follow with a poll still in
flight, because the join has a timeout. `Relaunch` is a crash at any step, with
a new start: only `row` is left.

How many seconds an interval earns is any result `counted_seconds()` can have:
none (idle, or not in front) or the gap, capped. Which programs a poll finds
running and which apps it finds enabled is arbitrary. A database call fails when
the database is closed, or at any time if `DiskFaults`.

`UsageReads` adds a reader in its own thread: `ReadDatabase`, then `ReadSession`
with its `Answer`, as `_usage_today_sec()` does when the kill watcher or the UI
calls it. `reader` remembers what had really been credited when the first half
was read. A restart (`RelaunchR`) ends a read with its process; `earlier` is what
the process before had left in the rows, which the truth is counted from.

`UsageLedger` is what all this is for, without threads, sessions or rows: how long each
app was used on each day (`used`), and what of it the next start would find (`kept`).
`Use` credits an interval, `Keep` brings one app's figure of one day to within an
interval of the truth, `Lose` is a crash. Its guards are the promise: an interval is
credited only when everything of the app is kept. `Ledger` instantiates it `WITH` the
sums of what was credited and of what the rows hold, and the property `KeepsLedger`
says that every step of the two threads and the reader is one of these or leaves both
alone.

### LimitEnforcement

Usage and limit are one `level` per app: under, in the warning range, or over.
Everything that moves usage or limit, including edits, focus hours and other
devices, is `ChangeLevel`. Each thread is a sequence `Wake` (which reads
the date), `DailyReset` (under the lock, by whichever thread sees a new date first),
`Scan` (the one process listing of a pass), a visit of every app
(`WatchApp`, `PollNewApp`, `PollStoppedApp`, `PollRunningApp`), `Decide`
(`_due_to_close`), closing in two steps (`AskToClose`, `AwaitExit`, between which
the program may exit or another may start), and what follows (`AfterClosing`,
`AfterRefusal`, `PollNotice`). A `kind` of program cannot be closed because it is
protected, another because it survives being terminated. Deadlines are kept as
time left; `Tick` shortens them, `SetClockForward` makes them all due. `past` has,
for the properties, the age of an app's last warning, and the days of its last warning
and its last notice since the reset.

### SyncClient

One cycle is `BeginCycle`, `MapApps`, `ReadTotals`, `BuildUpload`, `NoteDate`,
`PostUpload`, `UploadAccepted`, `FetchAnswered`, `ApplyGroup`, with a failing
variant of each request: an action per moment at which another thread, another
device or the clock can come between. `Remote(a)` is what the monitor gets from
`remote_seconds_for()` at any instant.

The server is not in the repository. The model does what `server/models.py` asks
of it: the larger of stored and received total per device, app and date
(`Larger`); dates are the client's; group totals include the asking device's
(`GroupTotals`). Uploads stay on the `wire` after they were posted and can arrive
at any later moment, any number of times, whether or not their answer did. All
other devices together are `theirs`.

Two rare events are named in `Mishaps`: *midnight* falls between the reading of
the totals and their dating, and the *read* of the totals fails. The history
variable `spoiled` records that one of them touched today's figures.

### SettingsStore, ConfigStore, Consent

`SettingsStore` is what `config.py` promises, without files: settings in memory,
settings a start would find, and a save that is one step. `ConfigStore` has the
files `live` and `bak` and the place `pc` in `save()`: `WriteTemp`, `KeepLast`
(`config.json` to the backup, or the ignored failure of it), `Place`, or at the two
operations that can raise, `SaveFails`. `Load` takes the live file, else the backup,
else the defaults. `Crash` can follow any step. `Store` instantiates the abstract
module `WITH stored <- Loaded`, what the two files amount to, and the property
`OldOrNew` says that the steps of `ConfigStore` are steps of `SettingsStore`, or
stutter: in every state between the two renames the backup still stands for the
old settings. A file that does not parse counts as none; nothing damages a file
that is whole.

`Consent` composes the gate with this file. Consent is three settings, each written
by its own `set()` with its own save; `todo` is what an operation has still to set,
`stage` where the UI thread is. Other settings change meanwhile (`ChangeSetting`),
saves fail and the process dies (`Die`) between any two operations on files.
`agreed` is the history the properties need: the user has accepted, and no
withdrawal that the disk has seen is newer.

### Licensing

`cache` is the entitlement in the settings: the age of its verification, the time
to its expiry, the machine that signed it (`bound`; `_sign()` with
`_machine_binding()` is modelled as this binding). `asked` holds the requests of
threads that have not ended, with their answers, so a refresh with one key and an
activation of another can finish in any order. `StartUp` restarts ProtBot at any
moment and asks again if the entitlement is stale. The licence server does what
the client expects of it: a paid licence is premium, any other rejected, and any
request may go unanswered. Licences are paid for a term or for good, run out, and
are revoked.

### DeviceLinking

Every request is a thread of its own that writes its setting and queues a callback
for Tk: `Register`, `Registered`, `RegDone`/`RegError`, with the 12-second
`Watchdog` that gives a registration up while its thread goes on. `drawn` is what
the page showed when it was last populated, which lags the settings until
`Populate`. A link code is asked for, issued, `coming`, and then on screen with
two ages: `age` counts since the server issued it, `shown` since this PC put it up,
by a clock that `SetClock` moves on or back; `CloseExpired` is the countdown. An
answer that is no usable code stops the countdown of the one before (`ShowCode`).

`group` is the server's: the group that each member is in. Linking two members, by a
`Scan` of our code or by a join of ours, puts their groups together (`Merged`). To the
server an identity that this PC had before is a member like any other, and an answer
marks as own only the identity that asked (`Others`). A join is sent (`Join`),
answered, refused or lost (`JoinAnswered`), where any answer that is no HTTP error is
"Linked!", and then fetches the group (`JoinDone`), as opening the tab does. Each fetch
(`Fetch`) is answered with the group of that moment (`AnswerFetch`) and stored when its
thread comes to it (`Fetched`), so that a later fetch can be overtaken by an earlier one.

### DataLifecycle

The two tables with their id sequences, the foreign key and its cascade; the
monitor that remembers ids (`open`) and goes through the list of apps it read at
the start of its poll (`todo`); and the user, whose clicks fall between statements
of a poll: `AddApp`, for a program that is tracked already too, `RemoveApp`,
`ClearToday`, `DeleteAll`, `SetRetention`. Two threads reset the day, the poll when it
begins and the kill watcher every five seconds, each in steps: `NoteDay`, and for the
first to see a new date `ReadRetention` and `Prune`. A poll goes on with `ReadApps`,
`ReadDate`, a `PollApp` for each and `SaveAll`. A start notes its own day (`Restart`), so
that it prunes nothing until the date changes. A session in memory has
`gone` once its row was deleted, and rows and sessions carry the programs (`by`)
that earned their seconds. Statements are atomic, as the database's lock makes
them; `UsageSessions` has what happens between two statements of one session.

### DesktopProcess

`phase`, and the calls the Tk thread has still to make (`todo`) with the threads it is
waiting for (`joining`). A worker is idle, at work, or waiting for the Tk thread
(`root.after()` from another thread); the Tk thread in `join()` is not in its main loop,
so the two can wait for each other, until the join's timeout: `Joined` does not require
that the thread has ended. Any call of `do_quit()` can raise (`CallFails`). The icon's
thread adds the icon, pumps messages and removes it; `stop()` removes it too
(`RemoveIcon`: the answer of the shell is not looked at, and before `_added` is set
there is nothing to remove). `left` remembers an icon that stays for one of these
reasons, or because `stop()` raised. `waived` remembers the workers the shutdown could
not stop or wait for.

### Schedule, AppKeys, UsageViews, QRCode, and Calculations

These are functions. `Schedule` translates `parse_time`, `is_active` and
`effective_daily_limit`; its reference is a window that opens on a day and closes on the
same or the next. `AppKeys` translates `canonical_app_key()` and its Kotlin port over
names that are sequences of tokens; the reference is that both agree, and the shapes one
product's name can have. `UsageViews` has every reporting query, what the Insights tab
makes of them, the CSV and the full export, over a store of apps and sessions, some of
which may be dated ahead of today, and of which either table may be unreadable when an
export is made. `QRCode` is the encoder: bytes as sets of bit positions, a symbol as the
set of its dark modules; `QRReader` is written from the layout of a symbol: it holds the
walk through the modules against an order of its own, unmasks, takes the blocks apart,
checks that each has no error and reads the text. The masks, the level's bits, the
arithmetic of the field and the table of block sizes it has from the encoder: a mistake
in one of these it would make too. `Calculations` puts questions from bounded sets and
answers them one step later, so that one run checks all four.

## 3. The runs

| Run | Question | Bounds |
|---|---|---|
| `sessions` | do rows track sessions, is nothing credited twice, is the day right, how wrong is a racing read, and is it all one ledger? | 1 app, 2 sessions, 2 days, cap 1, clock to 2 |
| `limits` | is grace given, and does each day start afresh? | 1 app, grace 2, 2 launches, a restart, a midnight |
| `limits_live` | is an app that stays over closed, and announced? | 1 app, closable or not, grace 2, a midnight |
| `closed_without_grace` | is an app closed at once really a newcomer? (no) | as `limits` |
| `sync` | never too much, exact after a cycle, counted in the end | 1 app, totals to 2, 2 days, a restart, both mishaps |
| `settings` | is the file an atomic store, is a save that succeeded found, is anything recorded unasked? | the three settings of consent and one more, two values each |
| `licence` | is Premium paid for, and safe from outages? | 2 licences, grace 2, term 2, 2 requests at once, one change of machine |
| `linking` | one registration, a form that unlocks, codes that work, a page that keeps up | 1 other device, 2 registrations, 2 codes and requests about groups at a time, code shown 1, remembered 2, delayed by 1 |
| `data` | is deleted what should be, and only that? | 2 programs, 2 app ids, 2 sessions, 3 days, keep all or one day, ids given out again on the third |
| `clear_today` | is counted usage saved, whatever the user deletes? (no) | as `data` |
| `desktop` | does the process end, and in the right order? | the three workers and the icon of the program |
| `calculations` | do the rules give what their references say? | the questions below |

*Why the bounds are enough to meet the cases.*

- `sessions`: two sessions are the least for a split and for a restart; a clock to
  2 with a cap of 1 has a gap that exceeds the cap. Apps share the passes of the
  threads and nothing else; that their ids are not mixed up is what two apps in
  `UsageSessions_faults.cfg` (below), and the proofs for any number, show.
- `limits`: two launches let a program be replaced while it is being closed, and a
  grace of 2 lets a deadline be half over.
- `sync`: totals grow twice a day, so that a late upload is smaller than a later
  one; `StaleAfter = 1` lets a figure be fresh, at its limit, and stale.
- `settings`: the number of saves and crashes is not bounded at all. One setting
  besides consent's lets a save for another purpose carry half a consent.
- `licence`: days and requests are not bounded in number, ages are counted to one
  past the grace period. Two licences are what a refresh and an activation can
  disagree about.
- `linking`: `Display + Delay = Lifetime` is the tightest case the assumption
  `LinkingAssumption` allows: the source shows a code 270 seconds, the server keeps
  it 300. Two requests at a time (`MaxAsked`) let one overtake another, and two
  registrations change the identity under either.
- `data` leaves the type invariant, which is proved, to `DataLifecycleProofs`. An id is
  free again after one removal, so two ids show whether it is given out again; three days
  are the least for a row that is kept for a day and then not. `ResetsFrom` keeps what
  `idsReset` excuses to the last day: everything may be deleted at any time, but under
  open sessions on that day only. The proofs have no such bound.
- `calculations`: the edges of each rule. Focus hours at midnight, at the window's
  ends and the minute before, on its days and the day after, with junk in any
  setting; names of up to four tokens from every class the key distinguishes; stores
  with sessions on both sides of a week and of a month and ahead of today, each with
  every choice of what cannot be read; the longest text of each of the ten versions in
  each level, every mask forced once, and two texts too long.

*Deadlock* is checked in every run; time, the user or the next question can always
act. In `desktop` that is a result: a `join()` without a timeout would deadlock.

*Symmetry* is used in runs without liveness properties only, over apps, session ids,
programs or licence keys, which no action or property distinguishes.

*Fairness.* Most modules state safety only. `LimitEnforcement` takes weak fairness of
the two thread loops (`while` loops with a sleep, that catch every exception) and of
time. `SyncClient` takes weak fairness of the sync thread's loop, and strong fairness
of the app mapping, of an upload being answered and of a fetch being answered: a
network that fails again and again but not for ever. `DeviceLinking` takes weak
fairness of what Tk owes the page: its timers and redraws, not the network's
answers. `DesktopProcess` takes weak fairness of the shutdown's next call (it runs on
the Tk thread, and each wait has a timeout) and of a worker's end of work, and strong
fairness of callbacks in the main loop, which Tk takes in turn although the user keeps
it busy. Nothing is assumed of users, other devices or the clock.

**Further configurations.** They are kept for a developer who changes the code.
Each but the last ends in a counterexample today:

| Configuration (module) | Property |
|---|---|
| `UsageSessions_stop.cfg` (`MCUsageSessions`) | `StopEndsEverySession` |
| `LimitEnforcement_breach.cfg` (`MCLimitEnforcement`) | `EachBreachIsNew` |
| `LimitEnforcement_rearm.cfg` (`MCLimitEnforcement`) | `StopRearmsNotice` |
| `SyncClient_upload.cfg` (`MCSyncClient`) | `UploadLeavesOthersAlone` |
| `SyncClient_midnight.cfg` (`MCSyncClient`) | `NeverStricter` |
| `Consent_asks.cfg` (`MCConsent`) | `AsksAgain` |
| `Licensing_reverify.cfg` (`MCLicensing`) | `ReverifiedInTime` |
| `DeviceLinking_stale.cfg` (`DeviceLinking`) | `ListOnlyGrows` |
| `DataLifecycle_retention.cfg` (`MCDataLifecycle`) | `OlderIsDeleted` |
| `UsageSessions_faults.cfg` (`MCUsageSessions`) | `IInv`, which the proofs rest on, with two apps and failing writes: holds |

## 4. What the models found

The first two are `findings` in `PROJECT.json`, with runs that show them; the others
are shown by the further configurations, or by the property named.

- An app that was open before ProtBot started looks newly launched and is closed
  at once, unwarned, although it may hold unsaved work (`closed_without_grace`).
- "Clear today" deletes the row under a running session and does not tell the
  monitor. What the app is used from then on until it stops, or until midnight, is
  written to no row, and its limit starts from nothing (`clear_today`).
- `stop()` ends the sessions it copied, clears the map, and only then waits for
  the poll, which can start another session that nothing ends.
- A deadline outlives its breach. A second breach on the same day finds it
  passed, and the app is closed without a warning.
- The end of a session discards the bare id from a set of strings, so it does
  not re-arm the notice.
- An upload is taken off a group total that was fetched before it, so other
  devices' usage is understated until the next fetch.
- Totals read before midnight and dated after it become the new day's. The
  server keeps the larger value, and the difference then counts as another
  device's usage.
- A withdrawal of consent none of whose saves succeeds is announced all the same
  ("ProtBot will ask again"), and the next start records without asking.
- An entitlement whose grace period is over is no longer *stale*, so the refresh at
  start-up stops asking; a process that is not restarted within the period never
  asks. A paid licence then lapses although the server could have been reached.
- For 600 ms after a registration its form is still there; Enter registers once more,
  and this PC has a second identity (`DeviceLinking!OneIdentity` does not hold).
- An answer without a usable code stops the countdown of the code on screen, which
  then stays after the server has forgotten it (`DeviceLinking!DeadCodeIsClosed` does
  not hold).
- `delete_all_data()` resets the id sequences under a running monitor, which goes
  on writing to ids that are given out again. `DeletedStaysDeleted` and
  `UsageIsTheApps` are stated for histories without this (`idsReset`).
- The answers of two fetches are stored in the order they arrive. An older one that
  comes last takes a device off the list that had just been linked (`ListOnlyGrows`).
- "Older history is deleted automatically, once a day" (`settings_page.py:450`): a start
  of ProtBot notes its day without pruning, so that a ProtBot that is restarted every
  day never deletes; and a poll that was held up over days writes a row of the day it
  began on, after the deletion (`OlderIsDeleted`).

Seen while reading, without a property of its own: where no icon can be made, closing
the window hides it all the same, and nothing shows it again (`main.py:158-163`); an
outside end of the window stops the monitor but not the sync thread (`main.py:210-216`);
`clear_today()` uses the connection without the database's lock
(`processes_page.py:380-395`); the Processes page adds the running session to a total
that contains what of it was saved (`processes_page.py:173-181`); the hours of the
Insights tab and an app's history have no last day (`database.py:277-287, 315-326`), so
that sessions recorded under a clock that was ahead count there and in no other report
of the week (`WeekAddsUp` says by how much); a full export loses the usage history with
the list of apps, which it reads again (`dataexport.py:111`), though one section is not
to take another with it (`dataexport.py:64-67`; `ExportIsWhole` says which do); after a
second registration the list names this PC's first identity as another device; the
Devices tab takes any answer to a join that is no HTTP error, `ok: false` included, for
success (`devices_page.py:684-695`); a package `com.<product>.app` ends in an
executable's suffix, so its key is `com<product>`, the same on both platforms; a name
between whose dots nothing but hyphens stands has no key, although it has words
(`com.-.x`; `OneKey` excepts it).

## 5. What is proved

For every value of the constants, under the named assumptions of the modules:

- numbers are natural, the "none" values are no elements (`NoneAssumption`), defaults
  are settings, a grace period is at least one tick (`MIN_GRACE_SECONDS`);
- `ReadsAssumption`: there are finitely many session ids, as there are rows in a table;
- `LinkingAssumption`: a code is delayed and shown for no longer than the server keeps
  it, both together (the source shows it for 270 of 300 seconds);
- `CalculationsAssumption`: questions are of the types the code can ask: texts that
  `parse_time()` gets or cannot read, minutes and weekdays, names that are sequences
  of words and separators, and stores the schema allows (`StoreOK`: ids are keys, a session has an app, seconds are counts).

TLC evaluates each of them in the runs.

| Theorem | States |
|---|---|
| `UsageProofs!TypeCorrect` | `TypeOK` |
| `UsageProofs!RowsTrackSessions` | `RowTracksSession` |
| `UsageProofs!NothingCreditedTwice` | `NoMomentCreditedTwice` |
| `UsageProofs!CreditDay` | `CreditGoesToPollDay` |
| `UsageProofs!ReadersOnlyLook` | `SpecR => Spec`: with readers, the accounting is what it is alone |
| `UsageProofs!ReadsInvariance` | `IInv` and `RInv`, of both |
| `UsageProofs!ReadsAreRecent` | `ReadWithinOneInterval`, unless `DiskFaults` |
| `UsageProofs!AccountingKeepsLedger` | `KeepsLedger`: the refinement of `UsageLedger`, unless `DiskFaults` |
| `UsageProofs!LedgerBoundsLoss` | the ledger's `CrashCostsOneInterval`, of whatever implements it |
| `UsageProofs!CrashesCostOneInterval` | the same of the accounting, unless `DiskFaults` |
| `LimitEnforcementProofs!LimitTypeCorrect` | `TypeOK` (no run lists it) |
| `LimitEnforcementProofs!DaysStartAfresh` | `DayStartsAfresh` |
| `LimitEnforcementProofs!GraceGiven` | `GraceIsGiven` |
| `SyncClientProofs!SyncTypeCorrect` | `TypeOK` |
| `SyncClientProofs!NeverOvercounted` | `RemoteNeverOvercounts` |
| `SyncClientProofs!ExactAfterCycle` | `CycleIsExact` |
| `ConfigStoreProofs!SavedIsFound` | `TypeOK` and `SavedIsStored` |
| `ConfigStoreProofs!StoreIsAtomic` | `OldOrNew`: the refinement of `SettingsStore` |
| `ConfigStoreProofs!ConsentTypes` | `ConsentTypeOK` |
| `ConfigStoreProofs!NeverRecordedUnasked` | `NothingRecordedUnasked` |
| `ConfigStoreProofs!CutShortHolds` | `CutShortIsWithdrawn` |
| `MainProofs!TypeCorrect` | `TypeOK` |
| `MainProofs!Backed` | `PremiumIsBacked` |
| `MainProofs!OutagesRevokeNothing` | `OutageNeverRevokes` |
| `MainProofs!ProcessTypeCorrect` | `ProcessTypeOK` |
| `MainProofs!NoWorkOnClosedDatabase` | `ClosedAfterUse` |
| `MainProofs!IconGoesWithThread` | `IconIsOwned` |
| `DataLifecycleProofs!TypeCorrect` | `TypeOK` (no run lists it) |
| `DataLifecycleProofs!RemovedAppsAreForgotten` | `RemovedIsForgotten` |
| `DataLifecycleProofs!DeletedRowsStayDeleted` | `DeletedStaysDeleted` |
| `DataLifecycleProofs!UsageIsEarned` | `UsageIsTheApps` |
| `DataLifecycleProofs!NothingElseDeletes` | `HistoryIsKept` |
| `DeviceLinkingProofs!TypeCorrect` | `TypeOK` |
| `DeviceLinkingProofs!NoDoubleFire` | `OneAtATime` |
| `DeviceLinkingProofs!OfferedCodesWork` | `OfferedCodeWorks` |
| `DeviceLinkingProofs!PageIsDrawn` | `PageKeepsUp` |
| `CalculationsProofs!ActiveIsWindow` | focus hours are on exactly within a window of a chosen day |
| `CalculationsProofs!FocusOnlyTightens` | the limit in force is never looser than the app's own, nor, in the window, than the cap |
| `CalculationsProofs!FocusHours` | `FocusHoursTighten` |
| `CalculationsProofs!OneKeyPerName` | `OneKey` of every sequence of tokens: one key on both platforms, and when it can be empty |
| `CalculationsProofs!ProductsMeet` | the `Shapes` of a product have one key, for every product word (`IsProduct`) and vendor |
| `CalculationsProofs!Keys` | `SameKeyEverywhere` |
| `CalculationsProofs!WeekIsOne` | `WeekAddsUp` of every store: the same by app and category; by day and hour, that and what is dated ahead |
| `CalculationsProofs!CsvIsTheMonth` | the CSV is the last thirty days of the full history, for every store |
| `CalculationsProofs!ExportHasAll` | `ExportIsWhole` of every store, whatever cannot be read |
| `CalculationsProofs!TabAgrees` | `InsightsAgree` of every store and every order of ties |
| `CalculationsProofs!Figures` | `FiguresAgree` |

**UsageSessions.** "At most one interval behind" is not inductive: it says
nothing of the moment before a credit. `IInv` adds that a session which may still
be credited in this poll is fully saved (`SavedWhenDue`), and that what `stop()`
has read and not yet written is at most one interval old (`StopWritesRecent`).
That is why a lagging write by `stop()` does no harm: the flag it raises first
keeps the monitor thread from beginning a second poll. "Nothing twice" needs that
only the latest session of an app can be credited (`OnlyLatestEarns`), which in
turn needs that a row is blank until its dict exists (`BlankUntilRecorded`) and
that ids are not mixed up (`HandsOK`). `CreditDayOK` carries the poll's date from
the split to the credit. One lemma per action shows `IInv` preserved; actions that
only move the control share lemmas (`QuietStep`, `MoveOnStep`, `TakeUpStep`).

**UsageReads.** That a read is off by one interval at most is a fact about sums over
rows, while a poll moves one session at a time. `RInv` has what makes it so: of an
app's sessions in this run one at most has seconds that its row lacks (`OneBehind`),
because a poll visits an app once and saves what it credited before the next poll
begins, and `stop()` keeps a second poll from beginning; and no session lacks more
than an interval (`UnwrittenIsRecent`). Then the sum of the rows and the truth differ
by what one session lacks (`SumAhead` and the lemmas about `SumFunctionOnSet`), and
`HalfReadIsRecent` carries this from the first half of a read to the second, during
which nothing credited is taken back. All but types needs a database that works.

**UsageLedger.** The mapping is of sums again. A step of the accounting changes one
session's credit or one row's seconds, so one entry of the ledger
(`EntryChanges`, with `SumDiffersAt` for the sum), and the invariants of the two
modules give the guards. `Accrue` is `Use`: the session it credits is fully saved
(`SavedWhenDue`), and by `OneBehind` no other of the app lacks anything, on any day
(`SavedIsSettled`). The statements that write a row (`SaveRow`, `SplitEnd`,
`EndSession`, and `stop()`'s) are `Keep`: what they write is no more than was credited,
at most an interval less, and every other session of the app is saved. A `StartRow` adds a
row of nothing and changes neither sum; what only moves dicts or control
changes neither (`DictsInLedger`, `ThreadsInLedger`); `RelaunchR` is `Lose`. That a
crash costs an app one interval of one day is then a fact about two functions and
three actions (`LedgerBoundsLoss`), and holds of the threads by the refinement. With
failing writes it does not: an interval that could not be saved is followed by the next.

**LimitEnforcement.** Grace holds because of `GraceRuns`: time left and time since
the last warning make up the grace period, for every deadline there is, whichever
thread set it. Ticks keep the sum, a new deadline comes with a new warning, and
everything else only removes deadlines. That `GoesAhead` is a step of `Decide` with
a passed deadline is the lemma `OnlyDecideCloses`. That each day starts afresh is less
obvious than the reset looks, because the date is read before the lock is taken: a thread
may come late with a date that the other has left behind, and resets a second time.
`RecordsAreNew` says that deadlines and notices on record are no older than the last
reset, nor than any pass under way; a late reset clears them all the same, and no date is
ahead of today's (`DatesPassed`), so that what comes after is new enough. That a notice is
withheld only for one on record is `OnlyNoticeWithholds`.

**SyncClient.** What makes the subtraction right is spread over the cycle, and
`SyncInv` follows it. Totals that were just read are the most the server has, or
will ever get of what is on the wire (`SnapIsLatest`), because usage only grows
within a day. Once such an upload is accepted it is also recorded, so when the
group's totals are fetched the server has of us exactly what is recorded
(`OwnPartIsKnown`), and the reply minus our part is the others' (`ReplyIsExact`,
`GroupIsNoMore`). `DatesPast` and `DatesAgree` are what midnight needs: whatever
was dated before it is of no consequence after it. All but types and dates holds
on days without a mishap only; that a spoiled day ends at midnight is part of what
is proved. Steps that change nothing of this share the lemma `QuietStep`.

**ConfigStore and Consent.** The refinement needs no history: `Set` is `Change`,
`Place` is `Save`, `Load` is `Reload`, and every other step leaves `Loaded` as it was.
Moving the live file to the backup does so because the file moved was the one that
counted (`StepSaved` uses the same fact). Consent needs `ConsentInv`: what an
operation has still to set says yes only while an acceptance is being recorded, and
without an agreement there is no sign of one in memory or on disk. It is kept by
`FileStep`, one lemma about what any step of a save can make of the version, and
`ConsentUsesStore` carries the theorem about saves over to the composition.

**Licensing.** The age of an entitlement is a count of its own. `Inv` relates it to
the server's: an entitlement's licence has been unpaid for no longer than the
entitlement is old. It holds when an answer is stored because no day passes between
an answer and its use (`AnswersAreFresh`). `OutageNeverRevokes` looks at the steps that
can end Premium: an activation replaces an entitlement by one that is new, of this
machine and of a licence that has days left (`StoredIsPremium`), so only time, a change
of machine and a rejected refresh remain.

**DesktopProcess.** Which workers can still be running when the database is closed
depends on how far the shutdown is, and any call of it may fail. `StoppedInOrder` says
it for the call that comes next: the workers it has to come after have ended, were given
up (`waived`), or are in the line of threads that are being joined, in which case it is
not its turn yet. A call hands this on to the one after it (`CallKeeps`, with `TodoAfter`
for what that is), whether it succeeds or raises; a join settles the head of the line
(`JoinedKeeps`). The cleanup after an outside end of the window does not stop the sync:
there `window = "destroyed"` settles it. `NothingYet` says that before the start there is
nothing to stop. For the icon, `TrayStopped` says where it is while `stop()` is still to come
(`BeforeTray`), and that after it there is none, and none can come, unless it is `left`.

**DataLifecycle.** The monitor writes under ids it remembers, so the invariant is about
what an id can still mean. Each table gives an id out once, so a session's row, if it
has one, is of the session's app (`SessionOwns`), and a poll's list, which may be older
than a removal, names an app that is its own or gone (`ListOwns`). The foreign key does
the rest: an INSERT for a removed app fails, an UPDATE of a deleted row finds none.
`IdsMeanOneThing` lasts until everything is deleted under open sessions, which is what
the properties say too; `RemovedIsForgotten` needs no such condition. `HistoryIsKept`
needs only that a thread about to prune has read a retention that is not 0
(`PruneIsKnown`), and that no step of a poll takes a row away (`PollAppKeepsRows`). One
lemma (`Deletion`) serves all statements that delete. That a checkpoint's loop may be
taken in any order is `AllSaved`.

**DeviceLinking.** `CodeIsTimed` relates the two ages of a code: it is older for the
server than here by no more than its delay, so the countdown ends first. `GuardHolds`
counts: until a watchdog fires, the guard is up exactly while one registration has a
thread or a callback. `PageKeepsUp` is inductive: a thread that sets the identity also
queues the end of its registration, which stays queued until its turn (`DoneStays`) and
then asks for a redraw; one that sets the list asks for it at once; and a page that is
drawn shows what is set. `IdsCounted` keeps identities apart.

**Calculations.** Four of the reports group the same rows in different ways, and the
theorems say that the sums agree for every set of rows. The library's sums are defined
by a fold, so `SumWithout` (a sum is one term and the rest) comes from the fold's
defining equation by a smallest counterexample (`SmallestSubset`: of the subsets of a finite
set with a property one is smallest), which needs no theorem about operators.
From it come `SumOfParts` and `SumOfGroups`: a sum over rows is the sum of the sums of its
groups, by app, day, category or hour; by day and hour the rows are the week's and those
ahead of it (`WeekAndAhead`). The top three and the peak are largest elements of
an order. The two platforms look for the platform segment of a package by different
conditions, which find the same one or none (`SameMark`). That a name has a key goes
back from the empty key: its words are none (`NoTokens`), so what they were taken from
is separators up to a suffix (`NoWords`), and that is the stripped name or, as the
product is always one of the segments (`ProductIsSegment`) and a segment has no dot to
end it like a suffix, a blank segment. That a product's shapes meet needs what `split()`
makes of words between dots: the starts are the odd positions, counted by a bijection
(`OddPositions`, `WordsBetweenDots`). It holds for every word but the noise, platform,
type and suffix words, which `IsProduct` excludes, and for every vendor, one that is
called like a platform included. `Figures`, `FocusHours` and `Keys` then follow from
the invariant `AnswerIsDue`: what `Calculations` has answered is the answer to what it
was asked.

**Schedule.** By cases of the window: it lies within a day or passes midnight; in
the second case the day before is `(weekday - 1) % 7`, which the lemma `DayBefore`
supplies.

**Model-checked only.** Liveness (`OverLimitIsClosed`, `OverLimitIsAnnounced`,
`OthersAreCounted`, `FormUnlocks`, `QuitEnds`), because the prover does not treat
fairness or `ENABLED`. `SymbolIsRead` is about functions that go through a sequence
(folds over bytes, blocks and modules): what they compute for every input needs
induction with theorems that the installed provers cannot instantiate.
`OnlyNewcomersLackGrace` and `ProgressIsSaved`, which do not hold.

## 6. What is not modelled

- *The Android application* (`android/`): a second program in another language. Of
  it only the app key is here, which both sides must agree on. The blocker's
  snapshot, the usage worker and its sync are the largest part left.
- *Windows I/O*: foreground and idle detection, process listing, notifications,
  widgets, layout, wording.
- *Several processes per program, and process ids used again* (`procutil.py`).
- *Real time*: a poll can be late by any number of ticks; that the watcher comes
  round every five seconds is not stated. `GraceIsGiven` is about the wall clock,
  which the code goes by; a clock set forward shortens the real period. A licence
  request lasts less than a day.
- *The servers' own faults*: `SyncClient` assumes that the server does what
  `server/models.py` asks, and that `/sync`, which carries no date, is answered
  for the client's date. `DeviceLinking` assumes an identity per registration and a
  code's lifetime; `Licensing`, that a paid licence is called premium.
- *Deletion under a sync*: within a day usage only grows in `SyncClient`, and
  registration is a switch; `server_app_ids` after a deletion is not followed.
- *Damage to the settings files from outside*, and the values of settings.
- *Plausibility limits* (86400 seconds) in the sync protocol: totals stay within
  a day in the model.
- *Edits of an app's name and limits* in `DataLifecycle`: they are environment steps
  of `LimitEnforcement`. *Schema migration and the data directory's migration*: each
  runs once, before anything else.
- The parsing, formatting and generating of link codes; updates, crash reports,
  logging, the catalogue and packaging: one-shot I/O and data tables without
  shared state of their own.

## 7. Plan

Done: accounting, reads, enforcement, sync; settings with their abstract store,
consent, licensing; linking with its symbol; the data's life; the process; the rules
and reports. Next, in the order of what matters most to the user:

1. `UsageLedger` with failing writes: what a crash costs then, by the number of polls
   whose writes failed.
2. `AndroidBlocker`: policy snapshot, collector, workers, and how stale a decision
   can be.
3. `ProcessClosing`: several processes per program and ids used again, as a
   refinement of the two closing steps of `LimitEnforcement`.
4. An abstract "other devices" figure, implemented by `SyncClient` within a day. It is
   not monotone, as one would have it: an upload takes from it until the next fetch
   (`UploadLeavesOthersAlone`, section 3).
5. `SyncClient` with registration anew and erased data.
