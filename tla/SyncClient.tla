------------------------------ MODULE SyncClient ------------------------------
(***************************************************************************)
(* How the desktop learns what the user's other devices used today, so     *)
(* that a limit counts them all (core/syncclient.py, core/syncproto.py).   *)
(*                                                                         *)
(* The sync thread runs one cycle at a time: map the apps to server ids,   *)
(* upload today's running totals, fetch the group's totals.  Requests can  *)
(* fail, with or without having reached the server, and arrive late or     *)
(* repeatedly.  Meanwhile the monitor thread reads remote_seconds_for() at *)
(* any moment, the app is used here and elsewhere, midnight passes, and    *)
(* ProtBot is restarted.                                                   *)
(*                                                                         *)
(* There is no server in the repository.  Its part is what server/models.py*)
(* asks of one: it keeps the largest total per device, app and date, dates *)
(* are the client's, and a group total is everybody's for today.  Only     *)
(* today's figures are kept here: no request concerns an earlier date.     *)
(* All the other devices of the user count as one.                         *)
(***************************************************************************)
EXTENDS Naturals

CONSTANTS Apps,         \* the tracked applications
          StaleAfter,   \* REMOTE_STALE_AFTER_SEC, in ticks
          Mishaps,      \* which rare events to consider: "midnight" between
                        \* reading the totals and dating them; a failing "read"
          MaxUse,       \* bound: usage per app, day and side
          LastDay,      \* bound: the last date
          MaxRestarts,  \* bound: how often ProtBot is restarted
          NoDay         \* the empty _group_date and _uploaded_date

ASSUME SyncAssumption ==
  /\ StaleAfter \in Nat /\ MaxUse \in Nat /\ LastDay \in Nat /\ MaxRestarts \in Nat
  /\ Mishaps \subseteq {"midnight", "read"}
  /\ NoDay \notin Nat

VARIABLES
  today,
  local,     \* get_all_usage_today(), by app
  enabled,   \* consented to, and registered
  mapped,    \* the apps in server_app_ids
  pc,        \* where the sync thread is
  snap,      \* local_totals of this cycle
  stamp,     \* the date `z` of the upload
  day,       \* the cycle's own variable `today`
  reply,     \* the answer to /sync, and what of it is from other devices
  group,     \* _group_totals, _group_date and how long ago it was fetched
  uploaded,  \* _uploaded and _uploaded_date
  stored,    \* server: this device's totals for today
  theirs,    \* server: the other devices' totals for today
  wire,      \* uploads for today that may still, or again, reach the server
  spoiled,   \* history: a mishap has touched today's figures
  restarts

cycle  == <<snap, stamp, day, reply>>
memory == <<group, uploaded>>
server == <<stored, theirs, wire>>
vars   == <<today, local, enabled, mapped, pc, cycle, memory, server, spoiled, restarts>>

None == [a \in Apps |-> 0]
NeverFetched == [totals |-> None, date |-> NoDay, age |-> StaleAfter + 1]
NeverUploaded == [totals |-> None, date |-> NoDay]
NoReply == [totals |-> None, others |-> None]

-----------------------------------------------------------------------------
(* What the protocol computes *)

\* Fault: uploads are added up, as if they were deltas.
Summed(s, m) == [a \in Apps |-> s[a] + m[a]]

\* max(stored, received)
Larger(s, m) == [a \in Apps |-> IF m[a] > s[a] THEN m[a] ELSE s[a]]

\* SyncResp.apps: "the group total per app, including the requesting device's"
GroupTotals == [a \in Apps |-> stored[a] + theirs[a]]

\* Fault: freshness is taken to be enough, whatever date the totals are of.
AnyFresh == group.age <= StaleAfter

\* The group totals can be used: recent, and of this date.
Usable == group.age <= StaleAfter /\ group.date = today

\* What is known to be our own part of them.
Own(a) == IF uploaded.date = today THEN uploaded.totals[a] ELSE 0

\* remote_seconds_for()
Remote(a) ==
  IF enabled /\ a \in mapped /\ Usable /\ group.totals[a] > Own(a)
  THEN group.totals[a] - Own(a)
  ELSE 0

\* Fault: yesterday's upload is kept, under today's date.
KeptUpload(d) == [uploaded EXCEPT !.date = d]

\* "A new day means our recorded upload is about yesterday."
UploadOf(d) == IF uploaded.date = d THEN uploaded ELSE [totals |-> None, date |-> d]

\* Fault: a cycle without anything to upload ends there.
SleepIfEmpty == IF snap = None THEN "sleep" ELSE "upload"

\* Nothing to upload is no reason not to fetch.
AfterDating == IF snap = None THEN "fetch" ELSE "upload"

-----------------------------------------------------------------------------
Init ==
  /\ today = 0
  /\ local = None
  /\ enabled = FALSE
  /\ mapped = {}
  /\ pc = "sleep"
  /\ snap = None /\ stamp = 0 /\ day = 0 /\ reply = NoReply
  /\ group = NeverFetched
  /\ uploaded = NeverUploaded
  /\ stored = None /\ theirs = None /\ wire = {}
  /\ spoiled = FALSE /\ restarts = 0

-----------------------------------------------------------------------------
(* One cycle: _sync_once() *)

\* The cycle is over; its local variables mean nothing any more.
Return ==
  /\ pc' = "sleep"
  /\ snap' = None /\ stamp' = 0 /\ day' = 0 /\ reply' = NoReply

BeginCycle ==
  /\ pc = "sleep" /\ enabled
  /\ pc' = "map"
  /\ UNCHANGED <<today, local, enabled, mapped, cycle, memory, server, spoiled, restarts>>

\* _ensure_app_ids(); without an answer the cycle goes on with what it has.
MapApps ==
  /\ pc = "map"
  /\ mapped' = Apps
  /\ pc' = "read"
  /\ UNCHANGED <<today, local, enabled, cycle, memory, server, spoiled, restarts>>

MapFails ==
  /\ pc = "map"
  /\ pc' = "read"
  /\ UNCHANGED <<today, local, enabled, mapped, cycle, memory, server, spoiled, restarts>>

\* _local_totals_by_server_id(); a failing query counts as no usage.
ReadTotals ==
  /\ pc = "read"
  /\ \/ /\ snap' = [a \in Apps |-> IF a \in mapped THEN local[a] ELSE 0]
        /\ UNCHANGED spoiled
     \/ /\ "read" \in Mishaps
        /\ snap' = None
        /\ spoiled' = TRUE
  /\ pc' = "build"
  /\ UNCHANGED <<today, local, enabled, mapped, stamp, day, reply, memory, server, restarts>>

\* build_upload() dates the payload ...
BuildUpload ==
  /\ pc = "build"
  /\ stamp' = today
  /\ pc' = "date"
  /\ UNCHANGED <<today, local, enabled, mapped, snap, day, reply, memory, server, spoiled, restarts>>

\* ... and the cycle notes the date for itself.
NoteDate ==
  /\ pc = "date"
  /\ day' = today
  /\ pc' = AfterDating
  /\ UNCHANGED <<today, local, enabled, mapped, snap, stamp, reply, memory, server, spoiled, restarts>>

\* The request leaves.  One that is dated yesterday cannot affect today.
PostUpload ==
  /\ pc = "upload"
  /\ wire' = IF stamp = today THEN wire \cup {snap} ELSE wire
  /\ pc' = "answer"
  /\ UNCHANGED <<today, local, enabled, mapped, cycle, memory, stored, theirs, spoiled, restarts>>

\* The server has it and its answer arrives: only now is it recorded.
UploadAccepted ==
  /\ pc = "answer"
  /\ stored' = IF stamp = today THEN Larger(stored, snap) ELSE stored
  /\ uploaded' = [totals |-> snap, date |-> day]
  /\ pc' = "fetch"
  /\ UNCHANGED <<today, local, enabled, mapped, cycle, group, theirs, wire, spoiled, restarts>>

UploadFails ==
  /\ pc = "answer"
  /\ Return
  /\ UNCHANGED <<today, local, enabled, mapped, memory, server, spoiled, restarts>>

FetchAnswered ==
  /\ pc = "fetch"
  /\ reply' = [totals |-> GroupTotals, others |-> theirs]
  /\ pc' = "apply"
  /\ UNCHANGED <<today, local, enabled, mapped, snap, stamp, day, memory, server, spoiled, restarts>>

FetchFails ==
  /\ pc = "fetch"
  /\ Return
  /\ UNCHANGED <<today, local, enabled, mapped, memory, server, spoiled, restarts>>

ApplyGroup ==
  /\ pc = "apply"
  /\ uploaded' = UploadOf(day)
  /\ group' = [totals |-> reply.totals, date |-> day, age |-> 0]
  /\ Return
  /\ UNCHANGED <<today, local, enabled, mapped, server, spoiled, restarts>>

Cycle ==
  \/ BeginCycle \/ MapApps \/ MapFails \/ ReadTotals \/ BuildUpload \/ NoteDate
  \/ PostUpload \/ UploadAccepted \/ UploadFails
  \/ FetchAnswered \/ FetchFails \/ ApplyGroup

-----------------------------------------------------------------------------
(* The world *)

\* A checkpoint of the monitor adds to today's usage.
UseHere(a) ==
  /\ local[a] < MaxUse
  /\ local' = [local EXCEPT ![a] = @ + 1]
  /\ UNCHANGED <<today, enabled, mapped, pc, cycle, memory, server, spoiled, restarts>>

UseElsewhere(a) ==
  /\ theirs[a] < MaxUse
  /\ theirs' = [theirs EXCEPT ![a] = @ + 1]
  /\ UNCHANGED <<today, local, enabled, mapped, pc, cycle, memory, stored, wire, spoiled, restarts>>

\* A delayed or repeated upload reaches the server.
Receive(m) ==
  /\ m \in wire
  /\ stored' = Larger(stored, m)
  /\ UNCHANGED <<today, local, enabled, mapped, pc, cycle, memory, theirs, wire, spoiled, restarts>>

\* Consent given or withdrawn, the device registered: the UI's doing.
SwitchSync ==
  /\ enabled' = ~enabled
  /\ UNCHANGED <<today, local, mapped, pc, cycle, memory, server, spoiled, restarts>>

Midnight ==
  /\ today < LastDay
  /\ pc \in {"build", "date"} => "midnight" \in Mishaps
  /\ spoiled' = (pc \in {"build", "date"})
  /\ today' = today + 1
  /\ local' = None /\ stored' = None /\ theirs' = None /\ wire' = {}
  /\ UNCHANGED <<enabled, mapped, pc, cycle, memory, restarts>>

Tick ==
  /\ group.age <= StaleAfter
  /\ group' = [group EXCEPT !.age = @ + 1]
  /\ UNCHANGED <<today, local, enabled, mapped, pc, cycle, uploaded, server, spoiled, restarts>>

\* Settings and database survive, the client's memory does not.
Restart ==
  /\ restarts < MaxRestarts
  /\ restarts' = restarts + 1
  /\ Return
  /\ group' = NeverFetched /\ uploaded' = NeverUploaded
  /\ UNCHANGED <<today, local, enabled, mapped, server, spoiled>>

World ==
  \/ \E a \in Apps : UseHere(a) \/ UseElsewhere(a)
  \/ \E m \in wire : Receive(m)
  \/ SwitchSync \/ Midnight \/ Tick \/ Restart

Next == Cycle \/ World

Spec == Init /\ [][Next]_vars

\* The sync thread runs, and no request fails for ever.
FairSpec ==
  /\ Spec
  /\ WF_vars(Cycle)
  /\ SF_vars(MapApps) /\ SF_vars(UploadAccepted) /\ SF_vars(FetchAnswered)

-----------------------------------------------------------------------------
(* Properties *)

Totals == [Apps -> 0..MaxUse]
Dates == 0..LastDay

\* Every variable stays in its type (syncclient.py:129-151).
TypeOK ==
  /\ today \in Dates /\ local \in Totals
  /\ enabled \in BOOLEAN /\ mapped \subseteq Apps
  /\ pc \in {"sleep", "map", "read", "build", "date", "upload", "answer", "fetch",
             "apply"}
  /\ snap \in Totals /\ stamp \in Dates /\ day \in Dates
  /\ reply \in [totals : [Apps -> 0..2*MaxUse], others : Totals]
  /\ group \in [totals : [Apps -> 0..2*MaxUse], date : Dates \cup {NoDay},
                age : 0..StaleAfter + 1]
  /\ uploaded \in [totals : Totals, date : Dates \cup {NoDay}]
  /\ stored \in Totals /\ theirs \in Totals /\ wire \subseteq Totals
  /\ spoiled \in BOOLEAN /\ restarts \in 0..MaxRestarts

\* "A sync problem must never be able to make a limit stricter than the user's
\* own machine can account for" (monitor.py:533-535): the figure never exceeds
\* what the other devices used today.
NeverStricter ==
  \A a \in Apps : Remote(a) <= theirs[a]

\* Whatever is lost, repeated, late or restarted, the limit does not get
\* stricter than that (monitor.py:528-537); and a day that a mishap spoiled
\* leaves nothing behind for the next.
RemoteNeverOvercounts ==
  ~spoiled => NeverStricter

\* "Subtracting our own contribution first and adding the remainder to the live
\* local figure is exact" (syncproto.py:41-47): a completed cycle leaves exactly
\* what the other devices had used when it was answered.
CycleIsExact ==
  [][ApplyGroup /\ day = today /\ enabled /\ ~spoiled =>
       \A a \in mapped : Remote(a)' = reply.others[a]]_vars

\* Failing requests, restarts and midnights do not keep the devices apart for
\* ever (syncclient.py:245-257): while sync stays on, the figure of every app is
\* right again and again.
OthersAreCounted ==
  <>[](enabled /\ ~spoiled) => []<>(\A a \in Apps : Remote(a) = theirs[a])

\* "It only knows about this device up to `uploaded_sec` - our last upload"
\* (syncproto.py:317-318): if the group total does, then a further upload takes
\* nothing away from what is counted for the other devices.
UploadLeavesOthersAlone ==
  [][UploadAccepted /\ day = today => \A a \in Apps : Remote(a)' = Remote(a)]_vars

-----------------------------------------------------------------------------
(* The inductive invariant behind them (SyncClientProofs) *)

\* The cycle has noted its date.
Dated == {"upload", "answer", "fetch", "apply"}

\* What an upload of now would contain.
Countable(a) == IF a \in mapped THEN local[a] ELSE 0

\* The server has, and will ever get of what was sent, no more than n of us.
ServerHasAtMost(n, a) == stored[a] <= n /\ \A m \in wire : m[a] <= n

\* No date is in the future.
DatesPast ==
  /\ stamp <= today /\ day <= today
  /\ group.date \in Nat => group.date <= today
  /\ uploaded.date \in Nat => uploaded.date <= today

\* Both dates of a cycle are today's, or neither is.
DatesAgree ==
  /\ pc = "date" => stamp = today
  /\ pc \in Dated => (day = today <=> stamp = today)

\* Totals that were read today are the most the server can have.
SnapIsLatest ==
  pc \in {"build", "date"} \/ (pc \in {"upload", "answer"} /\ stamp = today) =>
    \A a \in Apps : ServerHasAtMost(snap[a], a) /\ snap[a] <= Countable(a)

\* What is recorded as uploaded, the server has; and when the group's totals are
\* fetched, it has nothing else of us.
OwnPartIsKnown ==
  /\ uploaded.date = today => \A a \in Apps : uploaded.totals[a] <= stored[a]
  /\ pc = "fetch" /\ day = today => \A a \in Apps : ServerHasAtMost(Own(a), a)

\* The others' part of a reply is what is left without our own.
ReplyIsExact ==
  pc = "apply" /\ day = today =>
    \A a \in Apps : /\ reply.totals[a] = Own(a) + reply.others[a]
                    /\ reply.others[a] <= theirs[a]

\* So is the others' part of the totals in use, until they use more; and a cycle
\* that is late does not touch what it is computed from.
GroupIsNoMore ==
  group.date = today =>
    /\ \A a \in Apps : group.totals[a] <= Own(a) + theirs[a]
    /\ pc \in Dated => day = today

TodayOK ==
  /\ \A a \in Apps : ServerHasAtMost(Countable(a), a)
  /\ DatesAgree /\ SnapIsLatest /\ OwnPartIsKnown /\ ReplyIsExact /\ GroupIsNoMore

SyncInv == TypeOK /\ DatesPast /\ (~spoiled => TodayOK)

=============================================================================
