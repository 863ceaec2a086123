----------------------------- MODULE UsageReads -----------------------------
(***************************************************************************)
(* Reading today's usage from another thread (Monitor._usage_today_sec).   *)
(*                                                                         *)
(* The kill watcher, and the UI through get_status(), add what the         *)
(* database holds to what the running session has accrued since its last   *)
(* checkpoint.  The two parts are read in two steps, the monitor thread    *)
(* moves seconds from one to the other in two steps (SaveRow and           *)
(* MarkWritten), and no lock covers either pair.  The monitor thread's own *)
(* calls cannot interleave with its own checkpoints and are not modelled.  *)
(* What other devices report is added afterwards and belongs to SyncClient.*)
(***************************************************************************)
EXTENDS UsageSessions, FiniteSetsExt

\* SQLite has no more row ids than a 64-bit integer has values.
ASSUME ReadsAssumption == IsFiniteSet(SessionIds)

VARIABLES
  rpc,     \* "idle" or "half" (the database part has been read)
  reader,  \* for which app, on which day, the database part, and what had
           \* been credited when it was read
  earlier  \* the rows an earlier run of the process has left

rvars == <<rpc, reader, earlier>>

\* WHERE app_id = a AND date = d
RowsOf(a, d) == {id \in SessionIds : row[id].app = a /\ row[id].date = d}

\* get_today_usage_sec(): what the database holds of an app's day, today's.
KeptOn(a, d) == SumFunctionOnSet([id \in SessionIds |-> row[id].dur], RowsOf(a, d))
DbToday(a) == KeptOn(a, today)

\* The seconds really credited, but for what a crash has lost.
Credited(id) == IF id \in earlier THEN row[id].dur ELSE sess[id].counted
CreditedOn(a, d) == SumFunctionOnSet([id \in SessionIds |-> Credited(id)], RowsOf(a, d))
CreditedToday(a) == CreditedOn(a, today)

\* Fault: what is already in the row is added once more.
AllSeconds(id) ==
  IF id # NoSession /\ row[id].date = today THEN sess[id].counted ELSE 0

\* The uncheckpointed seconds of the session dict, when it is today's.
Uncheckpointed(id) ==
  IF id # NoSession /\ row[id].date = today /\ sess[id].counted > sess[id].written
  THEN sess[id].counted - sess[id].written
  ELSE 0

NoRead == [app |-> NoApp, day |-> CHOOSE d \in Days : TRUE, stored |-> 0, low |-> 0]

InitR == Init /\ rpc = "idle" /\ reader = NoRead /\ earlier = {}

\* total = self.db.get_today_usage_sec(app_id)
ReadDatabase(a) ==
  /\ rpc = "idle" /\ dbOpen
  /\ rpc' = "half"
  /\ reader' = [app |-> a, day |-> today, stored |-> DbToday(a), low |-> CreditedToday(a)]
  /\ UNCHANGED <<vars, earlier>>

\* What the caller gets.
Answer == reader.stored + Uncheckpointed(active[reader.app])

\* Under the monitor's lock: total += max(0, counted_sec - written_sec); return
ReadSession ==
  /\ rpc = "half"
  /\ rpc' = "idle" /\ reader' = NoRead
  /\ UNCHANGED <<vars, earlier>>

Read == (\E a \in Apps : ReadDatabase(a)) \/ ReadSession

\* A read does not outlive the process.
RelaunchR ==
  /\ Relaunch
  /\ rpc' = "idle" /\ reader' = NoRead
  /\ earlier' = {id \in SessionIds : row[id].app # NoApp}

NextR ==
  \/ Read
  \/ (Monitor \/ Main \/ Tick \/ ChangeDate) /\ UNCHANGED rvars
  \/ RelaunchR

SpecR == InitR /\ [][NextR]_<<vars, rvars>>

-----------------------------------------------------------------------------
(* Properties *)

\* The total is put together from what the database holds up to the last
\* checkpoint and what the session has accrued since (monitor.py:506-526).  A
\* read that races with a checkpoint may count those seconds twice or not at
\* all, but is off by one interval's credit at most, either way: a limit is
\* never enforced more than that early or late because of it.
ReadWithinOneInterval ==
  [][ReadSession /\ today = reader.day =>
       /\ reader.low <= Answer + Cap
       /\ Answer <= CreditedToday(reader.app) + Cap]_<<vars, rvars>>

\* What all of it is for (monitor.py:379-388, 436-504; stop(), 118-132): by app and
\* day, the seconds credited and the seconds in the database are a ledger in which an
\* app earns nothing while something of it is unsaved, whatever polls, stop(), midnight
\* and restarts do to each other: a crash costs an app one interval of one day at most.
UsedSeconds == [a \in Apps |-> [d \in Days |-> CreditedOn(a, d)]]
KeptSeconds == [a \in Apps |-> [d \in Days |-> KeptOn(a, d)]]

Ledger == INSTANCE UsageLedger WITH used <- UsedSeconds, kept <- KeptSeconds

KeepsLedger == Ledger!Spec

-----------------------------------------------------------------------------
(* The inductive invariant behind them *)

ReaderOK ==
  /\ rpc \in {"idle", "half"}
  /\ reader \in [app : Apps \cup {NoApp}, day : Days, stored : Nat, low : Nat]
  /\ rpc = "half" => reader.app \in Apps
  /\ earlier \subseteq SessionIds

\* What an earlier run has left is in nobody's hands.
EarlierIsLeft ==
  \A id \in earlier :
    /\ row[id].app # NoApp
    /\ ~Open(id)
    /\ mpc \in Holding => poll.sid # id
    /\ mpc \in {"install", "reget"} => poll.new # id
    /\ id \notin poll.list \cup stop.list
    /\ spc = "write" => stop.sid # id

\* stop() ends sessions that have a row, and until it is called the session in the
\* monitor thread's hands is the app's own.
HandsFilled ==
  /\ \A id \in stop.list : row[id].app # NoApp
  /\ spc = "write" => row[stop.sid].app # NoApp
  /\ spc = "up" /\ mpc \in HoldsUncredited \ {"end"} =>
       active[row[poll.sid].app] = poll.sid

\* The row or written_sec lacks some of the session's seconds, or is about to.
Behind(id) ==
  \/ ~Saved(id)
  \/ sess[id].written # sess[id].counted
  \/ spc = "write" /\ stop.sid = id /\ stop.val # sess[id].counted

\* Of an app's sessions in this run one at most is behind: the poll credits it once,
\* and until stop() it is an open one that the same poll saves.
OneBehind ==
  \A id \in SessionIds \ earlier :
    Behind(id) =>
      /\ mpc \in Visiting => row[id].app \notin poll.todo
      /\ \A j \in SessionIds \ earlier : Behind(j) /\ row[j].app = row[id].app => j = id
      /\ spc = "up" =>
           /\ mpc # "wait" /\ Open(id)
           /\ mpc \in {"save", "mark"} => id \in poll.list

UnwrittenIsRecent == \A id \in SessionIds : sess[id].counted <= sess[id].written + Cap

\* What a reader has in hand lacks one interval at most, and nothing of it is taken back.
HalfReadIsRecent ==
  rpc = "half" =>
    /\ reader.stored <= reader.low
    /\ reader.low <= reader.stored + Cap
    /\ reader.low <= CreditedOn(reader.app, reader.day)

\* What TLAPS shows to be preserved by every step (UsageProofs).
RInv ==
  /\ ReaderOK /\ EarlierIsLeft /\ HandsFilled
  /\ ~DiskFaults => OneBehind /\ UnwrittenIsRecent /\ HalfReadIsRecent

=============================================================================
