----------------------------- MODULE UsageProofs -----------------------------
(***************************************************************************)
(* The accounting of usage, for any number of apps, sessions and days.     *)
(* First the sessions and their rows (UsageSessions): the lemmas on the    *)
(* record operators, the preservation of IInv by each action, and what     *)
(* follows.  Then the reads of today's usage (UsageReads): what is needed  *)
(* of sums, the preservation of RInv, and that a total put together from   *)
(* two parts that move is off by one interval's credit at most.  Last the  *)
(* ledger (UsageLedger): each step is one of its steps or leaves it alone. *)
(***************************************************************************)
EXTENDS UsageReads, FiniteSetTheorems, TLAPS

USE DEF Holding, HoldsUncredited, Visiting, env, store, mon, main

-----------------------------------------------------------------------------
(* What the record operators return *)

LEMMA EarnIs ==
  ASSUME NEW s \in Session, NEW c \in Nat, now \in Nat
  PROVE  /\ Earn(s, c) \in Session
         /\ Earn(s, c).counted = s.counted + c
         /\ Earn(s, c).written = s.written
         /\ Earn(s, c).tick = now
         /\ Earn(s, c).from = s.from
<1>1. s.counted + c \in Nat BY DEF Session
<1>2. QED BY <1>1 DEF Earn, Session

LEMMA EndedIs ==
  ASSUME NEW r \in Row, NEW d \in Nat
  PROVE  /\ Ended(r, d) \in Row
         /\ Ended(r, d).app = r.app /\ Ended(r, d).date = r.date
         /\ Ended(r, d).dur = d
  BY DEF Ended, Row

LEMMA NewRowIs ==
  ASSUME NEW a \in Apps, NEW d \in Days
  PROVE  /\ NewRow(a, d) \in Row
         /\ NewRow(a, d).app = a /\ NewRow(a, d).date = d
         /\ NewRow(a, d).dur = 0
  BY DEF NewRow, Row

LEMMA NewSessionIs ==
  ASSUME NEW t \in Nat
  PROVE  /\ NewSession(t) \in Session
         /\ NewSession(t).counted = 0 /\ NewSession(t).written = 0
         /\ NewSession(t).tick = t
         /\ NewSession(t).from = t
  BY DEF NewSession, Session

LEMMA VisitedIs ==
  ASSUME NEW p \in PollLocals, NEW a
  PROVE  /\ Visited(p, a) \in PollLocals
         /\ Visited(p, a).todo = p.todo \ {a}
         /\ Visited(p, a).list = p.list
         /\ Visited(p, a).sid = NoSession
  BY DEF Visited, PollLocals, MaybeSession

\* The types of the parts, for the arithmetic.
LEMMA Parts ==
  ASSUME TypeOK
  PROVE  /\ \A id \in SessionIds :
              /\ row[id] \in Row
              /\ row[id].dur \in Nat
              /\ row[id].app \in Apps \cup {NoApp}
              /\ sess[id] \in Session
              /\ sess[id].counted \in Nat
              /\ sess[id].tick \in Nat
              /\ sess[id].from \in Nat
         /\ now \in Nat
         /\ poll \in PollLocals
         /\ poll.date \in Days
         /\ poll.todo \subseteq Apps
         /\ poll.sid \in MaybeSession
         /\ poll.list \subseteq SessionIds
         /\ stop \in StopLocals
         /\ stop.val \in Nat
         /\ stop.list \subseteq SessionIds
  BY DEF TypeOK, Row, Session, PollLocals, StopLocals

-----------------------------------------------------------------------------
(* Steps that touch neither the rows nor the dicts *)

\* What such a step keeps, as long as no session becomes creditable by it.
LEMMA QuietStep ==
  ASSUME UsageAssumption, IInv,
         UNCHANGED <<row, sess>>, now' \in Nat, now <= now',
         mpc' \notin {"record", "install"} \/ UNCHANGED mon,
         \A id \in SessionIds : Open(id)' \/ InHand(id)' => Open(id) \/ InHand(id)
  PROVE  /\ BlankUntilRecorded' /\ OnlyLatestEarns'
         /\ NoMomentCreditedTwice' /\ RowTracksSession'
<1> USE DEF IInv
<1>1. BlankUntilRecorded'
  BY DEF BlankUntilRecorded
<1>2. OnlyLatestEarns'
  <2> SUFFICES ASSUME NEW id \in SessionIds
               PROVE  /\ sess'[id].tick <= now'
                      /\ Open(id)' \/ InHand(id)' => Latest(id)'
    BY DEF OnlyLatestEarns
  <2>1. sess'[id].tick <= now'
    BY Parts DEF OnlyLatestEarns
  <2>2. Open(id)' \/ InHand(id)' => Latest(id)'
    BY DEF OnlyLatestEarns, Latest
  <2>3. QED BY <2>1, <2>2
<1>3. NoMomentCreditedTwice' /\ RowTracksSession'
  BY DEF NoMomentCreditedTwice, RowTracksSession
<1>4. QED BY <1>1, <1>2, <1>3

LEMMA BeginPollStep == ASSUME UsageAssumption, IInv, BeginPoll PROVE IInv'
<1> USE DEF IInv, BeginPoll
<1>1. TypeOK'
  BY DEF TypeOK, NoPoll, PollLocals, MaybeSession
<1>2. HandsOK'
  BY DEF HandsOK, NoPoll
<1>3. \A id \in SessionIds : Open(id)' \/ InHand(id)' => Open(id) \/ InHand(id)
  BY DEF Open, InHand
<1>4. /\ BlankUntilRecorded' /\ OnlyLatestEarns'
      /\ NoMomentCreditedTwice' /\ RowTracksSession'
  BY <1>3, QuietStep, Parts
<1>5. ASSUME ~DiskFaults PROVE SavedUntilCredited'
  <2> SUFFICES ASSUME NEW id \in SessionIds
               PROVE  SavedWhenDue(id)' /\ StopWritesRecent(id)'
    BY DEF SavedUntilCredited
  <2>1. poll' \in PollLocals /\ poll'.todo \subseteq Apps
    BY <1>1 DEF TypeOK, PollLocals
  <2>2. Pending(id)' => Open(id)
    BY <2>1 DEF Pending, Open, InHand
  <2>3. Open(id) => Saved(id)
    BY <1>5 DEF SavedUntilCredited, SavedWhenDue, Stopping, TypeOK
  <2>4. QED
    BY <2>2, <2>3 DEF SavedWhenDue, StopWritesRecent, Saved, Stopping
<1>6. QED BY <1>1, <1>2, <1>4, <1>5

LEMMA ExitLoopStep == ASSUME UsageAssumption, IInv, ExitLoop PROVE IInv'
<1> USE DEF IInv, ExitLoop
<1>1. TypeOK' /\ HandsOK'
  BY DEF TypeOK, HandsOK
<1>2. \A id \in SessionIds : Open(id)' \/ InHand(id)' => Open(id) \/ InHand(id)
  BY DEF Open, InHand
<1>3. /\ BlankUntilRecorded' /\ OnlyLatestEarns'
      /\ NoMomentCreditedTwice' /\ RowTracksSession'
  BY <1>2, QuietStep, Parts
<1>4. ASSUME ~DiskFaults PROVE SavedUntilCredited'
  BY <1>4 DEF SavedUntilCredited, SavedWhenDue, StopWritesRecent, Pending, InHand,
     Saved, Open, Stopping
<1>5. QED BY <1>1, <1>3, <1>4

\* The poll moves on to the next app, leaving this one as it is.
LEMMA MoveOnStep ==
  ASSUME UsageAssumption, IInv, NEW a, mpc = "visit", poll' = Visited(poll, a),
         UNCHANGED <<now, today, row, dbOpen, active, sess, mpc, spc, stop>>
  PROVE  IInv'
<1> USE DEF IInv
<1>1. poll' \in PollLocals /\ poll'.todo = poll.todo \ {a} /\ poll'.list = poll.list
  BY VisitedIs, Parts
<1>2. TypeOK' /\ HandsOK'
  BY <1>1 DEF TypeOK, HandsOK
<1>3. \A id \in SessionIds : Open(id)' \/ InHand(id)' => Open(id) \/ InHand(id)
  BY DEF Open, InHand
<1>4. /\ BlankUntilRecorded' /\ OnlyLatestEarns'
      /\ NoMomentCreditedTwice' /\ RowTracksSession'
  BY <1>3, QuietStep, Parts
<1>5. ASSUME ~DiskFaults PROVE SavedUntilCredited'
  BY <1>1, <1>5 DEF SavedUntilCredited, SavedWhenDue, StopWritesRecent, Pending,
     InHand, Saved, Open
<1>6. QED BY <1>2, <1>4, <1>5

LEMMA SkipAppStep ==
  ASSUME UsageAssumption, IInv, NEW a \in Apps, SkipApp(a) PROVE IInv'
  BY MoveOnStep DEF SkipApp

\* SeeStopped and TakeSession: the poll takes up the session of an app it has
\* still to visit.
LEMMA TakeUpStep ==
  ASSUME UsageAssumption, IInv, NEW a \in Apps, SeeStopped(a) \/ TakeSession(a)
  PROVE  IInv'
<1> USE DEF IInv
<1>1. /\ mpc = "visit" /\ a \in poll.todo
      /\ active[a] \in SessionIds /\ row[active[a]].app = a
      /\ poll' = [poll EXCEPT !.sid = active[a]]
      /\ mpc' \in {"pop", "split", "credit"}
      /\ UNCHANGED <<now, today, row, dbOpen, active, sess, spc, stop>>
  BY DEF SeeStopped, TakeSession, HandsOK, TypeOK, MaybeSession
<1>2. /\ poll' \in PollLocals /\ poll'.sid = active[a]
      /\ poll'.todo = poll.todo /\ poll'.list = poll.list
  BY <1>1, Parts DEF PollLocals, MaybeSession
<1>3. TypeOK'
  BY <1>1, <1>2 DEF TypeOK
<1>4. HandsOK'
  BY <1>1, <1>2 DEF HandsOK
<1>5. \A id \in SessionIds : Open(id)' \/ InHand(id)' => Open(id) \/ InHand(id)
  BY <1>1, <1>2 DEF Open, InHand
<1>6. /\ BlankUntilRecorded' /\ OnlyLatestEarns'
      /\ NoMomentCreditedTwice' /\ RowTracksSession'
  BY <1>1, <1>5, QuietStep, Parts
<1>7. ASSUME ~DiskFaults PROVE SavedUntilCredited'
  <2>1. \A id \in SessionIds : Pending(id)' => Pending(id)
    BY <1>1, <1>2 DEF Pending, InHand
  <2>2. QED
    BY <1>1, <1>2, <1>7, <2>1
       DEF SavedUntilCredited, SavedWhenDue, StopWritesRecent, Saved
<1>8. QED BY <1>3, <1>4, <1>6, <1>7

LEMMA PopSessionStep == ASSUME UsageAssumption, IInv, PopSession PROVE IInv'
<1> DEFINE s == poll.sid
           a == row[s].app
<1> USE DEF IInv
<1>1. /\ s \in SessionIds /\ a \in Apps /\ mpc = "pop" /\ InHand(s)
      /\ a \in poll.todo
      /\ active[a] \in {s, NoSession} /\ (spc = "up" => active[a] = s)
  BY Parts DEF PopSession, HandsOK, InHand
<1>2. UNCHANGED <<now, today, row, dbOpen, sess, spc, stop>>
  BY DEF PopSession
<1>3. CASE active[a] # NoSession
  <2>1. /\ active' = [active EXCEPT ![a] = NoSession]
        /\ mpc' = "end" /\ poll' = poll
    BY <1>3 DEF PopSession
  <2>2. TypeOK' /\ HandsOK'
    BY <1>1, <1>2, <2>1 DEF TypeOK, HandsOK, MaybeSession
  <2>3. \A id \in SessionIds : Open(id)' \/ InHand(id)' => Open(id) \/ InHand(id)
    BY <1>1, <2>1 DEF Open, InHand, UsageAssumption, TypeOK
  <2>4. /\ BlankUntilRecorded' /\ OnlyLatestEarns'
        /\ NoMomentCreditedTwice' /\ RowTracksSession'
    BY <1>2, <2>1, <2>3, QuietStep, Parts
  <2>5. ASSUME ~DiskFaults PROVE SavedUntilCredited'
    <3>1. ASSUME NEW id \in SessionIds PROVE Pending(id)' => Pending(id)
      BY <1>1, <2>1, Parts DEF Pending, InHand, UsageAssumption, TypeOK
    <3>2. QED
      BY <1>2, <2>1, <2>5, <3>1
         DEF SavedUntilCredited, SavedWhenDue, StopWritesRecent, Saved
  <2>6. QED BY <2>2, <2>4, <2>5
<1>4. CASE active[a] = NoSession
  <2>1. /\ active' = active /\ spc # "up"
        /\ mpc' = "wait" /\ poll' = NoPoll(poll.date)
    BY <1>1, <1>4 DEF PopSession, UsageAssumption
  <2>2. poll' \in PollLocals /\ poll'.list = {}
    BY <2>1, Parts DEF NoPoll, PollLocals, MaybeSession
  <2>3. TypeOK' /\ HandsOK'
    BY <1>2, <2>1, <2>2 DEF TypeOK, HandsOK
  <2>4. \A id \in SessionIds : Open(id)' \/ InHand(id)' => Open(id) \/ InHand(id)
    BY <2>1 DEF Open, InHand
  <2>5. /\ BlankUntilRecorded' /\ OnlyLatestEarns'
        /\ NoMomentCreditedTwice' /\ RowTracksSession'
    BY <1>2, <2>1, <2>4, QuietStep, Parts
  <2>6. ASSUME ~DiskFaults PROVE SavedUntilCredited'
    BY <1>2, <2>1, <2>6 DEF SavedUntilCredited, SavedWhenDue, StopWritesRecent,
       Pending, InHand, Saved
  <2>7. QED BY <2>3, <2>5, <2>6
<1>5. QED BY <1>3, <1>4

LEMMA RegetStep == ASSUME UsageAssumption, IInv, Reget PROVE IInv'
<1> DEFINE a == row[poll.sid].app
<1> USE DEF IInv
<1>1. /\ poll.sid \in SessionIds /\ a \in Apps /\ mpc = "reget" /\ a \in poll.todo
      /\ active[a] # NoSession => active[a] \in SessionIds /\ row[active[a]].app = a
  BY Parts DEF Reget, HandsOK, TypeOK, MaybeSession
<1>2. UNCHANGED <<now, today, row, dbOpen, sess, active, spc, stop>>
  BY DEF Reget
<1>3. CASE active[a] # NoSession
  <2>1. /\ mpc' = "credit"
        /\ poll' = [poll EXCEPT !.sid = active[a], !.new = NoSession]
    BY <1>3 DEF Reget
  <2>2. /\ poll' \in PollLocals /\ poll'.sid = active[a]
        /\ poll'.todo = poll.todo /\ poll'.list = poll.list
    BY <1>1, <1>3, <2>1, Parts DEF PollLocals, MaybeSession
  <2>3. TypeOK' /\ HandsOK'
    BY <1>1, <1>2, <1>3, <2>1, <2>2 DEF TypeOK, HandsOK
  <2>4. \A id \in SessionIds : Open(id)' \/ InHand(id)' => Open(id) \/ InHand(id)
    BY <1>1, <1>2, <2>1, <2>2 DEF Open, InHand
  <2>5. /\ BlankUntilRecorded' /\ OnlyLatestEarns'
        /\ NoMomentCreditedTwice' /\ RowTracksSession'
    BY <1>2, <2>1, <2>4, QuietStep, Parts
  <2>6. ASSUME ~DiskFaults PROVE SavedUntilCredited'
    <3>1. ASSUME NEW id \in SessionIds PROVE Pending(id)' => Pending(id)
      BY <1>1, <1>2, <2>1, <2>2 DEF Pending, InHand
    <3>2. QED
      BY <1>2, <2>1, <2>6, <3>1
         DEF SavedUntilCredited, SavedWhenDue, StopWritesRecent, Saved
  <2>7. QED BY <2>3, <2>5, <2>6
<1>4. CASE active[a] = NoSession
  <2>1. /\ mpc' = "visit" /\ poll' = Visited(poll, a)
    BY <1>4 DEF Reget
  <2>2. /\ poll' \in PollLocals /\ poll'.todo = poll.todo \ {a}
        /\ poll'.list = poll.list
    BY <2>1, VisitedIs, Parts
  <2>3. TypeOK' /\ HandsOK'
    BY <1>2, <2>1, <2>2 DEF TypeOK, HandsOK
  <2>4. \A id \in SessionIds : Open(id)' \/ InHand(id)' => Open(id) \/ InHand(id)
    BY <1>2, <2>1 DEF Open, InHand
  <2>5. /\ BlankUntilRecorded' /\ OnlyLatestEarns'
        /\ NoMomentCreditedTwice' /\ RowTracksSession'
    BY <1>2, <2>1, <2>4, QuietStep, Parts
  <2>6. ASSUME ~DiskFaults PROVE SavedUntilCredited'
    <3>1. ASSUME NEW id \in SessionIds PROVE Pending(id)' => Pending(id)
      BY <1>1, <1>2, <2>1, <2>2 DEF Pending, InHand
    <3>2. QED
      BY <1>2, <2>1, <2>6, <3>1
         DEF SavedUntilCredited, SavedWhenDue, StopWritesRecent, Saved
  <2>7. QED BY <2>3, <2>5, <2>6
<1>5. QED BY <1>3, <1>4

LEMMA BeginSaveStep == ASSUME UsageAssumption, IInv, BeginSave PROVE IInv'
<1> USE DEF IInv, BeginSave
<1>1. /\ poll' \in PollLocals /\ poll'.list = ActiveIds
      /\ poll'.todo = poll.todo
  BY Parts DEF PollLocals, ActiveIds, TypeOK, MaybeSession
<1>2. TypeOK' /\ HandsOK'
  BY <1>1 DEF TypeOK, HandsOK, ActiveIds
<1>3. \A id \in SessionIds : Open(id)' \/ InHand(id)' => Open(id) \/ InHand(id)
  BY DEF Open, InHand
<1>4. /\ BlankUntilRecorded' /\ OnlyLatestEarns'
      /\ NoMomentCreditedTwice' /\ RowTracksSession'
  BY <1>3, QuietStep, Parts
<1>5. ASSUME ~DiskFaults PROVE SavedUntilCredited'
  <2>1. \A id \in SessionIds : Open(id) => id \in ActiveIds
    BY DEF Open, ActiveIds, UsageAssumption
  <2>2. QED
    BY <1>1, <1>5, <2>1 DEF SavedUntilCredited, SavedWhenDue, StopWritesRecent,
       Pending, InHand, Saved, Open
<1>6. QED BY <1>2, <1>4, <1>5

LEMMA EndPollStep == ASSUME UsageAssumption, IInv, EndPoll PROVE IInv'
<1> USE DEF IInv, EndPoll
<1>1. poll' \in PollLocals /\ poll'.list = {}
  BY Parts DEF NoPoll, PollLocals, MaybeSession
<1>2. TypeOK' /\ HandsOK'
  BY <1>1 DEF TypeOK, HandsOK
<1>3. \A id \in SessionIds : Open(id)' \/ InHand(id)' => Open(id) \/ InHand(id)
  BY DEF Open, InHand
<1>4. /\ BlankUntilRecorded' /\ OnlyLatestEarns'
      /\ NoMomentCreditedTwice' /\ RowTracksSession'
  BY <1>3, QuietStep, Parts
<1>5. ASSUME ~DiskFaults PROVE SavedUntilCredited'
  BY <1>5 DEF SavedUntilCredited, SavedWhenDue, StopWritesRecent, Pending, InHand,
     Saved, Open
<1>6. QED BY <1>2, <1>4, <1>5

-----------------------------------------------------------------------------
(* Steps of the monitor thread that do *)

LEMMA AccrueStep == ASSUME UsageAssumption, IInv, Accrue PROVE IInv'
<1> DEFINE s == poll.sid
           a == row[s].app
<1> USE DEF IInv
<1>1. /\ s \in SessionIds /\ a \in Apps /\ a \in poll.todo
      /\ active[a] \in {s, NoSession}
      /\ InHand(s) /\ Latest(s) /\ sess[s].tick <= now
  BY Parts DEF Accrue, HandsOK, OnlyLatestEarns, InHand
<1>2. PICK c \in Nat :
        /\ c <= Cap
        /\ c <= now - sess[s].tick
        /\ sess' = [sess EXCEPT ![s] = Earn(@, c)]
  <2>1. /\ now \in Nat /\ sess[s].tick \in Nat /\ Cap \in Nat
    BY <1>1, Parts DEF UsageAssumption
  <2>2. PICK c \in CountedSeconds(now - sess[s].tick) :
          sess' = [sess EXCEPT ![s] = Earn(@, c)]
    BY DEF Accrue
  <2>3. c \in Nat /\ c <= Cap /\ c <= now - sess[s].tick
    BY <1>1, <2>1, <2>2 DEF CountedSeconds
  <2>4. QED BY <2>2, <2>3
<1>3. /\ sess' \in [SessionIds -> Session]
      /\ sess'[s].counted = sess[s].counted + c
      /\ sess'[s].tick = now
      /\ sess'[s].from = sess[s].from
      /\ \A j \in SessionIds \ {s} : sess'[j] = sess[j]
  BY <1>1, <1>2, EarnIs, Parts DEF TypeOK
<1>4. /\ poll' \in PollLocals /\ poll'.todo = poll.todo \ {a}
      /\ poll'.list = poll.list
      /\ mpc = "credit" /\ mpc' = "visit"
      /\ UNCHANGED <<now, today, row, dbOpen, active, spc, stop>>
  BY VisitedIs, Parts DEF Accrue
<1>5. TypeOK'
  BY <1>3, <1>4 DEF TypeOK, MaybeSession
<1>6. HandsOK'
  BY <1>4 DEF HandsOK
<1>7. BlankUntilRecorded'
  BY <1>1, <1>3, <1>4 DEF BlankUntilRecorded, UsageAssumption
<1>8. ASSUME NEW id \in SessionIds, Open(id) \/ InHand(id), id # s
      PROVE  row[id].app # a
  BY <1>1, <1>4, <1>8 DEF Open, InHand, HandsOK, UsageAssumption
<1>9. OnlyLatestEarns'
  <2> SUFFICES ASSUME NEW id \in SessionIds
               PROVE  /\ sess'[id].tick <= now
                      /\ Open(id)' \/ InHand(id)' => Latest(id)'
    BY <1>4 DEF OnlyLatestEarns
  <2>1. sess'[id].tick <= now
    BY <1>3, Parts DEF OnlyLatestEarns
  <2>2. ASSUME Open(id)' \/ InHand(id)' PROVE Latest(id)'
    <3>1. Open(id)
      BY <1>4, <2>2 DEF Open, InHand
    <3>2. Latest(id)
      BY <3>1 DEF OnlyLatestEarns
    <3>3. QED
      BY <1>1, <1>3, <1>4, <1>8, <3>1, <3>2, Parts DEF Latest
  <2>3. QED BY <2>1, <2>2
<1>10. NoMomentCreditedTwice'
  BY <1>1, <1>2, <1>3, <1>4, Parts DEF NoMomentCreditedTwice, Latest
<1>11. ASSUME ~DiskFaults PROVE RowTracksSession' /\ SavedUntilCredited'
  <2>1. Saved(s)
    BY <1>1, <1>11 DEF SavedUntilCredited, SavedWhenDue, Pending
  <2>2. RowTracksSession'
    BY <1>1, <1>2, <1>3, <1>4, <2>1, Parts DEF RowTracksSession, Saved, UsageAssumption
  <2>3. ASSUME NEW id \in SessionIds, Pending(id)' PROVE Pending(id) /\ id # s
    <3>1. PICK b \in poll.todo \ {a} : active[b] = id
      BY <1>4, <2>3 DEF Pending, InHand
    <3>2. b \in Apps /\ row[id].app = b
      BY <3>1, Parts DEF HandsOK, UsageAssumption
    <3>3. QED BY <1>1, <1>4, <3>1, <3>2 DEF Pending
  <2>4. ASSUME NEW id \in SessionIds PROVE SavedWhenDue(id)'
    BY <1>3, <1>4, <1>11, <2>3 DEF SavedUntilCredited, SavedWhenDue, Saved
  <2>5. ASSUME NEW id \in SessionIds PROVE StopWritesRecent(id)'
    <3>1. CASE id = s
      BY <1>1, <1>2, <1>3, <1>4, <1>11, <2>3, <3>1, Parts
         DEF SavedUntilCredited, StopWritesRecent, Pending, UsageAssumption
    <3>2. CASE id # s
      BY <1>3, <1>4, <1>11, <2>3, <3>2 DEF SavedUntilCredited, StopWritesRecent
    <3>3. QED BY <3>1, <3>2
  <2>6. QED BY <2>2, <2>4, <2>5 DEF SavedUntilCredited
<1>12. QED
  BY <1>5, <1>6, <1>7, <1>9, <1>10, <1>11 DEF RowTracksSession

LEMMA MarkWrittenStep == ASSUME UsageAssumption, IInv, MarkWritten PROVE IInv'
<1> DEFINE s == poll.sid
<1> USE DEF IInv
<1>1. s \in SessionIds /\ mpc = "mark" /\ mpc' = "save"
  BY DEF MarkWritten, HandsOK
<1>2. /\ sess' \in [SessionIds -> Session]
      /\ \A id \in SessionIds :
           /\ sess'[id].counted = sess[id].counted
           /\ sess'[id].tick = sess[id].tick
           /\ sess'[id].from = sess[id].from
           /\ id # s => sess'[id] = sess[id]
      /\ sess'[s].written = sess[s].counted
  <2> DEFINE n == [sess[s] EXCEPT !.written = sess[s].counted]
  <2>1. /\ n \in Session /\ n.counted = sess[s].counted
        /\ n.tick = sess[s].tick /\ n.from = sess[s].from
        /\ n.written = sess[s].counted
    BY <1>1, Parts DEF Session
  <2>2. sess' = [sess EXCEPT ![s] = n]
    BY DEF MarkWritten
  <2> HIDE DEF n
  <2>3. QED BY <1>1, <2>1, <2>2 DEF TypeOK
<1>3. /\ poll' \in PollLocals /\ poll'.todo = poll.todo
      /\ poll'.list = poll.list \ {s} /\ poll'.sid = NoSession
  BY Parts DEF MarkWritten, PollLocals, MaybeSession
<1>4. UNCHANGED <<now, today, row, dbOpen, active, spc, stop>>
  BY DEF MarkWritten
<1>5. TypeOK' /\ HandsOK'
  BY <1>1, <1>2, <1>3, <1>4 DEF TypeOK, HandsOK
<1>6. BlankUntilRecorded'
  <2>1. row[s].app # NoApp
    BY <1>1 DEF HandsOK, UsageAssumption
  <2>2. QED
    BY <1>1, <1>2, <1>4, <2>1 DEF BlankUntilRecorded
<1>7. OnlyLatestEarns'
  BY <1>1, <1>2, <1>4, Parts DEF OnlyLatestEarns, Open, InHand, Latest
<1>8. NoMomentCreditedTwice'
  BY <1>2, <1>4 DEF NoMomentCreditedTwice
<1>9. ASSUME ~DiskFaults PROVE RowTracksSession' /\ SavedUntilCredited'
  <2>1. RowTracksSession'
    BY <1>2, <1>4 DEF RowTracksSession
  <2>2. ASSUME NEW id \in SessionIds PROVE SavedWhenDue(id)' /\ StopWritesRecent(id)'
    BY <1>1, <1>2, <1>3, <1>4, <1>9
       DEF SavedUntilCredited, SavedWhenDue, StopWritesRecent, Saved, Pending, InHand, Open
  <2>3. QED BY <2>1, <2>2 DEF SavedUntilCredited
<1>10. QED BY <1>5, <1>6, <1>7, <1>8, <1>9 DEF RowTracksSession

LEMMA RecordSessionStep == ASSUME UsageAssumption, IInv, RecordSession PROVE IInv'
<1> DEFINE s == poll.sid
           a == row[s].app
<1> USE DEF IInv
<1>1. /\ s \in SessionIds /\ a \in Apps /\ a \in poll.todo /\ mpc = "record"
      /\ now \in Nat /\ a # NoApp
  BY Parts DEF RecordSession, HandsOK, UsageAssumption
<1>2. sess[s].counted = 0
  BY <1>1, NewSessionIs DEF BlankUntilRecorded
<1>3. /\ sess' \in [SessionIds -> Session]
      /\ sess'[s].counted = 0 /\ sess'[s].tick = now /\ sess'[s].from = now
      /\ \A j \in SessionIds \ {s} : sess'[j] = sess[j]
  BY <1>1, NewSessionIs, Parts DEF RecordSession, TypeOK
<1>4. /\ poll' \in PollLocals /\ poll'.todo = poll.todo \ {a}
      /\ poll'.list = poll.list
      /\ mpc' = "visit" /\ active' = [active EXCEPT ![a] = s]
      /\ UNCHANGED <<now, today, row, dbOpen, spc, stop>>
  BY VisitedIs, Parts DEF RecordSession
<1>5. TypeOK'
  BY <1>1, <1>3, <1>4 DEF TypeOK, MaybeSession
<1>6. HandsOK'
  BY <1>1, <1>4 DEF HandsOK, TypeOK
<1>7. BlankUntilRecorded'
  BY <1>1, <1>3, <1>4 DEF BlankUntilRecorded
<1>8. ASSUME NEW id \in SessionIds, Open(id)', id # s
      PROVE  Open(id) /\ row[id].app # a
  BY <1>1, <1>4, <1>8 DEF Open, HandsOK, UsageAssumption, TypeOK
<1>9. OnlyLatestEarns'
  <2> SUFFICES ASSUME NEW id \in SessionIds
               PROVE  /\ sess'[id].tick <= now
                      /\ Open(id)' \/ InHand(id)' => Latest(id)'
    BY <1>4 DEF OnlyLatestEarns
  <2>1. sess'[id].tick <= now
    BY <1>3, Parts DEF OnlyLatestEarns
  <2>2. ASSUME Open(id)', id # s PROVE Latest(id)'
    <3>1. Latest(id)
      BY <1>8, <2>2 DEF OnlyLatestEarns
    <3>2. QED BY <1>3, <1>4, <1>8, <2>2, <3>1 DEF Latest
  <2>3. ASSUME id = s PROVE Latest(id)'
    BY <1>3, <1>4, <2>3 DEF Latest, OnlyLatestEarns
  <2>4. ~InHand(id)'
    BY <1>4 DEF InHand
  <2>5. QED BY <2>1, <2>2, <2>3, <2>4
<1>10. NoMomentCreditedTwice'
  BY <1>1, <1>3, <1>4, Parts DEF NoMomentCreditedTwice, OnlyLatestEarns
<1>11. ASSUME ~DiskFaults PROVE RowTracksSession' /\ SavedUntilCredited'
  <2>1. RowTracksSession'
    BY <1>1, <1>2, <1>3, <1>4 DEF RowTracksSession
  <2>2. ASSUME NEW id \in SessionIds, Pending(id)' PROVE Pending(id) /\ id # s
    <3>1. PICK b \in poll.todo \ {a} : active'[b] = id
      BY <1>4, <2>2 DEF Pending, InHand
    <3>2. b \in Apps /\ active[b] = id
      BY <1>4, <3>1, Parts DEF TypeOK
    <3>3. QED BY <1>1, <3>1, <3>2 DEF Pending, HandsOK, UsageAssumption
  <2>3. ASSUME NEW id \in SessionIds PROVE SavedWhenDue(id)' /\ StopWritesRecent(id)'
    <3>1. SavedWhenDue(id)'
      BY <1>3, <1>4, <1>11, <2>2 DEF SavedUntilCredited, SavedWhenDue, Saved
    <3>2. StopWritesRecent(id)'
      BY <1>1, <1>2, <1>3, <1>4, <1>11, <2>2, Parts
         DEF SavedUntilCredited, StopWritesRecent, UsageAssumption
    <3>3. QED BY <3>1, <3>2
  <2>4. QED BY <2>1, <2>3 DEF SavedUntilCredited
<1>12. QED
  BY <1>5, <1>6, <1>7, <1>9, <1>10, <1>11 DEF RowTracksSession

\* EndSession and SplitEnd write what was credited into the row in hand.
LEMMA RowKept ==
  ASSUME TypeOK, NEW s \in SessionIds,
         EndRow(s, sess[s].counted) \/ UNCHANGED row
  PROVE  /\ row' \in [SessionIds -> Row]
         /\ \A id \in SessionIds : row'[id].app = row[id].app
         /\ \A id \in SessionIds \ {s} : row'[id] = row[id]
         /\ row'[s].dur \in {row[s].dur, sess[s].counted}
<1>1. CASE EndRow(s, sess[s].counted)
  <2> DEFINE r == Ended(row[s], sess[s].counted)
  <2>1. r \in Row /\ r.app = row[s].app /\ r.dur = sess[s].counted
    BY EndedIs, Parts
  <2>2. row' = [row EXCEPT ![s] = r]
    BY <1>1 DEF EndRow
  <2> HIDE DEF r
  <2>3. QED BY <2>1, <2>2 DEF TypeOK
<1>2. CASE UNCHANGED row
  BY <1>2, Parts DEF TypeOK
<1>3. QED BY <1>1, <1>2

LEMMA EndSessionStep == ASSUME UsageAssumption, IInv, EndSession PROVE IInv'
<1> DEFINE s == poll.sid
           a == row[s].app
<1> USE DEF IInv
<1>1. s \in SessionIds /\ a \in Apps /\ mpc = "end" /\ InHand(s)
  BY Parts DEF EndSession, HandsOK, InHand
<1>2. /\ row' \in [SessionIds -> Row]
      /\ \A id \in SessionIds : row'[id].app = row[id].app
      /\ \A id \in SessionIds \ {s} : row'[id] = row[id]
      /\ row'[s].dur \in {row[s].dur, sess[s].counted}
  BY <1>1, RowKept DEF EndSession
<1>3. /\ poll' \in PollLocals /\ poll'.todo = poll.todo \ {a}
      /\ poll'.list = poll.list
      /\ mpc' = "visit"
      /\ UNCHANGED <<now, today, dbOpen, active, sess, spc, stop>>
  BY VisitedIs, Parts DEF EndSession
<1>4. TypeOK' /\ HandsOK'
  BY <1>1, <1>2, <1>3, Parts DEF TypeOK, HandsOK, MaybeSession
<1>5. BlankUntilRecorded' /\ NoMomentCreditedTwice'
  BY <1>1, <1>2, <1>3 DEF BlankUntilRecorded, NoMomentCreditedTwice
<1>6. OnlyLatestEarns'
  BY <1>1, <1>2, <1>3 DEF OnlyLatestEarns, Open, InHand, Latest
<1>7. ASSUME ~DiskFaults PROVE RowTracksSession' /\ SavedUntilCredited'
  <2>1. RowTracksSession'
    BY <1>1, <1>2, <1>3, <1>7, Parts DEF RowTracksSession, UsageAssumption
  <2>2. ASSUME NEW id \in SessionIds PROVE Pending(id)' => Pending(id)
    BY <1>1, <1>3 DEF Pending, InHand
  <2>3. ASSUME NEW id \in SessionIds PROVE Saved(id) => Saved(id)'
    BY <1>1, <1>2, <1>3 DEF Saved
  <2>4. ASSUME NEW id \in SessionIds PROVE SavedWhenDue(id)' /\ StopWritesRecent(id)'
    BY <1>1, <1>3, <1>7, <2>2, <2>3
       DEF SavedUntilCredited, SavedWhenDue, StopWritesRecent
  <2>5. QED BY <2>1, <2>4 DEF SavedUntilCredited
<1>8. QED BY <1>4, <1>5, <1>6, <1>7 DEF RowTracksSession

LEMMA SplitEndStep == ASSUME UsageAssumption, IInv, SplitEnd PROVE IInv'
<1> DEFINE s == poll.sid
<1> USE DEF IInv
<1>1. s \in SessionIds /\ mpc = "split" /\ InHand(s) /\ mpc' \in {"splitStart", "credit"}
  BY Parts DEF SplitEnd, HandsOK, InHand
<1>2. /\ row' \in [SessionIds -> Row]
      /\ \A id \in SessionIds : row'[id].app = row[id].app
      /\ \A id \in SessionIds \ {s} : row'[id] = row[id]
      /\ row'[s].dur \in {row[s].dur, sess[s].counted}
  BY <1>1, RowKept DEF SplitEnd
<1>3. UNCHANGED <<now, today, dbOpen, active, sess, poll, spc, stop>>
  BY DEF SplitEnd
<1>4. TypeOK' /\ HandsOK'
  BY <1>1, <1>2, <1>3, Parts DEF TypeOK, HandsOK, MaybeSession
<1>5. BlankUntilRecorded' /\ NoMomentCreditedTwice'
  BY <1>1, <1>2, <1>3 DEF BlankUntilRecorded, NoMomentCreditedTwice
<1>6. OnlyLatestEarns'
  BY <1>1, <1>2, <1>3 DEF OnlyLatestEarns, Open, InHand, Latest
<1>7. ASSUME ~DiskFaults PROVE RowTracksSession' /\ SavedUntilCredited'
  <2>1. RowTracksSession'
    BY <1>1, <1>2, <1>3, <1>7, Parts DEF RowTracksSession, UsageAssumption
  <2>2. ASSUME NEW id \in SessionIds PROVE Pending(id)' => Pending(id)
    BY <1>1, <1>3 DEF Pending, InHand
  <2>3. ASSUME NEW id \in SessionIds PROVE Saved(id) => Saved(id)'
    BY <1>1, <1>2, <1>3 DEF Saved
  <2>4. ASSUME NEW id \in SessionIds PROVE SavedWhenDue(id)' /\ StopWritesRecent(id)'
    BY <1>1, <1>3, <1>7, <2>2, <2>3
       DEF SavedUntilCredited, SavedWhenDue, StopWritesRecent
  <2>5. QED BY <2>1, <2>4 DEF SavedUntilCredited
<1>8. QED BY <1>4, <1>5, <1>6, <1>7 DEF RowTracksSession

\* A row is added for app a: it names a session nothing was ever credited to.
LEMMA AddRow ==
  ASSUME UsageAssumption, IInv, NEW a \in Apps, NEW id \in Unused,
         row' = [row EXCEPT ![id] = NewRow(a, poll.date)],
         UNCHANGED <<sess, now, active>>,
         mpc \notin {"record", "install"},
         \/ mpc' = "record" /\ poll'.sid = id
         \/ mpc' = "install" /\ poll'.new = id,
         \A x \in SessionIds : Open(x)' \/ InHand(x)' => Open(x) \/ InHand(x)
  PROVE  /\ row' \in [SessionIds -> Row]
         /\ row'[id].app = a
         /\ \A x \in SessionIds \ {id} : row'[x] = row[x]
         /\ \A x \in SessionIds : row[x].app \in Apps => x # id
         /\ \A x \in SessionIds : Saved(x) => Saved(x)'
         /\ BlankUntilRecorded' /\ OnlyLatestEarns'
         /\ NoMomentCreditedTwice' /\ RowTracksSession'
<1> USE DEF IInv
<1>1. id \in SessionIds /\ row[id].app = NoApp /\ a # NoApp
  BY DEF Unused, UsageAssumption
<1>2. /\ sess[id].counted = 0 /\ sess[id].tick = 0 /\ sess[id].from = 0
      /\ sess[id] = NewSession(0)
  BY <1>1, NewSessionIs DEF BlankUntilRecorded
<1>3. NewRow(a, poll.date) \in Row /\ NewRow(a, poll.date).app = a
      /\ NewRow(a, poll.date).dur = 0
  BY NewRowIs, Parts
<1>4. /\ row' \in [SessionIds -> Row]
      /\ row'[id].app = a /\ row'[id].dur = 0
      /\ \A x \in SessionIds \ {id} : row'[x] = row[x]
  BY <1>1, <1>3 DEF TypeOK
<1>5. \A x \in SessionIds : row[x].app \in Apps => x # id
  BY <1>1 DEF UsageAssumption
<1>6. ASSUME NEW x \in SessionIds, Saved(x) PROVE Saved(x)'
  BY <1>2, <1>4, <1>6 DEF Saved
<1>7. BlankUntilRecorded'
  BY <1>1, <1>2, <1>4 DEF BlankUntilRecorded
<1>8. ASSUME NEW x \in SessionIds, Open(x) \/ InHand(x) PROVE x # id
  BY <1>1, <1>8, Parts DEF Open, InHand, HandsOK, UsageAssumption
<1>9. OnlyLatestEarns'
  <2> SUFFICES ASSUME NEW x \in SessionIds
               PROVE  /\ sess[x].tick <= now
                      /\ Open(x)' \/ InHand(x)' => Latest(x)'
    BY DEF OnlyLatestEarns
  <2>1. sess[x].tick <= now
    BY DEF OnlyLatestEarns
  <2>2. ASSUME Open(x)' \/ InHand(x)' PROVE Latest(x)'
    <3>1. Latest(x) /\ x # id
      BY <1>8, <2>2 DEF OnlyLatestEarns
    <3>2. QED BY <1>2, <1>4, <3>1, Parts DEF Latest
  <2>3. QED BY <2>1, <2>2
<1>10. NoMomentCreditedTwice'
  BY <1>1, <1>2, <1>4, Parts DEF NoMomentCreditedTwice
<1>11. RowTracksSession'
  BY <1>1, <1>2, <1>4, Parts DEF RowTracksSession, UsageAssumption
<1>12. \A x \in SessionIds : Saved(x) => Saved(x)'
  BY <1>6
<1>13. QED BY <1>4, <1>5, <1>7, <1>9, <1>10, <1>11, <1>12

LEMMA StartRowStep ==
  ASSUME UsageAssumption, IInv, NEW a \in Apps, StartRow(a) PROVE IInv'
<1> USE DEF IInv
<1>1. /\ mpc = "visit" /\ a \in poll.todo
      /\ UNCHANGED <<now, today, dbOpen, active, sess, spc, stop>>
  BY DEF StartRow
<1>2. CASE UNCHANGED row /\ poll' = Visited(poll, a) /\ UNCHANGED mpc
  BY <1>1, <1>2, MoveOnStep
<1>3. ASSUME NEW id \in Unused,
             row' = [row EXCEPT ![id] = NewRow(a, poll.date)],
             poll' = [poll EXCEPT !.sid = id], mpc' = "record"
      PROVE  IInv'
  <2>1. /\ poll' \in PollLocals /\ poll'.sid = id /\ id \in SessionIds
        /\ poll'.todo = poll.todo /\ poll'.list = poll.list
    BY <1>3, Parts DEF PollLocals, MaybeSession, Unused
  <2>2. \A x \in SessionIds : Open(x)' \/ InHand(x)' => Open(x) \/ InHand(x)
    BY <1>1, <1>3 DEF Open, InHand
  <2>3. /\ row' \in [SessionIds -> Row]
        /\ row'[id].app = a
        /\ \A x \in SessionIds \ {id} : row'[x] = row[x]
        /\ \A x \in SessionIds : row[x].app \in Apps => x # id
        /\ \A x \in SessionIds : Saved(x) => Saved(x)'
        /\ BlankUntilRecorded' /\ OnlyLatestEarns'
        /\ NoMomentCreditedTwice' /\ RowTracksSession'
    BY <1>1, <1>3, <2>1, <2>2, AddRow
  <2>4. TypeOK'
    BY <1>1, <1>3, <2>1, <2>3 DEF TypeOK
  <2>5. HandsOK'
    BY <1>1, <1>3, <2>1, <2>3, Parts DEF HandsOK, TypeOK, MaybeSession
  <2>6. ASSUME ~DiskFaults PROVE SavedUntilCredited'
    <3>1. ASSUME NEW x \in SessionIds PROVE Pending(x)' => Pending(x)
      BY <1>1, <1>3, <2>1 DEF Pending, InHand
    <3>2. QED
      BY <1>1, <1>3, <2>3, <2>6, <3>1
         DEF SavedUntilCredited, SavedWhenDue, StopWritesRecent
  <2>7. QED BY <2>3, <2>4, <2>5, <2>6
<1>4. QED BY <1>2, <1>3 DEF StartRow

LEMMA SplitStartStep == ASSUME UsageAssumption, IInv, SplitStart PROVE IInv'
<1> DEFINE s == poll.sid
           a == row[s].app
<1> USE DEF IInv
<1>1. /\ s \in SessionIds /\ a \in Apps /\ mpc = "splitStart" /\ InHand(s)
      /\ a \in poll.todo /\ active[a] \in {s, NoSession}
      /\ UNCHANGED <<now, today, dbOpen, active, sess, spc, stop>>
  BY Parts DEF SplitStart, HandsOK, InHand
<1>2. CASE mpc' = "credit" /\ UNCHANGED <<row, poll>>
  <2>1. TypeOK' /\ HandsOK'
    BY <1>1, <1>2 DEF TypeOK, HandsOK
  <2>2. \A x \in SessionIds : Open(x)' \/ InHand(x)' => Open(x) \/ InHand(x)
    BY <1>1, <1>2 DEF Open, InHand
  <2>3. /\ BlankUntilRecorded' /\ OnlyLatestEarns'
        /\ NoMomentCreditedTwice' /\ RowTracksSession'
    BY <1>1, <1>2, <2>2, QuietStep, Parts
  <2>4. ASSUME ~DiskFaults PROVE SavedUntilCredited'
    BY <1>1, <1>2, <2>4 DEF SavedUntilCredited, SavedWhenDue, StopWritesRecent,
       Pending, InHand, Saved
  <2>5. QED BY <2>1, <2>3, <2>4
<1>3. ASSUME NEW id \in Unused,
             row' = [row EXCEPT ![id] = NewRow(a, poll.date)],
             poll' = [poll EXCEPT !.new = id], mpc' = "install"
      PROVE  IInv'
  <2>1. /\ poll' \in PollLocals /\ poll'.sid = s /\ poll'.new = id
        /\ id \in SessionIds
        /\ poll'.todo = poll.todo /\ poll'.list = poll.list
    BY <1>3, Parts DEF PollLocals, MaybeSession, Unused
  <2>2. \A x \in SessionIds : Open(x)' \/ InHand(x)' => Open(x) \/ InHand(x)
    BY <1>1, <1>3, <2>1 DEF Open, InHand
  <2>3. /\ row' \in [SessionIds -> Row]
        /\ row'[id].app = a
        /\ \A x \in SessionIds \ {id} : row'[x] = row[x]
        /\ \A x \in SessionIds : row[x].app \in Apps => x # id
        /\ \A x \in SessionIds : Saved(x) => Saved(x)'
        /\ BlankUntilRecorded' /\ OnlyLatestEarns'
        /\ NoMomentCreditedTwice' /\ RowTracksSession'
    BY <1>1, <1>3, <2>1, <2>2, AddRow
  <2>4. TypeOK'
    BY <1>1, <1>3, <2>1, <2>3 DEF TypeOK
  <2>5. HandsOK'
    BY <1>1, <1>3, <2>1, <2>3, Parts DEF HandsOK, TypeOK, MaybeSession
  <2>6. ASSUME ~DiskFaults PROVE SavedUntilCredited'
    <3>1. ASSUME NEW x \in SessionIds PROVE Pending(x)' => Pending(x)
      BY <1>1, <1>3, <2>1 DEF Pending, InHand
    <3>2. QED
      BY <1>1, <1>3, <2>3, <2>6, <3>1
         DEF SavedUntilCredited, SavedWhenDue, StopWritesRecent
  <2>7. QED BY <2>3, <2>4, <2>5, <2>6
<1>4. QED BY <1>2, <1>3 DEF SplitStart

LEMMA SplitInstallStep == ASSUME UsageAssumption, IInv, SplitInstall PROVE IInv'
<1> DEFINE s == poll.sid
           n == poll.new
           a == row[s].app
<1> USE DEF IInv
<1>1. /\ s \in SessionIds /\ n \in SessionIds /\ n # s
      /\ a \in Apps /\ a \in poll.todo /\ a # NoApp /\ row[n].app = a
      /\ mpc = "install" /\ InHand(s) /\ Latest(s)
      /\ active[a] \in {s, NoSession}
  BY Parts DEF SplitInstall, HandsOK, InHand, OnlyLatestEarns, UsageAssumption
<1>2. sess[n].counted = 0
  BY <1>1, NewSessionIs DEF BlankUntilRecorded
<1>3. /\ sess' \in [SessionIds -> Session]
      /\ sess'[n].counted = 0
      /\ sess'[n].tick = sess[s].tick /\ sess'[n].from = sess[s].tick
      /\ \A j \in SessionIds \ {n} : sess'[j] = sess[j]
  BY <1>1, NewSessionIs, Parts DEF SplitInstall, Continue, TypeOK
<1>4. /\ mpc' = "reget" /\ active' = [active EXCEPT ![a] = n]
      /\ UNCHANGED <<now, today, row, dbOpen, poll, spc, stop>>
  BY DEF SplitInstall
<1>5. TypeOK'
  BY <1>1, <1>3, <1>4 DEF TypeOK, MaybeSession
<1>6. HandsOK'
  BY <1>1, <1>4 DEF HandsOK, TypeOK
<1>7. BlankUntilRecorded'
  BY <1>1, <1>3, <1>4 DEF BlankUntilRecorded
<1>8. ASSUME NEW id \in SessionIds, Open(id)', id # n
      PROVE  Open(id) /\ row[id].app # a
  BY <1>1, <1>4, <1>8 DEF Open, HandsOK, UsageAssumption, TypeOK
\* What the new session's span is placed after.
<1>9. \A j \in SessionIds : row[j].app = a => sess[j].tick <= sess[s].tick \/ j = n
  BY <1>1, Parts DEF Latest, NoMomentCreditedTwice
<1>10. sess[n].tick = 0
  BY <1>1, NewSessionIs DEF BlankUntilRecorded
<1>11. OnlyLatestEarns'
  <2> SUFFICES ASSUME NEW id \in SessionIds
               PROVE  /\ sess'[id].tick <= now
                      /\ Open(id)' \/ InHand(id)' => Latest(id)'
    BY <1>4 DEF OnlyLatestEarns
  <2>1. sess'[id].tick <= now
    BY <1>1, <1>3, Parts DEF OnlyLatestEarns
  <2>2. ASSUME Open(id)', id # n PROVE Latest(id)'
    <3>1. Latest(id)
      BY <1>8, <2>2 DEF OnlyLatestEarns
    <3>2. QED BY <1>1, <1>3, <1>4, <1>8, <2>2, <3>1 DEF Latest
  <2>3. ASSUME id = n PROVE Latest(id)'
    BY <1>1, <1>3, <1>4, <1>9, <2>3 DEF Latest
  <2>4. ~InHand(id)'
    BY <1>4 DEF InHand
  <2>5. QED BY <2>1, <2>2, <2>3, <2>4
<1>12. NoMomentCreditedTwice'
  <2>1. ASSUME NEW i \in SessionIds PROVE sess'[i].from + sess'[i].counted <= sess'[i].tick
    BY <1>1, <1>3, Parts DEF NoMomentCreditedTwice
  <2>2. ASSUME NEW i \in SessionIds, NEW j \in SessionIds, i # j,
               row[i].app = row[j].app
        PROVE  sess'[i].tick <= sess'[j].from \/ sess'[j].tick <= sess'[i].from
    BY <1>1, <1>3, <1>9, <2>2 DEF NoMomentCreditedTwice
  <2>3. QED BY <1>4, <2>1, <2>2 DEF NoMomentCreditedTwice
<1>13. ASSUME ~DiskFaults PROVE RowTracksSession' /\ SavedUntilCredited'
  <2>1. RowTracksSession'
    BY <1>1, <1>2, <1>3, <1>4 DEF RowTracksSession
  <2>2. row[n].dur = 0
    BY <1>1, <1>2, <1>13, Parts DEF RowTracksSession
  <2>3. ASSUME NEW id \in SessionIds, Pending(id)', id # n PROVE Pending(id)
    BY <1>1, <1>4, <2>3, Parts DEF Pending, InHand, TypeOK
  <2>4. ASSUME NEW id \in SessionIds PROVE SavedWhenDue(id)' /\ StopWritesRecent(id)'
    <3>1. SavedWhenDue(id)'
      BY <1>1, <1>3, <1>4, <1>13, <2>2, <2>3
         DEF SavedUntilCredited, SavedWhenDue, Saved
    <3>2. StopWritesRecent(id)'
      BY <1>1, <1>2, <1>3, <1>4, <1>13, <2>3, Parts
         DEF SavedUntilCredited, StopWritesRecent, UsageAssumption
    <3>3. QED BY <3>1, <3>2
  <2>5. QED BY <2>1, <2>4 DEF SavedUntilCredited
<1>14. QED
  BY <1>5, <1>6, <1>7, <1>11, <1>12, <1>13 DEF RowTracksSession

LEMMA SaveRowStep ==
  ASSUME UsageAssumption, IInv, NEW s \in SessionIds, SaveRow(s) PROVE IInv'
<1> USE DEF IInv
<1>1. /\ mpc = "save" /\ s \in poll.list
      /\ UNCHANGED <<now, today, dbOpen, active, sess, spc, stop>>
  BY DEF SaveRow
<1>2. CASE /\ DbFails /\ poll' = [poll EXCEPT !.list = @ \ {s}]
           /\ UNCHANGED <<row, mpc>>
  <2>1. /\ poll' \in PollLocals /\ poll'.sid = poll.sid
        /\ poll'.todo = poll.todo /\ poll'.list = poll.list \ {s}
    BY <1>2, Parts DEF PollLocals
  <2>2. TypeOK' /\ HandsOK'
    BY <1>1, <1>2, <2>1 DEF TypeOK, HandsOK
  <2>3. \A x \in SessionIds : Open(x)' \/ InHand(x)' => Open(x) \/ InHand(x)
    BY <1>1, <1>2 DEF Open, InHand
  <2>4. /\ BlankUntilRecorded' /\ OnlyLatestEarns'
        /\ NoMomentCreditedTwice' /\ RowTracksSession'
    BY <1>1, <1>2, <2>3, QuietStep, Parts
  <2>5. ASSUME ~DiskFaults PROVE SavedUntilCredited'
    <3>1. spc # "up"
      BY <1>2, <2>5 DEF DbFails, HandsOK
    <3>2. QED
      BY <1>1, <1>2, <2>5, <3>1
         DEF SavedUntilCredited, SavedWhenDue, StopWritesRecent, Pending, InHand, Saved
  <2>6. QED BY <2>2, <2>4, <2>5
<1>3. CASE /\ row' = [row EXCEPT ![s].dur = sess[s].counted]
           /\ poll' = [poll EXCEPT !.sid = s] /\ mpc' = "mark"
  <2>1. /\ poll' \in PollLocals /\ poll'.sid = s
        /\ poll'.todo = poll.todo /\ poll'.list = poll.list
    BY <1>3, Parts DEF PollLocals, MaybeSession
  <2>2. /\ row' \in [SessionIds -> Row]
        /\ row'[s].app = row[s].app /\ row'[s].dur = sess[s].counted
        /\ \A x \in SessionIds \ {s} : row'[x] = row[x]
    <3> DEFINE r == [row[s] EXCEPT !.dur = sess[s].counted]
    <3>1. r \in Row /\ r.app = row[s].app /\ r.dur = sess[s].counted
      BY Parts DEF Row
    <3>2. row' = [row EXCEPT ![s] = r]
      BY <1>3
    <3> HIDE DEF r
    <3>3. QED BY <3>1, <3>2 DEF TypeOK
  <2>3. \A x \in SessionIds : row'[x].app = row[x].app
    BY <2>2
  <2>4. TypeOK'
    BY <1>1, <1>3, <2>1, <2>2 DEF TypeOK
  <2>5. HandsOK'
    BY <1>1, <1>3, <2>1, <2>3, Parts DEF HandsOK, TypeOK, MaybeSession
  <2>6. BlankUntilRecorded' /\ NoMomentCreditedTwice'
    BY <1>1, <1>3, <2>3 DEF BlankUntilRecorded, NoMomentCreditedTwice
  <2>7. OnlyLatestEarns'
    BY <1>1, <1>3, <2>3 DEF OnlyLatestEarns, Open, InHand, Latest
  <2>8. ASSUME ~DiskFaults PROVE RowTracksSession' /\ SavedUntilCredited'
    <3>1. RowTracksSession'
      BY <1>1, <2>2, <2>8, Parts DEF RowTracksSession, UsageAssumption
    <3>2. ASSUME NEW x \in SessionIds PROVE SavedWhenDue(x)' /\ StopWritesRecent(x)'
      BY <1>1, <1>3, <2>1, <2>2, <2>8
         DEF SavedUntilCredited, SavedWhenDue, StopWritesRecent, Pending, InHand,
             Saved, Open
    <3>3. QED BY <3>1, <3>2 DEF SavedUntilCredited
  <2>9. QED BY <2>4, <2>5, <2>6, <2>7, <2>8 DEF RowTracksSession
<1>4. QED BY <1>2, <1>3 DEF SaveRow

-----------------------------------------------------------------------------
(* The main thread *)

LEMMA StopBeginStep == ASSUME UsageAssumption, IInv, StopBegin PROVE IInv'
<1> USE DEF IInv, StopBegin
<1>1. stop' \in StopLocals
  BY DEF NoStop, StopLocals, ActiveIds, TypeOK, MaybeSession
<1>2. TypeOK' /\ HandsOK'
  BY <1>1 DEF TypeOK, HandsOK
<1>3. \A id \in SessionIds : Open(id)' \/ InHand(id)' => Open(id) \/ InHand(id)
  BY DEF Open, InHand
<1>4. /\ BlankUntilRecorded' /\ OnlyLatestEarns'
      /\ NoMomentCreditedTwice' /\ RowTracksSession'
  BY <1>3, QuietStep, Parts
<1>5. ASSUME ~DiskFaults PROVE SavedUntilCredited'
  BY <1>5 DEF SavedUntilCredited, SavedWhenDue, StopWritesRecent, Pending, InHand, Saved
<1>6. QED BY <1>2, <1>4, <1>5

LEMMA StopReadStep ==
  ASSUME UsageAssumption, IInv, NEW s \in SessionIds, StopRead(s) PROVE IInv'
<1> USE DEF IInv, StopRead
<1>1. /\ stop' \in StopLocals /\ stop'.sid = s /\ stop'.val = sess[s].counted
  BY Parts DEF StopLocals, MaybeSession
<1>2. TypeOK' /\ HandsOK'
  BY <1>1 DEF TypeOK, HandsOK
<1>3. \A id \in SessionIds : Open(id)' \/ InHand(id)' => Open(id) \/ InHand(id)
  BY DEF Open, InHand
<1>4. /\ BlankUntilRecorded' /\ OnlyLatestEarns'
      /\ NoMomentCreditedTwice' /\ RowTracksSession'
  BY <1>3, QuietStep, Parts
<1>5. ASSUME ~DiskFaults PROVE SavedUntilCredited'
  <2>1. ASSUME NEW id \in SessionIds PROVE SavedWhenDue(id)'
    BY <1>5 DEF SavedUntilCredited, SavedWhenDue, Pending, InHand, Saved
  <2>2. ASSUME NEW id \in SessionIds PROVE StopWritesRecent(id)'
    BY <1>1, Parts DEF StopWritesRecent, UsageAssumption
  <2>3. QED BY <2>1, <2>2 DEF SavedUntilCredited
<1>6. QED BY <1>2, <1>4, <1>5

LEMMA StopWriteStep == ASSUME UsageAssumption, IInv, StopWrite PROVE IInv'
<1> DEFINE s == stop.sid
<1> USE DEF IInv
<1>1. s \in SessionIds /\ stop.val \in Nat /\ spc = "write"
  BY Parts DEF StopWrite, HandsOK
<1>2. /\ stop' \in StopLocals /\ spc' = "ending"
      /\ UNCHANGED <<now, today, dbOpen, sess, active, mpc, poll>>
  BY Parts DEF StopWrite, NoStop, StopLocals, MaybeSession
<1>3. /\ row' \in [SessionIds -> Row]
      /\ \A id \in SessionIds \ {s} : row'[id] = row[id]
      /\ row'[s].app = row[s].app
      /\ row'[s].dur \in {row[s].dur, stop.val}
  <2>1. CASE EndRow(s, stop.val)
    BY <1>1, <2>1, EndedIs, Parts DEF EndRow, TypeOK
  <2>2. CASE UNCHANGED row
    BY <1>1, <2>2, Parts DEF TypeOK
  <2>3. QED BY <2>1, <2>2 DEF StopWrite
<1>4. \A id \in SessionIds : row'[id].app = row[id].app
  BY <1>1, <1>3
<1>5. ~dbOpen => FALSE
  BY <1>1 DEF HandsOK
<1>6. TypeOK'
  BY <1>2, <1>3 DEF TypeOK
<1>7. HandsOK'
  BY <1>2, <1>4, <1>5, Parts DEF HandsOK, TypeOK, MaybeSession
<1>8. OnlyLatestEarns'
  BY <1>2, <1>4 DEF OnlyLatestEarns, Open, InHand, Latest
<1>9. NoMomentCreditedTwice'
  BY <1>2, <1>4 DEF NoMomentCreditedTwice
<1>10. BlankUntilRecorded'
  BY <1>2, <1>4 DEF BlankUntilRecorded
<1>11. ASSUME ~DiskFaults PROVE RowTracksSession' /\ SavedUntilCredited'
  <2>1. /\ stop.val <= sess[s].counted /\ sess[s].counted <= stop.val + Cap
        /\ Pending(s) => stop.val = sess[s].counted
    BY <1>1, <1>11 DEF SavedUntilCredited, StopWritesRecent
  <2>2. RowTracksSession'
    BY <1>1, <1>2, <1>3, <2>1, Parts DEF RowTracksSession
  <2>3. ASSUME NEW id \in SessionIds PROVE Pending(id)' = Pending(id)
    BY <1>2 DEF Pending, InHand
  <2>4. ASSUME NEW id \in SessionIds PROVE SavedWhenDue(id)' /\ StopWritesRecent(id)'
    BY <1>1, <1>2, <1>3, <1>11, <2>1, <2>3
       DEF SavedUntilCredited, SavedWhenDue, StopWritesRecent, Saved
  <2>5. QED BY <2>2, <2>4 DEF SavedUntilCredited
<1>12. QED
  BY <1>6, <1>7, <1>8, <1>9, <1>10, <1>11 DEF RowTracksSession

LEMMA StopClearStep == ASSUME UsageAssumption, IInv, StopClear PROVE IInv'
<1> USE DEF IInv, StopClear
<1>1. TypeOK' /\ HandsOK'
  BY Parts DEF TypeOK, HandsOK, MaybeSession
<1>2. \A id \in SessionIds : Open(id)' \/ InHand(id)' => Open(id) \/ InHand(id)
  BY DEF Open, InHand, UsageAssumption
<1>3. /\ BlankUntilRecorded' /\ OnlyLatestEarns'
      /\ NoMomentCreditedTwice' /\ RowTracksSession'
  BY <1>2, QuietStep, Parts
<1>4. ASSUME ~DiskFaults PROVE SavedUntilCredited'
  <2>1. ASSUME NEW id \in SessionIds PROVE Pending(id)' => Pending(id)
    BY Parts DEF Pending, InHand, UsageAssumption
  <2>2. QED
    BY <1>4, <2>1 DEF SavedUntilCredited, SavedWhenDue, StopWritesRecent, Saved
<1>5. QED BY <1>1, <1>3, <1>4

LEMMA CloseDatabaseStep == ASSUME UsageAssumption, IInv, CloseDatabase PROVE IInv'
<1> USE DEF IInv, CloseDatabase
<1>1. TypeOK' /\ HandsOK'
  BY DEF TypeOK, HandsOK
<1>2. \A id \in SessionIds : Open(id)' \/ InHand(id)' => Open(id) \/ InHand(id)
  BY DEF Open, InHand
<1>3. /\ BlankUntilRecorded' /\ OnlyLatestEarns'
      /\ NoMomentCreditedTwice' /\ RowTracksSession'
  BY <1>2, QuietStep, Parts
<1>4. ASSUME ~DiskFaults PROVE SavedUntilCredited'
  BY <1>4 DEF SavedUntilCredited, SavedWhenDue, StopWritesRecent, Pending, InHand, Saved
<1>5. QED BY <1>1, <1>3, <1>4

-----------------------------------------------------------------------------
(* The world *)

LEMMA WorldStep == ASSUME UsageAssumption, IInv, World PROVE IInv'
<1> USE DEF IInv
<1>1. UNCHANGED <<row, sess>> /\ now' \in Nat /\ now <= now'
  BY Parts DEF World, Tick, ChangeDate, Relaunch
<1>2. CASE Tick \/ ChangeDate
  <2>1. UNCHANGED <<row, sess, dbOpen, active, mpc, poll, spc, stop>> /\ today' \in Days
    BY <1>2, Parts DEF Tick, ChangeDate, TypeOK
  <2>2. TypeOK' /\ HandsOK'
    BY <1>1, <2>1 DEF TypeOK, HandsOK
  <2>3. \A id \in SessionIds : Open(id)' \/ InHand(id)' => Open(id) \/ InHand(id)
    BY <2>1 DEF Open, InHand
  <2>4. /\ BlankUntilRecorded' /\ OnlyLatestEarns'
        /\ NoMomentCreditedTwice' /\ RowTracksSession'
    BY <1>1, <2>1, <2>3, QuietStep
  <2>5. ASSUME ~DiskFaults PROVE SavedUntilCredited'
    BY <1>1, <2>1, <2>5 DEF SavedUntilCredited, SavedWhenDue, StopWritesRecent,
       Pending, InHand, Saved, Open
  <2>6. QED BY <2>2, <2>4, <2>5
<1>3. CASE Relaunch
  <2> USE DEF Relaunch
  <2>1. TypeOK' /\ HandsOK'
    BY <1>3 DEF TypeOK, HandsOK, NoPoll, NoStop, PollLocals, StopLocals, MaybeSession
  <2>2. \A id \in SessionIds : ~Open(id)' /\ ~InHand(id)' /\ ~Pending(id)'
    BY <1>3 DEF Open, InHand, Pending, UsageAssumption
  <2>3. /\ BlankUntilRecorded' /\ OnlyLatestEarns'
        /\ NoMomentCreditedTwice' /\ RowTracksSession'
    BY <1>1, <1>3, <2>2, QuietStep
  <2>4. SavedUntilCredited'
    BY <1>3, <2>2 DEF SavedUntilCredited, SavedWhenDue, StopWritesRecent
  <2>5. QED BY <2>1, <2>3, <2>4
<1>4. QED BY <1>2, <1>3 DEF World

-----------------------------------------------------------------------------
(* The invariant *)

LEMMA InitIInv == ASSUME UsageAssumption, Init PROVE IInv /\ CreditDayOK
<1> USE DEF Init
<1>1. /\ \A id \in SessionIds :
           /\ sess[id] \in Session /\ sess[id].counted = 0 /\ sess[id].tick = 0
           /\ sess[id].from = 0 /\ sess[id] = NewSession(0)
           /\ row[id] \in Row /\ row[id].app = NoApp /\ row[id].dur = 0
      /\ poll \in PollLocals /\ poll.list = {}
  BY NewSessionIs DEF NewRow, Row, NoPoll, PollLocals, MaybeSession
<1>2. TypeOK
  BY <1>1 DEF TypeOK, NoStop, StopLocals, MaybeSession
<1>3. HandsOK /\ CreditDayOK
  BY <1>1 DEF HandsOK, CreditDayOK
<1>4. BlankUntilRecorded /\ OnlyLatestEarns /\ NoMomentCreditedTwice /\ RowTracksSession
  BY <1>1 DEF BlankUntilRecorded, OnlyLatestEarns, Latest, NoMomentCreditedTwice,
     RowTracksSession, UsageAssumption
<1>5. SavedUntilCredited
  BY <1>1 DEF SavedUntilCredited, SavedWhenDue, StopWritesRecent, Pending, InHand, Saved
<1>6. QED BY <1>2, <1>3, <1>4, <1>5 DEF IInv

LEMMA NextStep == ASSUME UsageAssumption, IInv, [Next]_vars PROVE IInv'
<1>1. CASE Monitor
  BY <1>1, BeginPollStep, ExitLoopStep, SkipAppStep, StartRowStep, RecordSessionStep,
     TakeUpStep, PopSessionStep, EndSessionStep, SplitEndStep, SplitStartStep,
     SplitInstallStep, RegetStep, AccrueStep, BeginSaveStep, SaveRowStep,
     MarkWrittenStep, EndPollStep DEF Monitor
<1>2. CASE Main
  BY <1>2, StopBeginStep, StopReadStep, StopWriteStep, StopClearStep,
     CloseDatabaseStep DEF Main
<1>3. CASE World
  BY <1>3, WorldStep
<1>4. CASE UNCHANGED vars
  BY <1>4 DEF vars, IInv, TypeOK, HandsOK, BlankUntilRecorded, OnlyLatestEarns, Latest,
     NoMomentCreditedTwice, RowTracksSession, SavedUntilCredited, SavedWhenDue,
     StopWritesRecent, Pending, InHand, Open, Saved
<1>5. QED BY <1>1, <1>2, <1>3, <1>4 DEF Next

-----------------------------------------------------------------------------
(* Which day is credited *)

LEMMA CreditDayStep ==
  ASSUME UsageAssumption, IInv, CreditDayOK, [Next]_vars PROVE CreditDayOK'
<1> USE DEF IInv, CreditDayOK
<1>1. ASSUME NEW a \in Apps, TakeSession(a) PROVE CreditDayOK'
  BY <1>1, Parts DEF TakeSession, NeedsSplit, PollLocals, HandsOK, TypeOK, MaybeSession
<1>2. CASE SplitEnd
  <2>1. mpc' = "splitStart" \/ (mpc' = "credit" /\ DbFails')
    BY <1>2 DEF SplitEnd, DbFails
  <2>2. QED BY <2>1
<1>3. CASE SplitStart
  <2> DEFINE a == row[poll.sid].app
  <2>1. a \in Apps
    BY <1>3, Parts DEF SplitStart, HandsOK
  <2>2. CASE mpc' = "credit" /\ DbFails'
    BY <2>2
  <2>3. ASSUME NEW id \in Unused,
               row' = [row EXCEPT ![id] = NewRow(a, poll.date)],
               poll' = [poll EXCEPT !.new = id], mpc' = "install"
        PROVE  CreditDayOK'
    <3>1. /\ poll'.new = id /\ poll'.date = poll.date
          /\ row'[id] = NewRow(a, poll.date)
      BY <2>3, Parts DEF PollLocals, Unused, TypeOK
    <3>2. QED BY <2>1, <2>3, <3>1, NewRowIs, Parts
  <2>4. QED BY <1>3, <2>2, <2>3 DEF SplitStart, DbFails
<1>4. CASE SplitInstall
  BY <1>4, Parts DEF SplitInstall, HandsOK, TypeOK
<1>5. CASE Reget
  BY <1>5, Parts DEF Reget, PollLocals
<1>6. CASE StopWrite
  <2> DEFINE r == Ended(row[stop.sid], stop.val)
  <2>1. stop.sid \in SessionIds /\ r.date = row[stop.sid].date /\ r.app = row[stop.sid].app
    BY <1>6, EndedIs, Parts DEF StopWrite, HandsOK
  <2>2. row' = [row EXCEPT ![stop.sid] = r] \/ row' = row
    BY <1>6 DEF StopWrite, EndRow
  <2> HIDE DEF r
  <2>3. \A id \in SessionIds : row'[id].date = row[id].date /\ row'[id].app = row[id].app
    BY <2>1, <2>2 DEF TypeOK
  <2>4. QED
    BY <1>6, <2>3 DEF StopWrite, DbFails, HandsOK
<1>7. CASE StopClear
  BY <1>7, Parts DEF StopClear, DbFails, HandsOK
<1>8. CASE \/ StopBegin \/ CloseDatabase \/ (\E id \in SessionIds : StopRead(id))
           \/ Tick \/ ChangeDate \/ UNCHANGED vars
  BY <1>8 DEF StopBegin, CloseDatabase, StopRead, Tick, ChangeDate, vars, DbFails
<1>9. CASE mpc' \notin {"credit", "install", "reget"}
  BY <1>9
<1>10. CASE Monitor
  <2>1. CASE \/ BeginPoll \/ ExitLoop \/ RecordSession \/ PopSession \/ EndSession
             \/ Accrue \/ BeginSave \/ MarkWritten \/ EndPoll
    BY <1>9, <2>1 DEF BeginPoll, ExitLoop, RecordSession, PopSession, EndSession,
       Accrue, BeginSave, MarkWritten, EndPoll
  <2>2. CASE \/ \E a \in Apps : SkipApp(a) \/ StartRow(a) \/ SeeStopped(a)
             \/ \E id \in SessionIds : SaveRow(id)
    BY <1>9, <2>2 DEF SkipApp, StartRow, SeeStopped, SaveRow
  <2>3. QED
    BY <1>10, <1>1, <1>2, <1>3, <1>4, <1>5, <2>1, <2>2 DEF Monitor
<1>11. CASE Relaunch
  BY <1>9, <1>11 DEF Relaunch
<1>12. QED
  BY <1>6, <1>7, <1>8, <1>10, <1>11 DEF Next, Main, World

\* Only _accrue() adds seconds.
LEMMA CreditedBy ==
  ASSUME UsageAssumption, IInv, [Next]_vars, NEW id \in SessionIds,
         sess'[id].counted > sess[id].counted
  PROVE  Accrue /\ id = poll.sid
<1> USE DEF IInv
<1>1. CASE RecordSession
  <2>1. poll.sid \in SessionIds /\ NewSession(now).counted = 0
    BY <1>1, NewSessionIs, Parts DEF RecordSession, HandsOK
  <2>2. sess'[id].counted = 0 \/ sess'[id] = sess[id]
    BY <1>1, <2>1 DEF RecordSession, TypeOK
  <2>3. QED BY <2>2, Parts
<1>2. CASE SplitInstall
  <2>1. poll.new \in SessionIds /\ NewSession(sess[poll.sid].tick).counted = 0
    BY <1>2, NewSessionIs, Parts DEF SplitInstall, HandsOK
  <2>2. sess'[id].counted = 0 \/ sess'[id] = sess[id]
    BY <1>2, <2>1 DEF SplitInstall, Continue, TypeOK
  <2>3. QED BY <2>2, Parts
<1>3. CASE MarkWritten
  <2> DEFINE n == [sess[poll.sid] EXCEPT !.written = sess[poll.sid].counted]
  <2>1. poll.sid \in SessionIds /\ n.counted = sess[poll.sid].counted
    BY <1>3, Parts DEF MarkWritten, HandsOK, Session
  <2>2. sess' = [sess EXCEPT ![poll.sid] = n]
    BY <1>3 DEF MarkWritten
  <2> HIDE DEF n
  <2>3. sess'[id].counted = sess[id].counted
    BY <2>1, <2>2 DEF TypeOK
  <2>4. QED BY <2>3, Parts
<1>4. CASE UNCHANGED sess
  BY <1>4, Parts
<1>5. CASE Accrue
  <2>1. poll.sid \in SessionIds
    BY <1>5 DEF Accrue, HandsOK
  <2>2. id # poll.sid => sess'[id] = sess[id]
    BY <1>5, <2>1 DEF Accrue, TypeOK
  <2>3. QED BY <1>5, <2>2, Parts
<1>6. CASE Monitor
  BY <1>1, <1>2, <1>3, <1>4, <1>5, <1>6 DEF Monitor, BeginPoll, ExitLoop, SkipApp,
     StartRow, SeeStopped, PopSession, EndSession, TakeSession, SplitEnd, SplitStart,
     Reget, BeginSave, SaveRow, EndPoll
<1>7. CASE Main \/ World \/ UNCHANGED vars
  BY <1>4, <1>7 DEF Main, StopBegin, StopRead, StopWrite, StopClear, CloseDatabase,
     World, Tick, ChangeDate, Relaunch, vars
<1>8. QED BY <1>6, <1>7 DEF Next

-----------------------------------------------------------------------------
(* The theorems *)

\* The strengthened invariant holds in every reachable state.
THEOREM Invariance == Spec => [](IInv /\ CreditDayOK)
<1>1. Init => IInv /\ CreditDayOK
  BY UsageAssumption, InitIInv
<1>2. IInv /\ CreditDayOK /\ [Next]_vars => (IInv /\ CreditDayOK)'
  BY UsageAssumption, NextStep, CreditDayStep
<1>3. QED BY <1>1, <1>2, PTL DEF Spec

\* Every variable stays in its type, for any number of apps, sessions and days.
THEOREM TypeCorrect == Spec => []TypeOK
<1>1. IInv => TypeOK
  BY DEF IInv
<1>2. QED BY <1>1, Invariance, PTL

\* As long as writes do not fail, no crash, quit or race of stop() with a poll
\* loses more than one capped interval of a session, and no row is ever ahead of
\* what was credited (monitor.py:118-135 and 379-388).
THEOREM RowsTrackSessions == Spec => []RowTracksSession
<1>1. IInv => RowTracksSession
  BY DEF IInv
<1>2. QED BY <1>1, Invariance, PTL

\* Whatever fails or races, the sessions of one app never share a moment of
\* credit (_accrue and _split_at_midnight, monitor.py:436-504).
THEOREM NothingCreditedTwice == Spec => []NoMomentCreditedTwice
<1>1. IInv => NoMomentCreditedTwice
  BY DEF IInv
<1>2. QED BY <1>1, Invariance, PTL

\* While the database works, _poll() credits seconds to its own date only
\* (monitor.py:358-370).
THEOREM CreditDay == Spec => CreditGoesToPollDay
<1> DEFINE Step == \A id \in SessionIds :
                     sess'[id].counted > sess[id].counted =>
                       row[id].date = poll.date \/ DbFails
<1>1. IInv /\ CreditDayOK /\ [Next]_vars => Step
  <2> SUFFICES ASSUME IInv, CreditDayOK, [Next]_vars, NEW id \in SessionIds,
                      sess'[id].counted > sess[id].counted
               PROVE  row[id].date = poll.date \/ DbFails
    OBVIOUS
  <2>1. Accrue /\ id = poll.sid
    BY UsageAssumption, CreditedBy
  <2>2. QED BY <2>1 DEF Accrue, CreditDayOK
<1>2. IInv /\ CreditDayOK /\ [Next]_vars => [Step]_vars
  BY <1>1
<1>3. QED BY <1>2, Invariance, PTL DEF Spec, CreditGoesToPollDay

-----------------------------------------------------------------------------
(* Sums over finite sets *)

LEMMA SmallestSubset ==
  ASSUME NEW S, IsFiniteSet(S), NEW T \in SUBSET SUBSET S, T # {}
  PROVE  \E A \in T : \A B \in SUBSET A : B # A => B \notin T
<1>1. IsWellFoundedOn(StrictSubsetOrdering(S), SUBSET S)
  BY FS_StrictSubsetOrderingWellFounded, FS_FiniteSubsetsOfFinite
<1>2. PICK A \in T : \A B \in T : <<B, A>> \notin StrictSubsetOrdering(S)
  BY <1>1, WFMin
<1>3. ASSUME NEW B \in SUBSET A, B # A PROVE B \notin T
  BY <1>2, <1>3 DEF StrictSubsetOrdering
<1>4. QED BY <1>3

Pick(s) == CHOOSE x \in s : TRUE
IsSum(g, f, A) ==
  g = [s \in SUBSET A |-> IF s = {} THEN 0 ELSE f[Pick(s)] + g[s \ {Pick(s)}]]

LEMMA PickIs == ASSUME NEW s, s # {} PROVE Pick(s) \in s
  BY DEF Pick

LEMMA SumUnique ==
  ASSUME NEW S, IsFiniteSet(S), NEW f, NEW A \in SUBSET S, NEW B \in SUBSET S,
         NEW g, NEW h, IsSum(g, f, A), IsSum(h, f, B),
         NEW x \in SUBSET (A \cap B)
  PROVE  g[x] = h[x]
<1> DEFINE T == {y \in SUBSET (A \cap B) : g[y] # h[y]}
<1> SUFFICES ASSUME T # {} PROVE FALSE
  OBVIOUS
<1>1. PICK y \in T : \A z \in SUBSET y : z # y => z \notin T
  <2>1. T \in SUBSET SUBSET S
    OBVIOUS
  <2> HIDE DEF T
  <2>2. QED BY <2>1, SmallestSubset
<1>2. y # {}
  BY <1>1 DEF IsSum
<1>3. /\ Pick(y) \in y /\ y \ {Pick(y)} \in SUBSET y /\ y \ {Pick(y)} # y
  BY <1>2, PickIs
<1>4. g[y \ {Pick(y)}] = h[y \ {Pick(y)}]
  BY <1>1, <1>3
<1>5. g[y] = f[Pick(y)] + g[y \ {Pick(y)}]
  <2>1. y \in SUBSET A
    BY <1>1
  <2>2. QED BY <1>2, <2>1 DEF IsSum
<1>6. h[y] = f[Pick(y)] + h[y \ {Pick(y)}]
  <2>1. y \in SUBSET B
    BY <1>1
  <2>2. QED BY <1>2, <2>1 DEF IsSum
<1>7. QED BY <1>1, <1>4, <1>5, <1>6

LEMMA SumExists ==
  ASSUME NEW S, IsFiniteSet(S), NEW f
  PROVE  \A A \in SUBSET S : \E g : IsSum(g, f, A)
<1> DEFINE T == {A \in SUBSET S : ~ \E g : IsSum(g, f, A)}
<1> SUFFICES ASSUME T # {} PROVE FALSE
  OBVIOUS
<1>1. PICK A \in T : \A B \in SUBSET A : B # A => B \notin T
  <2>1. T \in SUBSET SUBSET S
    OBVIOUS
  <2> HIDE DEF T
  <2>2. QED BY <2>1, SmallestSubset
<1> DEFINE G(B) == CHOOSE g : IsSum(g, f, B)
           sub(s) == s \ {Pick(s)}
           g == [s \in SUBSET A |-> IF s = {} THEN 0 ELSE f[Pick(s)] + G(sub(s))[sub(s)]]
<1>2. ASSUME NEW B \in SUBSET A, B # A PROVE IsSum(G(B), f, B)
  <2>1. \E h : IsSum(h, f, B)
    BY <1>1, <1>2
  <2>2. QED BY <2>1
<1> HIDE DEF G
<1>3. ASSUME NEW s \in SUBSET A, s # {} PROVE g[sub(s)] = G(sub(s))[sub(s)]
  <2>1. Pick(s) \in s /\ sub(s) \in SUBSET A /\ sub(s) # A
    BY <1>3, PickIs
  <2>2. CASE sub(s) = {}
    <3>1. IsSum(G({}), f, {})
      BY <1>2, <2>1, <2>2
    <3>2. G({})[{}] = 0
      BY <3>1 DEF IsSum
    <3>3. QED BY <2>1, <2>2, <3>2
  <2>3. CASE sub(s) # {}
    <3> DEFINE r == sub(s)
    <3>1. /\ Pick(r) \in r /\ sub(r) \in SUBSET r /\ sub(r) \in SUBSET A /\ sub(r) # A
          /\ r \in SUBSET A /\ r # A
      BY <2>1, <2>3, PickIs
    <3>2. IsSum(G(r), f, r) /\ IsSum(G(sub(r)), f, sub(r))
      BY <1>2, <3>1
    <3>3. G(r)[r] = f[Pick(r)] + G(r)[sub(r)]
      BY <2>3, <3>2 DEF IsSum
    <3>4. G(r)[sub(r)] = G(sub(r))[sub(r)]
      <4>1. r \in SUBSET S /\ sub(r) \in SUBSET S /\ sub(r) \in SUBSET (r \cap sub(r))
        BY <1>1, <3>1
      <4> HIDE DEF sub, r
      <4>2. QED BY <3>2, <4>1, SumUnique
    <3>5. g[r] = f[Pick(r)] + G(sub(r))[sub(r)]
      BY <2>3, <3>1
    <3>6. QED BY <3>3, <3>4, <3>5
  <2>4. QED BY <2>2, <2>3
<1>4. IsSum(g, f, A)
  BY <1>3 DEF IsSum
<1>5. QED BY <1>1, <1>4

LEMMA SumBy ==
  ASSUME NEW S, IsFiniteSet(S), NEW f
  PROVE  \E g : IsSum(g, f, S) /\ SumFunctionOnSet(f, S) = g[S]
<1>1. SumFunctionOnSet(f, S) = (CHOOSE g : IsSum(g, f, S))[S]
  BY DEF SumFunctionOnSet, FoldFunctionOnSet, MapThenFoldSet, IsSum, Pick
<1>2. \E g : IsSum(g, f, S)
  BY SumExists
<1>3. IsSum(CHOOSE g : IsSum(g, f, S), f, S)
  BY <1>2
<1>4. QED BY <1>1, <1>3

LEMMA SumStep ==
  ASSUME NEW S, IsFiniteSet(S), NEW f
  PROVE  /\ SumFunctionOnSet(f, {}) = 0
         /\ S # {} => SumFunctionOnSet(f, S) = f[Pick(S)] + SumFunctionOnSet(f, S \ {Pick(S)})
<1>1. SumFunctionOnSet(f, {}) = 0
  <2>1. PICK g : IsSum(g, f, {}) /\ SumFunctionOnSet(f, {}) = g[{}]
    BY FS_EmptySet, SumBy
  <2>2. QED BY <2>1 DEF IsSum
<1>2. ASSUME S # {} PROVE SumFunctionOnSet(f, S) = f[Pick(S)] + SumFunctionOnSet(f, S \ {Pick(S)})
  <2> DEFINE R == S \ {Pick(S)}
  <2>1. IsFiniteSet(R)
    BY FS_RemoveElement
  <2>2. PICK g : IsSum(g, f, S) /\ SumFunctionOnSet(f, S) = g[S]
    BY SumBy
  <2>3. PICK h : IsSum(h, f, R) /\ SumFunctionOnSet(f, R) = h[R]
    BY <2>1, SumBy
  <2>4. g[R] = h[R]
    BY <2>2, <2>3, SumUnique
  <2>5. g[S] = f[Pick(S)] + g[R]
    BY <1>2, <2>2 DEF IsSum
  <2>6. QED BY <2>2, <2>3, <2>4, <2>5
<1>3. QED BY <1>1, <1>2

LEMMA SumIsNat ==
  ASSUME NEW S, IsFiniteSet(S), NEW f, \A i \in S : f[i] \in Nat
  PROVE  \A A \in SUBSET S : SumFunctionOnSet(f, A) \in Nat
<1> DEFINE T == {A \in SUBSET S : SumFunctionOnSet(f, A) \notin Nat}
<1> SUFFICES ASSUME T # {} PROVE FALSE
  OBVIOUS
<1>1. PICK A \in T : \A B \in SUBSET A : B # A => B \notin T
  <2>1. T \in SUBSET SUBSET S
    OBVIOUS
  <2> HIDE DEF T
  <2>2. QED BY <2>1, SmallestSubset
<1>2. IsFiniteSet(A)
  BY <1>1, FS_Subset
<1>3. A # {}
  <2>1. SumFunctionOnSet(f, {}) = 0
    BY FS_EmptySet, SumStep
  <2>2. {} \notin T
    BY <2>1
  <2> HIDE DEF T
  <2>3. QED BY <2>2
<1> DEFINE R == A \ {Pick(A)}
<1>4. Pick(A) \in A /\ R \in SUBSET A /\ R # A
  BY <1>3, PickIs
<1>5. SumFunctionOnSet(f, R) \in Nat
  BY <1>1, <1>4
<1>6. SumFunctionOnSet(f, A) = f[Pick(A)] + SumFunctionOnSet(f, R)
  BY <1>2, <1>3, SumStep
<1>7. f[Pick(A)] \in Nat
  BY <1>1, <1>4
<1>8. SumFunctionOnSet(f, A) \in Nat
  BY <1>5, <1>6, <1>7
<1>9. QED BY <1>1, <1>8

LEMMA SumWithout ==
  ASSUME NEW S, IsFiniteSet(S), NEW f, \A i \in S : f[i] \in Nat
  PROVE  \A A \in SUBSET S : \A x \in A :
           SumFunctionOnSet(f, A) = f[x] + SumFunctionOnSet(f, A \ {x})
<1> DEFINE T == {A \in SUBSET S : \E x \in A :
                   SumFunctionOnSet(f, A) # f[x] + SumFunctionOnSet(f, A \ {x})}
<1> SUFFICES ASSUME T # {} PROVE FALSE
  OBVIOUS
<1>1. PICK A \in T : \A B \in SUBSET A : B # A => B \notin T
  <2>1. T \in SUBSET SUBSET S
    OBVIOUS
  <2> HIDE DEF T
  <2>2. QED BY <2>1, SmallestSubset
<1>2. PICK x \in A : SumFunctionOnSet(f, A) # f[x] + SumFunctionOnSet(f, A \ {x})
  BY <1>1
<1> DEFINE p == Pick(A)
<1>3. /\ p \in A /\ A \in SUBSET S /\ A # {}
      /\ IsFiniteSet(A) /\ IsFiniteSet(A \ {x})
  BY <1>1, <1>2, PickIs, FS_Subset
<1>4. SumFunctionOnSet(f, A) = f[p] + SumFunctionOnSet(f, A \ {p})
  BY <1>3, SumStep
<1>5. x # p
  BY <1>2, <1>4
<1>6. SumFunctionOnSet(f, A \ {p}) = f[x] + SumFunctionOnSet(f, (A \ {p}) \ {x})
  <2>1. A \ {p} \in SUBSET A /\ A \ {p} # A /\ x \in A \ {p}
    BY <1>3, <1>5
  <2>2. A \ {p} \notin T /\ A \ {p} \in SUBSET S
    BY <1>1, <1>3, <2>1
  <2>3. QED BY <2>1, <2>2
<1>7. SumFunctionOnSet(f, A \ {x}) = f[p] + SumFunctionOnSet(f, (A \ {x}) \ {p})
  <2>1. A \ {x} \in SUBSET A /\ A \ {x} # A /\ p \in A \ {x}
    BY <1>3, <1>5
  <2>2. A \ {x} \notin T /\ A \ {x} \in SUBSET S
    BY <1>1, <1>3, <2>1
  <2>3. QED BY <2>1, <2>2
<1> DEFINE r == SumFunctionOnSet(f, (A \ {x}) \ {p})
<1>8. (A \ {p}) \ {x} = (A \ {x}) \ {p}
  OBVIOUS
<1>9. f[x] \in Nat /\ f[p] \in Nat /\ r \in Nat
  BY <1>2, <1>3, SumIsNat
<1> HIDE DEF p, r
<1>10. SumFunctionOnSet(f, A) = f[p] + (f[x] + r)
  BY <1>4, <1>6, <1>8 DEF r
<1>11. SumFunctionOnSet(f, A \ {x}) = f[p] + r
  BY <1>7 DEF r
<1>12. QED BY <1>2, <1>9, <1>10, <1>11

\* A sum over more, of nothing less, is no less.
LEMMA SumGrows ==
  ASSUME NEW S, IsFiniteSet(S), NEW P \in SUBSET S, NEW f, NEW g,
         \A i \in P : f[i] \in Nat /\ f[i] <= g[i],
         \A i \in S : g[i] \in Nat
  PROVE  SumFunctionOnSet(f, P) <= SumFunctionOnSet(g, S)
<1> DEFINE T == {A \in SUBSET S :
                   ~ (SumFunctionOnSet(f, A \cap P) <= SumFunctionOnSet(g, A))}
<1>1. P = S \cap P /\ IsFiniteSet(P)
  BY FS_Subset
<1> SUFFICES ASSUME T # {} PROVE FALSE
  BY <1>1
<1>2. PICK A \in T : \A B \in SUBSET A : B # A => B \notin T
  <2>1. T \in SUBSET SUBSET S
    OBVIOUS
  <2> HIDE DEF T
  <2>2. QED BY <2>1, SmallestSubset
<1>3. A \in SUBSET S
  BY <1>2
<1>4. A # {}
  <2>1. SumFunctionOnSet(f, {}) = 0 /\ SumFunctionOnSet(g, {}) = 0
    BY FS_EmptySet, SumStep
  <2>2. {} \cap P = {}
    OBVIOUS
  <2>3. {} \notin T
    BY <2>1, <2>2
  <2> HIDE DEF T
  <2>4. QED BY <2>3
<1>5. PICK x : x \in A
  BY <1>4
<1> DEFINE R == A \ {x}
<1>6. R \in SUBSET A /\ R # A /\ R \in SUBSET S /\ R \cap P \in SUBSET P
  BY <1>3, <1>5
<1>7. SumFunctionOnSet(f, R \cap P) <= SumFunctionOnSet(g, R)
  BY <1>2, <1>6
<1>8. SumFunctionOnSet(g, A) = g[x] + SumFunctionOnSet(g, R)
  BY <1>3, <1>5, SumWithout
<1>9. SumFunctionOnSet(f, R \cap P) \in Nat /\ SumFunctionOnSet(g, R) \in Nat /\ g[x] \in Nat
  BY <1>1, <1>3, <1>5, <1>6, SumIsNat
<1>10. CASE x \in P
  <2>1. (A \cap P) \ {x} = R \cap P /\ A \cap P \in SUBSET P /\ x \in A \cap P
    BY <1>5, <1>10
  <2>2. SumFunctionOnSet(f, A \cap P) = f[x] + SumFunctionOnSet(f, R \cap P)
    BY <1>1, <2>1, SumWithout
  <2>3. f[x] \in Nat /\ f[x] <= g[x]
    BY <1>10
  <2>4. SumFunctionOnSet(f, A \cap P) <= SumFunctionOnSet(g, A)
    BY <1>7, <1>8, <1>9, <2>2, <2>3
  <2>5. QED BY <1>2, <2>4
<1>11. CASE x \notin P
  <2>1. A \cap P = R \cap P
    BY <1>11
  <2>2. SumFunctionOnSet(f, A \cap P) = SumFunctionOnSet(f, R \cap P)
    BY <2>1
  <2> HIDE DEF T, R
  <2>3. SumFunctionOnSet(f, A \cap P) <= SumFunctionOnSet(g, A)
    BY <1>7, <1>8, <1>9, <2>2
  <2>4. QED BY <1>2, <2>3 DEF T
<1>12. QED BY <1>10, <1>11

\* A sum of terms only one of which is ahead, by c at most, is ahead by no more.
LEMMA SumAhead ==
  ASSUME NEW S, IsFiniteSet(S), NEW f, NEW g, NEW x, NEW c \in Nat,
         \A i \in S : f[i] \in Nat /\ g[i] \in Nat,
         \A i \in S : i # x => g[i] <= f[i],
         x \in S => g[x] <= f[x] + c
  PROVE  SumFunctionOnSet(g, S) <= SumFunctionOnSet(f, S) + c
<1>1. SumFunctionOnSet(g, S) \in Nat /\ SumFunctionOnSet(f, S) \in Nat
  BY SumIsNat
<1>2. CASE x \in S
  <2> DEFINE R == S \ {x}
  <2>1. IsFiniteSet(R) /\ R \in SUBSET S
    BY FS_RemoveElement
  <2>2. SumFunctionOnSet(g, R) <= SumFunctionOnSet(f, R)
    BY <2>1, SumGrows
  <2>3. /\ SumFunctionOnSet(f, S) = f[x] + SumFunctionOnSet(f, R)
        /\ SumFunctionOnSet(g, S) = g[x] + SumFunctionOnSet(g, R)
    BY <1>2, SumWithout
  <2>4. SumFunctionOnSet(g, R) \in Nat /\ SumFunctionOnSet(f, R) \in Nat
    BY <2>1, SumIsNat
  <2>5. QED BY <1>2, <2>2, <2>3, <2>4
<1>3. CASE x \notin S
  <2>1. SumFunctionOnSet(g, S) <= SumFunctionOnSet(f, S)
    BY <1>3, SumGrows
  <2>2. QED BY <1>1, <2>1
<1>4. QED BY <1>2, <1>3

-----------------------------------------------------------------------------
(* What a step of the two threads makes of the rows and the dicts *)

Threads == Monitor \/ Main

\* Nothing that has a row is filed anew, no seconds of a dict are taken back, and what
\* an earlier run has left stays as it is.
LEMMA RowsStay ==
  ASSUME UsageAssumption, IInv, EarlierIsLeft, HandsFilled, earlier \subseteq SessionIds,
         Threads
  PROVE  /\ \A id \in SessionIds :
              /\ sess[id].counted <= sess'[id].counted
              /\ row[id].app # NoApp =>
                   row'[id].app = row[id].app /\ row'[id].date = row[id].date
         /\ \A id \in earlier : row'[id] = row[id]
<1> USE DEF IInv
<1> DEFINE Kept == /\ \A id \in SessionIds :
                        /\ sess[id].counted <= sess'[id].counted
                        /\ row[id].app # NoApp =>
                             row'[id].app = row[id].app /\ row'[id].date = row[id].date
                   /\ \A id \in earlier : row'[id] = row[id]
<1>1. ASSUME UNCHANGED <<row, sess>> PROVE Kept
  BY <1>1, Parts
\* One row is written.
<1>2. ASSUME NEW s \in SessionIds \ earlier, NEW d \in Nat, EndRow(s, d), UNCHANGED sess
      PROVE  Kept
  <2> DEFINE r == Ended(row[s], d)
  <2>1. r.app = row[s].app /\ r.date = row[s].date
    BY <1>2, EndedIs, Parts
  <2>2. row' = [row EXCEPT ![s] = r]
    BY <1>2 DEF EndRow
  <2> HIDE DEF r
  <2>3. QED BY <1>2, <2>1, <2>2, Parts DEF TypeOK
\* One row is added.
<1>3. ASSUME NEW s \in Unused, NEW a, row' = [row EXCEPT ![s] = NewRow(a, poll.date)],
             UNCHANGED sess
      PROVE  Kept
  <2>1. s \in SessionIds /\ row[s].app = NoApp /\ s \notin earlier
    BY <1>3 DEF Unused, EarlierIsLeft
  <2>2. QED BY <1>3, <2>1, Parts DEF TypeOK
<1>4. ASSUME NEW a \in Apps, StartRow(a) PROVE Kept
  BY <1>1, <1>3, <1>4 DEF StartRow
<1>5. CASE SplitStart
  BY <1>1, <1>3, <1>5 DEF SplitStart
<1>6. CASE EndSession \/ SplitEnd
  <2>1. poll.sid \in SessionIds \ earlier /\ sess[poll.sid].counted \in Nat
    BY <1>6, Parts DEF EndSession, SplitEnd, HandsOK, EarlierIsLeft
  <2>2. EndRow(poll.sid, sess[poll.sid].counted) \/ UNCHANGED row
    BY <1>6 DEF EndSession, SplitEnd
  <2>3. UNCHANGED sess
    BY <1>6 DEF EndSession, SplitEnd
  <2>4. QED BY <1>1, <1>2, <2>1, <2>2, <2>3
<1>7. CASE StopWrite
  <2>1. stop.sid \in SessionIds \ earlier /\ stop.val \in Nat /\ UNCHANGED sess
    BY <1>7, Parts DEF StopWrite, HandsOK, EarlierIsLeft
  <2>2. EndRow(stop.sid, stop.val) \/ UNCHANGED row
    BY <1>7 DEF StopWrite
  <2>3. QED BY <1>1, <1>2, <2>1, <2>2
<1>8. ASSUME NEW s \in SessionIds, SaveRow(s) PROVE Kept
  <2> DEFINE r == [row[s] EXCEPT !.dur = sess[s].counted]
  <2>1. s \notin earlier /\ UNCHANGED sess
    BY <1>8 DEF SaveRow, EarlierIsLeft
  <2>2. r.app = row[s].app /\ r.date = row[s].date
    BY Parts DEF Row
  <2>3. row' = [row EXCEPT ![s] = r] \/ UNCHANGED row
    BY <1>8 DEF SaveRow
  <2> HIDE DEF r
  <2>4. QED BY <1>1, <2>1, <2>2, <2>3, Parts DEF TypeOK
\* The dicts.
<1>9. CASE RecordSession
  <2>1. poll.sid \in SessionIds /\ sess[poll.sid].counted = 0 /\ UNCHANGED row
    BY <1>9, NewSessionIs DEF RecordSession, HandsOK, BlankUntilRecorded
  <2>2. QED BY <1>9, <2>1, NewSessionIs, Parts DEF RecordSession, TypeOK
<1>10. CASE SplitInstall
  <2>1. poll.new \in SessionIds /\ sess[poll.new].counted = 0 /\ UNCHANGED row
    BY <1>10, NewSessionIs DEF SplitInstall, HandsOK, BlankUntilRecorded
  <2>2. poll.sid \in SessionIds
    BY <1>10 DEF SplitInstall, HandsOK
  <2>3. QED BY <1>10, <2>1, <2>2, NewSessionIs, Parts DEF SplitInstall, Continue, TypeOK
<1>11. CASE Accrue
  <2>1. poll.sid \in SessionIds /\ UNCHANGED row
    BY <1>11 DEF Accrue, HandsOK
  <2>2. PICK c \in CountedSeconds(now - sess[poll.sid].tick) :
          sess' = [sess EXCEPT ![poll.sid] = Earn(@, c)]
    BY <1>11 DEF Accrue
  <2>3. c \in Nat
    BY <2>1, Parts DEF CountedSeconds, UsageAssumption, OnlyLatestEarns
  <2> DEFINE e == Earn(sess[poll.sid], c)
  <2>4. e.counted = sess[poll.sid].counted + c /\ sess' = [sess EXCEPT ![poll.sid] = e]
    BY <2>1, <2>2, <2>3, EarnIs, Parts
  <2> HIDE DEF e
  <2>5. QED BY <2>1, <2>3, <2>4, Parts DEF TypeOK
<1>12. CASE MarkWritten
  <2> DEFINE n == [sess[poll.sid] EXCEPT !.written = sess[poll.sid].counted]
  <2>1. poll.sid \in SessionIds /\ UNCHANGED row
    BY <1>12 DEF MarkWritten, HandsOK
  <2>2. n.counted = sess[poll.sid].counted
    BY <2>1, Parts DEF Session
  <2>3. sess' = [sess EXCEPT ![poll.sid] = n]
    BY <1>12 DEF MarkWritten
  <2> HIDE DEF n
  <2>4. QED BY <2>1, <2>2, <2>3, Parts DEF TypeOK
<1>13. CASE Monitor
  BY <1>13, <1>1, <1>4, <1>5, <1>6, <1>8, <1>9, <1>10, <1>11, <1>12 DEF Monitor, BeginPoll,
     ExitLoop, SkipApp, SeeStopped, PopSession, TakeSession, Reget, BeginSave, EndPoll
<1>14. CASE Main
  BY <1>14, <1>1, <1>7 DEF Main, StopBegin, StopRead, StopClear, CloseDatabase
<1>15. QED BY <1>13, <1>14 DEF Threads

-----------------------------------------------------------------------------
(* The sessions the two threads have in hand *)

\* What an earlier run has left stays out of everybody's hands, and the hands filled.
LEMMA HandsStep ==
  ASSUME UsageAssumption, IInv, EarlierIsLeft, HandsFilled, earlier \subseteq SessionIds,
         UNCHANGED earlier, Threads
  PROVE  EarlierIsLeft' /\ HandsFilled'
<1> USE DEF IInv
<1>1. /\ \A id \in SessionIds : row[id].app # NoApp => row'[id].app = row[id].app
      /\ \A id \in earlier : row'[id] = row[id]
  BY RowsStay
<1>2. \A id \in earlier : row'[id].app # NoApp
  BY <1>1 DEF EarlierIsLeft
<1> DEFINE Left == EarlierIsLeft' /\ HandsFilled'
\* The main thread.
<1>3. CASE StopBegin
  <2>1. /\ UNCHANGED <<row, active, mpc, poll>> /\ spc' = "ending"
        /\ stop' = [NoStop EXCEPT !.list = ActiveIds]
    BY <1>3 DEF StopBegin
  <2>2. stop'.list = ActiveIds
    BY <2>1 DEF NoStop
  <2>3. \A id \in ActiveIds : row[id].app # NoApp /\ id \notin earlier
    BY DEF ActiveIds, HandsOK, EarlierIsLeft, Open, UsageAssumption
  <2>4. QED BY <2>1, <2>2, <2>3 DEF EarlierIsLeft, HandsFilled, Open
<1>4. ASSUME NEW s \in SessionIds, StopRead(s) PROVE Left
  BY <1>4 DEF StopRead, EarlierIsLeft, HandsFilled, Open
<1>5. CASE StopWrite
  <2>1. /\ UNCHANGED <<active, mpc, poll>> /\ spc' = "ending"
        /\ stop'.list = stop.list
    BY <1>5 DEF StopWrite, NoStop
  <2>2. \A id \in stop.list : row'[id].app # NoApp
    BY <1>1, Parts DEF HandsFilled
  <2>3. QED BY <1>2, <2>1, <2>2 DEF EarlierIsLeft, HandsFilled, Open
<1>6. CASE StopClear \/ CloseDatabase
  <2>1. ASSUME NEW id \in earlier PROVE ~Open(id)'
    BY <1>6, <2>1 DEF StopClear, CloseDatabase, EarlierIsLeft, Open, UsageAssumption
  <2>2. /\ UNCHANGED <<row, mpc, poll, stop>> /\ spc' \in {"joining", "closed"}
    BY <1>6 DEF StopClear, CloseDatabase
  <2>3. QED BY <2>1, <2>2 DEF EarlierIsLeft, HandsFilled
\* The monitor thread.
<1>7. CASE BeginPoll \/ ExitLoop \/ EndPoll
  <2>1. /\ UNCHANGED <<row, active, spc, stop>> /\ mpc' \in {"visit", "exited", "wait"}
        /\ poll'.list = {} \/ poll' = poll
    <3>1. CASE BeginPoll
      BY <3>1 DEF BeginPoll, NoPoll
    <3>2. CASE ExitLoop \/ EndPoll
      BY <3>2 DEF ExitLoop, EndPoll, NoPoll
    <3>3. QED BY <1>7, <3>1, <3>2
  <2>2. QED BY <2>1 DEF EarlierIsLeft, HandsFilled, Open
<1>8. CASE BeginSave
  <2>1. /\ UNCHANGED <<row, active, spc, stop>> /\ mpc' = "save"
        /\ poll'.list = ActiveIds
    BY <1>8, Parts DEF BeginSave, PollLocals
  <2>2. \A id \in ActiveIds : id \notin earlier
    BY DEF ActiveIds, EarlierIsLeft, Open
  <2>3. QED BY <2>1, <2>2 DEF EarlierIsLeft, HandsFilled, Open
<1>9. ASSUME NEW a, poll' = Visited(poll, a), mpc' = "visit",
             UNCHANGED <<active, spc, stop>>
      PROVE  Left
  <2>1. poll'.list = poll.list
    BY <1>9, VisitedIs, Parts
  <2>2. \A id \in stop.list : row'[id].app # NoApp
    BY <1>1, Parts DEF HandsFilled
  <2>3. spc = "write" => row'[stop.sid].app # NoApp
    BY <1>1 DEF HandsFilled, HandsOK
  <2>4. QED BY <1>2, <1>9, <2>1, <2>2, <2>3 DEF EarlierIsLeft, HandsFilled, Open
<1>10. CASE EndSession \/ Accrue
  BY <1>9, <1>10 DEF EndSession, Accrue
<1>11. ASSUME NEW a \in Apps, SkipApp(a) PROVE Left
  BY <1>9, <1>11 DEF SkipApp
<1>12. ASSUME NEW a \in Apps, SeeStopped(a) \/ TakeSession(a) PROVE Left
  <2>1. /\ active[a] \in SessionIds /\ row[active[a]].app = a
        /\ poll' = [poll EXCEPT !.sid = active[a]]
        /\ mpc' \in {"pop", "split", "credit"}
        /\ UNCHANGED <<row, active, spc, stop>>
    BY <1>12 DEF SeeStopped, TakeSession, HandsOK, TypeOK, MaybeSession
  <2>2. poll'.sid = active[a] /\ poll'.list = poll.list
    BY <2>1, Parts DEF PollLocals
  <2>3. QED BY <2>1, <2>2 DEF EarlierIsLeft, HandsFilled, Open
<1>13. CASE PopSession
  <2>1. CASE mpc' = "wait"
    BY <1>13, <2>1 DEF PopSession, NoPoll, EarlierIsLeft, HandsFilled, Open
  <2>2. CASE mpc' = "end"
    <3>1. /\ mpc = "pop" /\ UNCHANGED <<row, poll, spc, stop>>
          /\ active' = [active EXCEPT ![row[poll.sid].app] = NoSession]
      BY <1>13, <2>2 DEF PopSession
    <3>2. ASSUME NEW id \in earlier PROVE ~Open(id)'
      BY <3>1, <3>2 DEF EarlierIsLeft, Open, TypeOK, UsageAssumption
    <3>3. QED BY <2>2, <3>1, <3>2 DEF EarlierIsLeft, HandsFilled
  <2>3. QED BY <1>13, <2>1, <2>2 DEF PopSession
<1>14. CASE SplitEnd
  <2>1. /\ mpc = "split" /\ mpc' \in {"splitStart", "credit"}
        /\ UNCHANGED <<active, poll, spc, stop>>
    BY <1>14 DEF SplitEnd
  <2>2. row'[poll.sid].app = row[poll.sid].app
    BY <1>1, <2>1, Parts DEF HandsOK, UsageAssumption
  <2>3. /\ \A id \in stop.list : row'[id].app # NoApp
        /\ spc = "write" => row'[stop.sid].app # NoApp
    BY <1>1, Parts DEF HandsFilled, HandsOK
  <2>4. QED BY <1>2, <2>1, <2>2, <2>3 DEF EarlierIsLeft, HandsFilled, Open
<1>15. CASE Reget
  <2>1. CASE mpc' = "visit"
    BY <1>9, <1>15, <2>1 DEF Reget
  <2>2. CASE mpc' = "credit"
    <3> DEFINE a == row[poll.sid].app
    <3>1. /\ a \in Apps /\ active[a] # NoSession /\ mpc = "reget"
          /\ poll' = [poll EXCEPT !.sid = active[a], !.new = NoSession]
          /\ UNCHANGED <<row, active, spc, stop>>
      BY <1>15, <2>2, Parts DEF Reget, HandsOK
    <3>2. poll'.sid = active[a] /\ poll'.list = poll.list /\ row[active[a]].app = a
      BY <3>1, Parts DEF PollLocals, HandsOK
    <3>3. QED BY <2>2, <3>1, <3>2 DEF EarlierIsLeft, HandsFilled, Open
  <2>3. QED BY <1>15, <2>1, <2>2 DEF Reget
<1>16. CASE RecordSession
  <2> DEFINE a == row[poll.sid].app
  <2>1. /\ mpc = "record" /\ mpc' = "visit" /\ a \in Apps
        /\ active' = [active EXCEPT ![a] = poll.sid] /\ poll' = Visited(poll, a)
        /\ UNCHANGED <<row, spc, stop>>
    BY <1>16, Parts DEF RecordSession, HandsOK
  <2>2. poll'.list = poll.list
    BY <2>1, VisitedIs, Parts
  <2>3. ASSUME NEW id \in earlier PROVE ~Open(id)'
    BY <2>1, <2>3 DEF EarlierIsLeft, Open, TypeOK
  <2>4. QED BY <2>1, <2>2, <2>3 DEF EarlierIsLeft, HandsFilled
<1>17. CASE SplitInstall
  <2> DEFINE a == row[poll.sid].app
  <2>1. /\ mpc = "install" /\ mpc' = "reget" /\ a \in Apps
        /\ active' = [active EXCEPT ![a] = poll.new]
        /\ UNCHANGED <<row, poll, spc, stop>>
    BY <1>17, Parts DEF SplitInstall, HandsOK
  <2>2. ASSUME NEW id \in earlier PROVE ~Open(id)'
    BY <2>1, <2>2 DEF EarlierIsLeft, Open, TypeOK
  <2>3. QED BY <2>1, <2>2 DEF EarlierIsLeft, HandsFilled
\* A row is added.
<1>18. ASSUME NEW s \in Unused, UNCHANGED <<active, spc, stop>>,
              poll'.list = poll.list,
              \/ mpc' = "record" /\ poll'.sid = s
              \/ mpc = "splitStart" /\ mpc' = "install" /\ poll'.new = s /\ poll'.sid = poll.sid
       PROVE  Left
  <2>1. s \in SessionIds /\ s \notin earlier
    BY <1>18 DEF Unused, EarlierIsLeft
  <2>2. /\ \A id \in stop.list : row'[id].app # NoApp
        /\ spc = "write" => row'[stop.sid].app # NoApp
    BY <1>1, <1>18, Parts DEF HandsFilled, HandsOK
  <2>3. mpc = "splitStart" => row'[poll.sid].app = row[poll.sid].app
    BY <1>1, Parts DEF HandsOK, UsageAssumption
  <2>4. QED BY <1>2, <1>18, <2>1, <2>2, <2>3 DEF EarlierIsLeft, HandsFilled, Open
<1>19. ASSUME NEW a \in Apps, StartRow(a) PROVE Left
  <2>1. ASSUME NEW s \in Unused, poll' = [poll EXCEPT !.sid = s], mpc' = "record" PROVE Left
    BY <1>18, <1>19, <2>1, Parts DEF StartRow, PollLocals
  <2>2. CASE poll' = Visited(poll, a) /\ mpc' = mpc
    BY <1>9, <1>19, <2>2 DEF StartRow
  <2>3. QED BY <1>19, <2>1, <2>2 DEF StartRow
<1>20. CASE SplitStart
  <2>1. ASSUME NEW s \in Unused, poll' = [poll EXCEPT !.new = s], mpc' = "install" PROVE Left
    BY <1>18, <1>20, <2>1, Parts DEF SplitStart, PollLocals
  <2>2. CASE mpc' = "credit" /\ UNCHANGED <<row, poll>>
    BY <1>20, <2>2 DEF SplitStart, EarlierIsLeft, HandsFilled, Open
  <2>3. QED BY <1>20, <2>1, <2>2 DEF SplitStart
<1>21. ASSUME NEW s \in SessionIds, SaveRow(s) PROVE Left
  <2>1. /\ s \in poll.list /\ UNCHANGED <<active, spc, stop>>
        /\ poll'.list \subseteq poll.list
        /\ (mpc' = "mark" /\ poll'.sid = s) \/ mpc' = "save"
    BY <1>21, Parts DEF SaveRow, PollLocals
  <2>2. /\ \A id \in stop.list : row'[id].app # NoApp
        /\ spc = "write" => row'[stop.sid].app # NoApp
    BY <1>1, Parts DEF HandsFilled, HandsOK
  <2>3. QED BY <1>2, <2>1, <2>2 DEF EarlierIsLeft, HandsFilled, Open
<1>22. CASE MarkWritten
  <2>1. /\ UNCHANGED <<row, active, spc, stop>> /\ mpc' = "save"
        /\ poll'.list \subseteq poll.list
    BY <1>22, Parts DEF MarkWritten, PollLocals
  <2>2. QED BY <2>1 DEF EarlierIsLeft, HandsFilled, Open
<1>23. CASE Monitor
  BY <1>23, <1>7, <1>8, <1>10, <1>11, <1>12, <1>13, <1>14, <1>15, <1>16, <1>17, <1>19, <1>20,
     <1>21, <1>22 DEF Monitor
<1>24. CASE Main
  BY <1>24, <1>3, <1>4, <1>5, <1>6 DEF Main
<1>25. QED BY <1>23, <1>24 DEF Threads

-----------------------------------------------------------------------------
(* What is behind *)

\* What has to be shown of a step that credits nothing.
LEMMA NobodyFallsBehind ==
  ASSUME OneBehind, UNCHANGED earlier,
         \A id \in SessionIds \ earlier :
           Behind(id)' =>
             /\ Behind(id) /\ row'[id].app = row[id].app
             /\ mpc' \in Visiting => row[id].app \notin poll'.todo
             /\ spc' = "up" =>
                  /\ mpc' # "wait" /\ Open(id)'
                  /\ mpc' \in {"save", "mark"} => id \in poll'.list
  PROVE  OneBehind'
  BY DEF OneBehind

\* Steps that only move the control, or what is in hand.
LEMMA BehindQuiet ==
  ASSUME UsageAssumption, IInv, OneBehind, UNCHANGED <<row, sess, earlier>>,
         spc' = "write" => UNCHANGED <<spc, stop>>,
         spc' = "up" => UNCHANGED <<spc, active>>,
         mpc' \in Visiting => mpc \in Visiting /\ poll'.todo \subseteq poll.todo,
         spc' = "up" => mpc' \notin {"wait", "save", "mark"}
  PROVE  OneBehind'
<1> SUFFICES ASSUME NEW id \in SessionIds \ earlier, Behind(id)'
             PROVE  /\ Behind(id)
                    /\ mpc' \in Visiting => row[id].app \notin poll'.todo
                    /\ spc' = "up" => Open(id)'
  BY NobodyFallsBehind
<1>1. Behind(id)
  BY DEF Behind, Saved
<1>2. QED BY <1>1 DEF OneBehind, Open

\* Steps that write a row or a dict, and move nothing else but the control: `about`
\* names the session they are about.
LEMMA BehindWrite ==
  ASSUME UsageAssumption, IInv, OneBehind, NEW about \in SessionIds,
         UNCHANGED <<earlier, spc>>,
         spc = "write" => UNCHANGED stop,
         \A id \in SessionIds \ {about} : row'[id] = row[id] /\ sess'[id] = sess[id],
         Behind(about)' /\ about \notin earlier =>
           Behind(about) /\ row'[about].app = row[about].app,
         mpc' \in Visiting => mpc \in Visiting /\ poll'.todo \subseteq poll.todo,
         \A id \in SessionIds \ earlier :
           Behind(id) /\ Behind(id)' /\ spc = "up" =>
             Open(id)' /\ mpc' # "wait" /\ (mpc' \in {"save", "mark"} => id \in poll'.list)
  PROVE  OneBehind'
<1> SUFFICES ASSUME NEW id \in SessionIds \ earlier, Behind(id)'
             PROVE  /\ Behind(id) /\ row'[id].app = row[id].app
                    /\ mpc' \in Visiting => row[id].app \notin poll'.todo
  BY NobodyFallsBehind
<1>1. Behind(id) /\ row'[id].app = row[id].app
  BY DEF Behind, Saved
<1>2. QED BY <1>1 DEF OneBehind

\* A session that is behind is not one of the app being visited, so nothing that is
\* done to that app's entry in active_sessions closes it.
LEMMA OthersStayOpen ==
  ASSUME UsageAssumption, IInv, OneBehind, NEW a \in poll.todo, NEW x,
         mpc \in Visiting, active' = [active EXCEPT ![a] = x],
         NEW id \in SessionIds \ earlier, Behind(id), spc = "up"
  PROVE  Open(id)'
<1>1. row[id].app # a /\ Open(id)
  BY DEF OneBehind
<1>2. PICK b \in Apps : active[b] = id
  BY <1>1 DEF Open
<1>3. b # a
  BY <1>1, <1>2 DEF IInv, HandsOK, UsageAssumption
<1>4. active'[b] = id
  BY <1>2, <1>3 DEF IInv, TypeOK
<1>5. QED BY <1>2, <1>4 DEF Open

\* A new row is not behind, and nothing else has changed.
LEMMA BehindNewRow ==
  ASSUME UsageAssumption, IInv, OneBehind, EarlierIsLeft, HandsFilled,
         NEW a \in Apps, NEW s \in Unused,
         row' = [row EXCEPT ![s] = NewRow(a, poll.date)],
         UNCHANGED <<sess, active, spc, stop, earlier>>,
         mpc \in Visiting, poll'.todo \subseteq poll.todo, mpc' \in {"record", "install"}
  PROVE  OneBehind'
<1> USE DEF IInv
<1>1. s \in SessionIds /\ row[s].app = NoApp
  BY DEF Unused
<1>2. sess[s].counted = 0 /\ sess[s].written = 0
  BY <1>1, NewSessionIs DEF BlankUntilRecorded
<1>3. /\ \A id \in SessionIds \ {s} : row'[id] = row[id]
      /\ row'[s].dur = 0
  BY <1>1, NewRowIs, Parts DEF TypeOK
<1>4. ~(spc = "write" /\ stop.sid = s)
  BY <1>1 DEF HandsFilled
<1>5. ~Behind(s)'
  BY <1>2, <1>3, <1>4 DEF Behind, Saved
<1>6. \A id \in SessionIds \ earlier : Behind(id) /\ spc = "up" => Open(id)'
  BY DEF OneBehind, Open
<1>7. QED BY <1>1, <1>3, <1>5, <1>6, BehindWrite

\* A session in hand is given its dict: it had earned nothing before either.
LEMMA BehindNewDict ==
  ASSUME UsageAssumption, IInv, OneBehind, NEW s \in SessionIds,
         (mpc = "record" /\ s = poll.sid) \/ (mpc = "install" /\ s = poll.new),
         sess'[s].counted = 0 /\ sess'[s].written = 0,
         \A id \in SessionIds \ {s} : sess'[id] = sess[id],
         active' = [active EXCEPT ![row[poll.sid].app] = s],
         UNCHANGED <<row, spc, stop, earlier>>,
         poll'.todo \subseteq poll.todo, mpc' \in {"visit", "reget"}
  PROVE  OneBehind'
<1> USE DEF IInv
<1>1. sess[s].counted = 0 /\ sess[s].written = 0
  BY NewSessionIs DEF BlankUntilRecorded
<1>2. Behind(s)' => Behind(s)
  BY <1>1 DEF Behind, Saved
<1>3. row[poll.sid].app \in poll.todo
  BY DEF HandsOK
<1>4. \A id \in SessionIds \ earlier : Behind(id) /\ spc = "up" => Open(id)'
  BY <1>3, OthersStayOpen
<1>5. QED BY <1>2, <1>4, BehindWrite

LEMMA BehindMonitor ==
  ASSUME UsageAssumption, IInv, OneBehind, EarlierIsLeft, HandsFilled, ~DiskFaults,
         UNCHANGED earlier, Monitor
  PROVE  OneBehind' \/ Accrue
<1> USE DEF IInv
<1>1. CASE BeginPoll
  <2>1. \A id \in SessionIds : Behind(id)' => Behind(id)
    BY <1>1 DEF BeginPoll, Behind, Saved
  <2>2. \A id \in SessionIds \ earlier : ~Behind(id)
    BY <1>1 DEF BeginPoll, Stopping, OneBehind
  <2>3. QED BY <2>1, <2>2 DEF OneBehind
<1>2. CASE ExitLoop
  BY <1>2, BehindQuiet DEF ExitLoop, Stopping
<1>3. ASSUME NEW a \in Apps, SkipApp(a) PROVE OneBehind'
  <2>1. poll'.todo \subseteq poll.todo
    BY <1>3, VisitedIs, Parts DEF SkipApp
  <2>2. QED BY <1>3, <2>1, BehindQuiet DEF SkipApp
<1>4. ASSUME NEW a \in Apps, SeeStopped(a) \/ TakeSession(a) PROVE OneBehind'
  <2>1. poll'.todo = poll.todo
    BY <1>4, Parts DEF SeeStopped, TakeSession, PollLocals
  <2>2. /\ mpc = "visit" /\ mpc' \in {"pop", "split", "credit"}
        /\ UNCHANGED <<row, sess, active, spc, stop>>
    BY <1>4 DEF SeeStopped, TakeSession
  <2>3. QED BY <2>1, <2>2, BehindQuiet
<1>5. ASSUME NEW a \in Apps, StartRow(a) PROVE OneBehind'
  <2>1. CASE poll' = Visited(poll, a) /\ UNCHANGED <<row, mpc>>
    <3>1. poll'.todo \subseteq poll.todo
      BY <2>1, VisitedIs, Parts
    <3>2. QED BY <1>5, <2>1, <3>1, BehindQuiet DEF StartRow
  <2>2. ASSUME NEW s \in Unused, row' = [row EXCEPT ![s] = NewRow(a, poll.date)],
               poll' = [poll EXCEPT !.sid = s], mpc' = "record"
        PROVE  OneBehind'
    <3>1. poll'.todo = poll.todo
      BY <2>2, Parts DEF PollLocals
    <3>2. QED BY <1>5, <2>2, <3>1, BehindNewRow DEF StartRow
  <2>3. QED BY <1>5, <2>1, <2>2 DEF StartRow
<1>6. CASE RecordSession
  <2>1. PICK s \in SessionIds :
          s = poll.sid /\ poll'.todo \subseteq poll.todo
    BY <1>6, VisitedIs, Parts DEF RecordSession, HandsOK
  <2>2. /\ sess'[s].counted = 0 /\ sess'[s].written = 0
        /\ \A id \in SessionIds \ {s} : sess'[id] = sess[id]
    BY <1>6, <2>1, NewSessionIs, Parts DEF RecordSession, TypeOK
  <2>3. /\ mpc = "record" /\ active' = [active EXCEPT ![row[poll.sid].app] = s]
        /\ mpc' = "visit" /\ UNCHANGED <<row, spc, stop>>
    BY <1>6, <2>1 DEF RecordSession
  <2>4. row[poll.sid].app \in poll.todo
    BY <2>3 DEF HandsOK
  <2>5. \A id \in SessionIds \ earlier : Behind(id) /\ spc = "up" => Open(id)'
    BY <2>3, <2>4, OthersStayOpen
  <2>6. Behind(s)' => Behind(s)
    <3>1. sess[s].counted = 0 /\ sess[s].written = 0
      BY <2>1, <2>3, NewSessionIs DEF BlankUntilRecorded
    <3>2. QED BY <2>2, <2>3, <3>1 DEF Behind, Saved
  <2>7. QED BY <2>1, <2>2, <2>3, <2>5, <2>6, BehindWrite
<1>7. CASE PopSession
  <2> DEFINE a == row[poll.sid].app
  <2>1. CASE mpc' = "wait"
    <3>1. spc # "up"
      BY <1>7, <2>1, Parts DEF PopSession, HandsOK, UsageAssumption
    <3>2. QED BY <1>7, <2>1, <3>1, BehindQuiet DEF PopSession
  <2>2. CASE mpc' = "end"
    <3>1. /\ mpc = "pop" /\ active' = [active EXCEPT ![a] = NoSession]
          /\ UNCHANGED <<row, sess, poll, spc, stop>>
      BY <1>7, <2>2 DEF PopSession
    <3>2. a \in poll.todo /\ poll.sid \in SessionIds
      BY <3>1 DEF HandsOK
    <3>3. \A id \in SessionIds \ earlier : Behind(id) /\ spc = "up" => Open(id)'
      BY <3>1, <3>2, OthersStayOpen
    <3>4. Behind(poll.sid)' => Behind(poll.sid)
      BY <3>1 DEF Behind, Saved
    <3>5. QED BY <2>2, <3>1, <3>2, <3>3, <3>4, BehindWrite
  <2>3. QED BY <1>7, <2>1, <2>2 DEF PopSession
<1>8. CASE EndSession \/ SplitEnd
  <2>1. PICK s \in SessionIds : s = poll.sid /\ mpc \in {"end", "split"}
    BY <1>8 DEF EndSession, SplitEnd, HandsOK
  <2>2. /\ UNCHANGED <<sess, active, spc, stop>>
        /\ mpc' \in {"visit", "splitStart", "credit"}
    BY <1>8 DEF EndSession, SplitEnd
  <2>3. poll'.todo \subseteq poll.todo
    BY <1>8, VisitedIs, Parts DEF EndSession, SplitEnd
  <2>4. EndRow(s, sess[s].counted) \/ UNCHANGED row
    BY <1>8, <2>1 DEF EndSession, SplitEnd
  <2>5. /\ row'[s].app = row[s].app
        /\ \A id \in SessionIds \ {s} : row'[id] = row[id]
        /\ row'[s].dur \in {row[s].dur, sess[s].counted}
    BY <2>1, <2>4, RowKept
  <2>6. Behind(s)' => Behind(s)
    BY <2>2, <2>5 DEF Behind, Saved
  <2>7. \A id \in SessionIds \ earlier : Behind(id) /\ spc = "up" => Open(id)'
    BY <2>2 DEF OneBehind, Open
  <2>8. QED BY <2>1, <2>2, <2>3, <2>5, <2>6, <2>7, BehindWrite
<1>9. CASE SplitStart
  <2>1. CASE mpc' = "credit" /\ UNCHANGED <<row, poll>>
    BY <1>9, <2>1, BehindQuiet DEF SplitStart
  <2>2. ASSUME NEW s \in Unused,
               row' = [row EXCEPT ![s] = NewRow(row[poll.sid].app, poll.date)],
               poll' = [poll EXCEPT !.new = s], mpc' = "install"
        PROVE  OneBehind'
    <3>1. poll'.todo = poll.todo
      BY <2>2, Parts DEF PollLocals
    <3>2. row[poll.sid].app \in Apps
      BY <1>9, Parts DEF SplitStart, HandsOK
    <3>3. QED BY <1>9, <2>2, <3>1, <3>2, BehindNewRow DEF SplitStart
  <2>3. QED BY <1>9, <2>1, <2>2 DEF SplitStart
<1>10. CASE SplitInstall
  <2>1. PICK s \in SessionIds : s = poll.new /\ mpc = "install" /\ poll.sid \in SessionIds
    BY <1>10 DEF SplitInstall, HandsOK
  <2>2. /\ sess'[s].counted = 0 /\ sess'[s].written = 0
        /\ \A id \in SessionIds \ {s} : sess'[id] = sess[id]
    BY <1>10, <2>1, NewSessionIs, Parts DEF SplitInstall, Continue, TypeOK
  <2>3. QED BY <1>10, <2>1, <2>2, BehindNewDict DEF SplitInstall
<1>11. CASE Reget
  <2>1. poll'.todo \subseteq poll.todo
    <3>1. CASE mpc' = "credit"
      BY <1>11, <3>1, Parts DEF Reget, PollLocals
    <3>2. CASE mpc' = "visit"
      BY <1>11, <3>2, VisitedIs, Parts DEF Reget
    <3>3. QED BY <1>11, <3>1, <3>2 DEF Reget
  <2>2. QED BY <1>11, <2>1, BehindQuiet DEF Reget
<1>12. CASE BeginSave
  <2>1. /\ UNCHANGED <<row, sess, active, spc, stop>> /\ mpc' = "save"
        /\ poll'.list = ActiveIds
    BY <1>12, Parts DEF BeginSave, PollLocals
  <2>2. \A id \in SessionIds : Behind(id)' => Behind(id)
    BY <2>1 DEF Behind, Saved
  <2>3. ASSUME NEW id \in SessionIds \ earlier, Behind(id), spc = "up"
        PROVE  Open(id)' /\ id \in ActiveIds
    BY <2>1, <2>3 DEF OneBehind, Open, ActiveIds, UsageAssumption
  <2>4. QED BY <2>1, <2>2, <2>3, NobodyFallsBehind
<1>13. ASSUME NEW s \in SessionIds, SaveRow(s) PROVE OneBehind'
  <2>1. mpc = "save" /\ UNCHANGED <<sess, active, spc, stop>>
    BY <1>13 DEF SaveRow
  <2>2. CASE DbFails /\ UNCHANGED <<row, mpc>>
    <3>1. spc = "closed"
      BY <2>2 DEF DbFails, HandsOK
    <3>2. QED BY <2>1, <2>2, <3>1, BehindQuiet
  <2>3. CASE /\ row' = [row EXCEPT ![s].dur = sess[s].counted]
             /\ poll' = [poll EXCEPT !.sid = s] /\ mpc' = "mark"
    <3> DEFINE r == [row[s] EXCEPT !.dur = sess[s].counted]
    <3>1. r.dur = sess[s].counted /\ r.app = row[s].app /\ row' = [row EXCEPT ![s] = r]
      BY <2>3, Parts DEF Row
    <3> HIDE DEF r
    <3>2. /\ row'[s].dur = sess[s].counted /\ row'[s].app = row[s].app
          /\ \A id \in SessionIds \ {s} : row'[id] = row[id]
      BY <3>1 DEF TypeOK
    <3>3. poll'.list = poll.list
      BY <2>3, Parts DEF PollLocals
    <3>4. Behind(s)' => Behind(s)
      BY <2>1, <3>2 DEF Behind, Saved
    <3>5. \A id \in SessionIds \ earlier :
            Behind(id) /\ spc = "up" => Open(id)' /\ id \in poll'.list
      BY <2>1, <3>3 DEF OneBehind, Open
    <3>6. QED BY <2>1, <2>3, <3>2, <3>4, <3>5, BehindWrite
  <2>4. QED BY <1>13, <2>2, <2>3 DEF SaveRow
<1>14. CASE MarkWritten
  <2>1. PICK s \in SessionIds : s = poll.sid /\ mpc = "mark" /\ mpc' = "save"
    BY <1>14 DEF MarkWritten, HandsOK
  <2> DEFINE n == [sess[s] EXCEPT !.written = sess[s].counted]
  <2>2. n.counted = sess[s].counted /\ n.written = sess[s].counted
    BY <2>1, Parts DEF Session
  <2>3. sess' = [sess EXCEPT ![s] = n]
    BY <1>14, <2>1 DEF MarkWritten
  <2> HIDE DEF n
  <2>4. /\ sess'[s].counted = sess[s].counted /\ sess'[s].written = sess[s].counted
        /\ \A id \in SessionIds \ {s} : sess'[id] = sess[id]
    BY <2>1, <2>2, <2>3 DEF TypeOK
  <2>5. /\ UNCHANGED <<row, active, spc, stop>> /\ poll'.list = poll.list \ {s}
    BY <1>14, <2>1, Parts DEF MarkWritten, PollLocals
  <2>6. Behind(s)' => Behind(s)
    BY <2>4, <2>5 DEF Behind, Saved
  <2>7. spc = "up" => ~Behind(s)'
    BY <2>1, <2>4, <2>5 DEF Behind, Saved, SavedUntilCredited, SavedWhenDue
  <2>8. \A id \in SessionIds \ earlier :
          Behind(id) /\ spc = "up" => Open(id)' /\ id \in poll.list
    BY <2>1, <2>5 DEF OneBehind, Open
  <2>9. QED BY <2>1, <2>4, <2>5, <2>6, <2>7, <2>8, BehindWrite
<1>15. CASE EndPoll
  <2>1. \A id \in SessionIds : Behind(id)' => Behind(id)
    BY <1>15 DEF EndPoll, Behind, Saved
  <2>2. \A id \in SessionIds \ earlier : Behind(id) => spc # "up"
    BY <1>15 DEF EndPoll, OneBehind
  <2>3. QED BY <1>15, <2>1, <2>2, NobodyFallsBehind DEF EndPoll
<1>16. QED
  BY <1>1, <1>2, <1>3, <1>4, <1>5, <1>6, <1>7, <1>8, <1>9, <1>10, <1>11, <1>12, <1>13, <1>14,
     <1>15 DEF Monitor

\* The poll credits a session that was not behind, and no other of the app's is.
LEMMA BehindAccrue ==
  ASSUME UsageAssumption, IInv, OneBehind, EarlierIsLeft, HandsFilled,
         UNCHANGED earlier, Accrue
  PROVE  OneBehind'
<1> USE DEF IInv
<1>1. PICK s \in SessionIds \ earlier, a \in Apps :
        s = poll.sid /\ a = row[s].app /\ a \in poll.todo /\ mpc = "credit"
  BY Parts DEF Accrue, HandsOK, EarlierIsLeft
<1>2. /\ \A id \in SessionIds \ {s} : sess'[id] = sess[id]
      /\ mpc' = "visit" /\ UNCHANGED <<row, active, spc, stop>>
  BY <1>1 DEF Accrue, TypeOK
<1>3. poll'.todo = poll.todo \ {a}
  BY <1>1, VisitedIs, Parts DEF Accrue
<1>4. ASSUME NEW id \in SessionIds \ earlier, Behind(id)', id # s
      PROVE  Behind(id) /\ row[id].app \notin poll.todo
  BY <1>1, <1>2, <1>4 DEF Behind, Saved, OneBehind
<1>5. spc = "up" => Open(s)'
  BY <1>1, <1>2 DEF HandsFilled, Open
<1>6. ASSUME NEW id \in SessionIds \ earlier, Behind(id)'
      PROVE  /\ row'[id].app \notin poll'.todo
             /\ \A j \in SessionIds \ earlier :
                  Behind(j)' /\ row'[j].app = row'[id].app => j = id
             /\ spc' = "up" => Open(id)'
  <2>1. CASE id = s
    BY <1>1, <1>2, <1>3, <1>4, <1>5, <2>1
  <2>2. CASE id # s
    <3>1. Behind(id) /\ row[id].app \notin poll.todo
      BY <1>4, <1>6, <2>2
    <3>2. \A j \in SessionIds \ earlier :
            Behind(j)' /\ row[j].app = row[id].app => Behind(j) /\ j # s
      BY <1>1, <1>4, <3>1
    <3>3. spc = "up" => Open(id)'
      BY <1>2, <3>1 DEF OneBehind, Open
    <3>4. QED BY <1>2, <1>3, <3>1, <3>2, <3>3 DEF OneBehind
  <2>3. QED BY <2>1, <2>2
<1>7. QED BY <1>2, <1>6 DEF OneBehind

LEMMA BehindMain ==
  ASSUME UsageAssumption, IInv, OneBehind, HandsFilled, UNCHANGED earlier, Main
  PROVE  OneBehind'
<1> USE DEF IInv
<1>1. CASE StopBegin \/ StopClear \/ CloseDatabase
  <2>1. /\ UNCHANGED <<row, sess, mpc, poll>> /\ spc' \in {"ending", "joining", "closed"}
    BY <1>1 DEF StopBegin, StopClear, CloseDatabase
  <2>2. QED BY <2>1, BehindQuiet
<1>2. ASSUME NEW s \in SessionIds, StopRead(s) PROVE OneBehind'
  <2>1. /\ UNCHANGED <<row, sess, mpc, poll>> /\ spc' = "write"
        /\ stop'.sid = s /\ stop'.val = sess[s].counted
    BY <1>2 DEF StopRead
  <2>2. \A id \in SessionIds : Behind(id)' => Behind(id)
    BY <2>1 DEF Behind, Saved
  <2>3. QED BY <2>1, <2>2, NobodyFallsBehind DEF OneBehind
<1>3. CASE StopWrite
  <2>1. PICK s \in SessionIds :
          /\ s = stop.sid /\ stop.val \in Nat /\ spc = "write" /\ spc' = "ending"
          /\ UNCHANGED <<sess, mpc, poll>>
    BY <1>3, Parts DEF StopWrite, HandsOK
  <2>2. /\ \A id \in SessionIds \ {s} : row'[id] = row[id]
        /\ row'[s].app = row[s].app
        /\ row'[s].dur \in {row[s].dur, stop.val}
    <3>1. CASE EndRow(s, stop.val)
      BY <2>1, <3>1, EndedIs, Parts DEF EndRow, TypeOK
    <3>2. CASE UNCHANGED row
      BY <3>2
    <3>3. QED BY <1>3, <2>1, <3>1, <3>2 DEF StopWrite
  <2>3. ASSUME NEW id \in SessionIds, Behind(id)'
        PROVE  Behind(id) /\ row'[id].app = row[id].app
    BY <2>1, <2>2, <2>3 DEF Behind, Saved
  <2>4. QED BY <2>1, <2>3, NobodyFallsBehind DEF OneBehind
<1>4. QED BY <1>1, <1>2, <1>3 DEF Main

-----------------------------------------------------------------------------
(* What the dicts have that written_sec lacks, and what a reader has in hand *)

LEMMA UnwrittenStep ==
  ASSUME UsageAssumption, IInv, OneBehind, EarlierIsLeft, UnwrittenIsRecent, Threads
  PROVE  UnwrittenIsRecent'
<1> USE DEF IInv
<1> DEFINE Done(s) == /\ \A id \in SessionIds \ {s} : sess'[id] = sess[id]
                      /\ sess'[s].counted <= sess'[s].written + Cap
<1>1. (\E s \in SessionIds : Done(s)) => UnwrittenIsRecent'
  BY DEF UnwrittenIsRecent
<1>2. CASE RecordSession
  <2>1. PICK s \in SessionIds : s = poll.sid
    BY <1>2 DEF RecordSession, HandsOK
  <2>2. sess'[s] = NewSession(now) /\ \A id \in SessionIds \ {s} : sess'[id] = sess[id]
    BY <1>2, <2>1 DEF RecordSession, TypeOK
  <2>3. QED BY <1>1, <2>2, NewSessionIs, Parts DEF UsageAssumption
<1>3. CASE SplitInstall
  <2>1. PICK s \in SessionIds : s = poll.new /\ poll.sid \in SessionIds
    BY <1>3 DEF SplitInstall, HandsOK
  <2>2. /\ sess'[s] = NewSession(sess[poll.sid].tick)
        /\ \A id \in SessionIds \ {s} : sess'[id] = sess[id]
    BY <1>3, <2>1 DEF SplitInstall, Continue, TypeOK
  <2>3. QED BY <1>1, <2>1, <2>2, NewSessionIs, Parts DEF UsageAssumption
<1>4. CASE Accrue
  <2>1. PICK s \in SessionIds \ earlier : s = poll.sid /\ row[s].app \in poll.todo
    BY <1>4, Parts DEF Accrue, HandsOK, EarlierIsLeft
  <2>2. sess[s].written = sess[s].counted
    BY <1>4, <2>1 DEF Accrue, OneBehind, Behind
  <2>3. PICK c \in CountedSeconds(now - sess[s].tick) : sess' = [sess EXCEPT ![s] = Earn(@, c)]
    BY <1>4, <2>1 DEF Accrue
  <2>4. c \in Nat /\ c <= Cap
    BY <2>1, Parts DEF CountedSeconds, UsageAssumption, OnlyLatestEarns
  <2> DEFINE e == Earn(sess[s], c)
  <2>5. e.counted = sess[s].counted + c /\ e.written = sess[s].written
    BY <2>1, <2>4, EarnIs, Parts
  <2>6. sess' = [sess EXCEPT ![s] = e]
    BY <2>3
  <2> HIDE DEF e
  <2>7. QED BY <1>1, <2>1, <2>2, <2>4, <2>5, <2>6, Parts DEF TypeOK, UsageAssumption
<1>5. CASE MarkWritten
  <2>1. PICK s \in SessionIds : s = poll.sid
    BY <1>5 DEF MarkWritten, HandsOK
  <2> DEFINE n == [sess[s] EXCEPT !.written = sess[s].counted]
  <2>2. n.counted = sess[s].counted /\ n.written = sess[s].counted
    BY <2>1, Parts DEF Session
  <2>3. sess' = [sess EXCEPT ![s] = n]
    BY <1>5, <2>1 DEF MarkWritten
  <2> HIDE DEF n
  <2>4. QED BY <1>1, <2>1, <2>2, <2>3, Parts DEF TypeOK, UsageAssumption
<1>6. CASE UNCHANGED sess
  BY <1>6 DEF UnwrittenIsRecent
<1>7. CASE Monitor
  <2>1. CASE BeginPoll \/ ExitLoop \/ BeginSave \/ EndPoll
    BY <1>6, <2>1, Zenon DEF BeginPoll, ExitLoop, BeginSave, EndPoll
  <2>2. CASE PopSession \/ EndSession \/ SplitEnd \/ Reget
    BY <1>6, <2>2 DEF PopSession, EndSession, SplitEnd, Reget
  <2>3. CASE \/ SplitStart
             \/ \E a \in Apps : SkipApp(a) \/ StartRow(a) \/ SeeStopped(a) \/ TakeSession(a)
             \/ \E id \in SessionIds : SaveRow(id)
    BY <1>6, <2>3 DEF SplitStart, SkipApp, StartRow, SeeStopped, TakeSession, SaveRow
  <2>4. QED BY <1>2, <1>3, <1>4, <1>5, <1>7, <2>1, <2>2, <2>3 DEF Monitor
<1>8. CASE Main
  BY <1>6, <1>8 DEF Main, StopBegin, StopRead, StopWrite, StopClear, CloseDatabase
<1>9. QED BY <1>7, <1>8 DEF Threads

\* No step of the two threads takes back what has been credited to an app on a day.
LEMMA CreditedGrows ==
  ASSUME UsageAssumption, ReadsAssumption, IInv, EarlierIsLeft, HandsFilled,
         earlier \subseteq SessionIds, UNCHANGED earlier, Threads,
         NEW CONSTANT a \in Apps, NEW CONSTANT d
  PROVE  /\ CreditedOn(a, d) \in Nat /\ CreditedOn(a, d)' \in Nat
         /\ CreditedOn(a, d) <= CreditedOn(a, d)'
<1> DEFINE f == [id \in SessionIds |-> Credited(id)]
           g == [id \in SessionIds |-> Credited(id)']
           P == RowsOf(a, d)
           S == RowsOf(a, d)'
<1> USE DEF IInv
<1>1. /\ \A id \in SessionIds :
           /\ sess[id].counted <= sess'[id].counted
           /\ row[id].app # NoApp =>
                row'[id].app = row[id].app /\ row'[id].date = row[id].date
      /\ \A id \in earlier : row'[id] = row[id]
  BY RowsStay
<1>2. P \in SUBSET S
  BY <1>1 DEF RowsOf, UsageAssumption
<1>3. S \subseteq SessionIds /\ IsFiniteSet(S)
  BY FS_Subset DEF RowsOf, ReadsAssumption
<1>4. TypeOK'
  BY NextStep DEF Next, Threads
<1>5. \A id \in SessionIds : Credited(id) \in Nat /\ Credited(id)' \in Nat
  <2>1. \A id \in SessionIds : row'[id].dur \in Nat /\ sess'[id].counted \in Nat
    BY <1>4 DEF TypeOK, Row, Session
  <2>2. QED BY <2>1, Parts DEF Credited
<1>6. \A id \in SessionIds : Credited(id) <= Credited(id)'
  BY <1>1, Parts DEF Credited
<1>7. \A id \in P : f[id] \in Nat /\ f[id] <= g[id]
  BY <1>2, <1>3, <1>5, <1>6
<1>8. \A id \in S : g[id] \in Nat
  BY <1>3, <1>5
<1>9. CreditedOn(a, d) = SumFunctionOnSet(f, P) /\ CreditedOn(a, d)' = SumFunctionOnSet(g, S)
  BY DEF CreditedOn
<1> HIDE DEF f, g, P, S
<1>10. SumFunctionOnSet(f, P) \in Nat /\ SumFunctionOnSet(g, S) \in Nat
  <2>1. IsFiniteSet(P) /\ P \in SUBSET P /\ S \in SUBSET S
    BY <1>2, <1>3, FS_Subset
  <2>2. QED BY <1>3, <1>7, <1>8, <2>1, SumIsNat
<1>11. QED BY <1>2, <1>3, <1>7, <1>8, <1>9, <1>10, SumGrows

LEMMA HalfReadStep ==
  ASSUME UsageAssumption, ReadsAssumption, IInv, ReaderOK, EarlierIsLeft, HandsFilled,
         HalfReadIsRecent, UNCHANGED rvars, Threads
  PROVE  HalfReadIsRecent'
<1> SUFFICES ASSUME rpc = "half" PROVE HalfReadIsRecent'
  BY DEF HalfReadIsRecent, rvars
<1>1. PICK a \in Apps, d \in Days, low \in Nat :
        reader.app = a /\ reader.day = d /\ reader.low = low
  BY DEF ReaderOK
<1>2. low <= CreditedOn(a, d)
  BY <1>1 DEF HalfReadIsRecent
<1>3. /\ CreditedOn(a, d) \in Nat /\ CreditedOn(a, d)' \in Nat
      /\ CreditedOn(a, d) <= CreditedOn(a, d)'
  BY CreditedGrows DEF ReaderOK, rvars
<1>4. low <= CreditedOn(a, d)'
  BY <1>2, <1>3
<1>5. CreditedOn(a, d)' = CreditedOn(reader.app, reader.day)'
  BY <1>1 DEF rvars
<1>6. QED BY <1>1, <1>4, <1>5 DEF HalfReadIsRecent, rvars

LEMMA SumsAreNat ==
  ASSUME ReadsAssumption, TypeOK, NEW a, NEW d
  PROVE  KeptOn(a, d) \in Nat /\ CreditedOn(a, d) \in Nat
<1> DEFINE f == [id \in SessionIds |-> row[id].dur]
           g == [id \in SessionIds |-> Credited(id)]
           S == RowsOf(a, d)
<1>1. S \in SUBSET SessionIds
  BY DEF RowsOf
<1>2. \A id \in SessionIds : f[id] \in Nat /\ g[id] \in Nat
  BY Parts DEF Credited
<1>3. KeptOn(a, d) = SumFunctionOnSet(f, S) /\ CreditedOn(a, d) = SumFunctionOnSet(g, S)
  BY DEF KeptOn, CreditedOn
<1> HIDE DEF f, g, S
<1>4. QED BY <1>1, <1>2, <1>3, SumIsNat DEF ReadsAssumption

\* What the database holds of an app's day lacks one interval's credit at most: one of
\* the app's sessions is behind, if any, and that by no more.
LEMMA StoredIsRecent ==
  ASSUME UsageAssumption, ReadsAssumption, IInv, OneBehind, earlier \subseteq SessionIds,
         ~DiskFaults, NEW a \in Apps, NEW d
  PROVE  /\ KeptOn(a, d) <= CreditedOn(a, d)
         /\ CreditedOn(a, d) <= KeptOn(a, d) + Cap
<1> DEFINE f == [id \in SessionIds |-> row[id].dur]
           g == [id \in SessionIds |-> Credited(id)]
           S == RowsOf(a, d)
<1> USE DEF IInv
<1>1. S \subseteq SessionIds /\ IsFiniteSet(S)
  BY FS_Subset DEF RowsOf, ReadsAssumption
<1>2. \A i \in S : f[i] \in Nat /\ g[i] \in Nat /\ f[i] <= g[i] /\ g[i] <= f[i] + Cap
  BY <1>1, Parts DEF Credited, RowTracksSession, UsageAssumption
<1>3. PICK x : \A i \in S : Behind(i) /\ i \notin earlier => i = x
  BY <1>1 DEF OneBehind, RowsOf
<1>4. \A i \in S : i # x => g[i] <= f[i]
  BY <1>1, <1>3, Parts DEF Credited, Behind, Saved
<1>5. KeptOn(a, d) = SumFunctionOnSet(f, S) /\ CreditedOn(a, d) = SumFunctionOnSet(g, S)
  BY DEF KeptOn, CreditedOn
<1>6. Cap \in Nat /\ S \in SUBSET S
  BY DEF UsageAssumption
<1> HIDE DEF f, g, S
<1>7. SumFunctionOnSet(f, S) <= SumFunctionOnSet(g, S)
  BY <1>1, <1>2, <1>6, SumGrows
<1>8. SumFunctionOnSet(g, S) <= SumFunctionOnSet(f, S) + Cap
  BY <1>1, <1>2, <1>4, <1>6, SumAhead
<1>9. QED BY <1>5, <1>7, <1>8

-----------------------------------------------------------------------------
(* The strengthened invariant *)

Recent == OneBehind /\ UnwrittenIsRecent /\ HalfReadIsRecent

LEMMA InitRInv == ASSUME UsageAssumption, InitR PROVE RInv
<1> USE DEF InitR
<1>1. ReaderOK
  BY DEF ReaderOK, NoRead, UsageAssumption
<1>2. EarlierIsLeft /\ HandsFilled
  BY DEF EarlierIsLeft, HandsFilled, Init, NoStop, NoPoll
<1>3. /\ \A id \in SessionIds : row[id].dur = 0 /\ sess[id].counted = 0 /\ sess[id].written = 0
      /\ spc = "up"
  BY DEF Init, NewRow, NewSession
<1>4. OneBehind /\ UnwrittenIsRecent
  BY <1>3 DEF OneBehind, Behind, Saved, UnwrittenIsRecent, UsageAssumption
<1>5. QED BY <1>1, <1>2, <1>4 DEF RInv, HalfReadIsRecent

LEMMA ThreadsRInv ==
  ASSUME UsageAssumption, ReadsAssumption, IInv, RInv, UNCHANGED rvars, Threads PROVE RInv'
<1> USE DEF RInv
<1>1. ReaderOK'
  BY DEF ReaderOK, rvars
<1>2. EarlierIsLeft' /\ HandsFilled'
  BY HandsStep DEF ReaderOK, rvars
<1>3. ASSUME ~DiskFaults PROVE Recent'
  <2>1. OneBehind'
    BY <1>3, BehindMonitor, BehindAccrue, BehindMain DEF Threads, rvars
  <2>2. UnwrittenIsRecent'
    BY <1>3, UnwrittenStep
  <2>3. HalfReadIsRecent'
    BY <1>3, HalfReadStep
  <2>4. QED BY <2>1, <2>2, <2>3 DEF Recent
<1>4. QED BY <1>1, <1>2, <1>3 DEF Recent

\* Time and the date move; a sum over rows of another day is another matter, and the
\* reader keeps the day it read.
LEMMA ClockRInv ==
  ASSUME RInv, UNCHANGED <<row, active, sess, mpc, poll, spc, stop, rpc, reader, earlier>>
  PROVE  RInv'
<1> USE DEF RInv
<1>1. ReaderOK' /\ EarlierIsLeft' /\ HandsFilled'
  BY DEF ReaderOK, EarlierIsLeft, HandsFilled, Open
<1>2. OneBehind => OneBehind'
  BY DEF OneBehind, Behind, Saved, Open
<1>3. UnwrittenIsRecent => UnwrittenIsRecent'
  BY DEF UnwrittenIsRecent
<1>4. HalfReadIsRecent => HalfReadIsRecent'
  BY DEF HalfReadIsRecent, CreditedOn, Credited, RowsOf
<1>5. QED BY <1>1, <1>2, <1>3, <1>4

LEMMA ReadRInv ==
  ASSUME UsageAssumption, ReadsAssumption, IInv, RInv, Read PROVE RInv'
<1> USE DEF RInv
<1>1. UNCHANGED <<row, active, sess, mpc, poll, spc, stop, today, earlier>>
  BY DEF Read, ReadDatabase, ReadSession, vars, env, store, mon, main
<1>2. EarlierIsLeft' /\ HandsFilled' /\ (OneBehind => OneBehind')
      /\ (UnwrittenIsRecent => UnwrittenIsRecent')
  BY <1>1 DEF EarlierIsLeft, HandsFilled, Open, OneBehind, Behind, Saved, UnwrittenIsRecent
<1>3. ASSUME NEW a \in Apps, ReadDatabase(a)
      PROVE  ReaderOK' /\ (~DiskFaults => HalfReadIsRecent')
  <2>1. /\ rpc' = "half" /\ UNCHANGED earlier
        /\ reader' = [app |-> a, day |-> today, stored |-> DbToday(a), low |-> CreditedToday(a)]
    BY <1>3 DEF ReadDatabase
  <2>2. today \in Days /\ DbToday(a) \in Nat /\ CreditedToday(a) \in Nat
    BY SumsAreNat DEF IInv, TypeOK, DbToday, CreditedToday
  <2>3. ReaderOK'
    BY <2>1, <2>2 DEF ReaderOK
  <2>4. ASSUME ~DiskFaults PROVE HalfReadIsRecent'
    <3>1. /\ DbToday(a) <= CreditedToday(a)
          /\ CreditedToday(a) <= DbToday(a) + Cap
      BY <2>4, StoredIsRecent DEF ReaderOK, DbToday, CreditedToday
    <3>2. CreditedOn(a, today)' = CreditedToday(a)
      BY <1>1 DEF CreditedToday, CreditedOn, Credited, RowsOf
    <3>3. CreditedOn(reader.app, reader.day)' = CreditedOn(a, today)'
      BY <1>1, <2>1
    <3>4. CreditedToday(a) <= CreditedToday(a)
      BY <2>2
    <3>5. QED BY <2>1, <3>1, <3>2, <3>3, <3>4 DEF HalfReadIsRecent
  <2>5. QED BY <2>3, <2>4
<1>4. ASSUME ReadSession PROVE ReaderOK' /\ HalfReadIsRecent'
  BY <1>4 DEF ReadSession, ReaderOK, NoRead, HalfReadIsRecent, UsageAssumption
<1>5. QED BY <1>2, <1>3, <1>4 DEF Read

\* After a restart everything that has a row is left over, and nothing else has earned.
LEMMA RelaunchRInv ==
  ASSUME UsageAssumption, IInv, RInv, RelaunchR PROVE RInv'
<1> USE DEF RInv
<1>1. /\ mpc' = "wait" /\ poll' = NoPoll(today) /\ spc' = "up" /\ stop' = NoStop
      /\ active' = [a \in Apps |-> NoSession] /\ UNCHANGED <<row, sess>>
      /\ rpc' = "idle" /\ reader' = NoRead
      /\ earlier' = {id \in SessionIds : row[id].app # NoApp}
  BY DEF RelaunchR, Relaunch, env
<1>2. ReaderOK'
  BY <1>1 DEF ReaderOK, NoRead, UsageAssumption
<1>3. EarlierIsLeft' /\ HandsFilled'
  BY <1>1 DEF EarlierIsLeft, HandsFilled, Open, NoPoll, NoStop, UsageAssumption
<1>4. ASSUME ~DiskFaults, NEW id \in SessionIds \ earlier' PROVE ~Behind(id)'
  <2>1. row[id].app = NoApp
    BY <1>1, <1>4
  <2>2. sess[id].counted = 0 /\ sess[id].written = 0
    BY <2>1, NewSessionIs DEF IInv, BlankUntilRecorded
  <2>3. row[id].dur = 0
    BY <1>4, <2>2, Parts DEF IInv, RowTracksSession
  <2>4. QED BY <1>1, <2>2, <2>3 DEF Behind, Saved
<1>5. UnwrittenIsRecent => UnwrittenIsRecent'
  BY <1>1 DEF UnwrittenIsRecent
<1>6. HalfReadIsRecent'
  BY <1>1 DEF HalfReadIsRecent
<1>7. QED BY <1>2, <1>3, <1>4, <1>5, <1>6 DEF OneBehind

-----------------------------------------------------------------------------
(* The theorems *)

LEMMA StepOfNext == ASSUME [NextR]_<<vars, rvars>> PROVE [Next]_vars
  BY DEF NextR, Read, ReadDatabase, ReadSession, RelaunchR, Next, World, rvars

LEMMA NextRInv ==
  ASSUME UsageAssumption, ReadsAssumption, IInv, RInv, [NextR]_<<vars, rvars>> PROVE RInv'
<1>1. CASE Read
  BY <1>1, ReadRInv
<1>2. CASE (Monitor \/ Main) /\ UNCHANGED rvars
  BY <1>2, ThreadsRInv DEF Threads
<1>3. CASE (Tick \/ ChangeDate) /\ UNCHANGED rvars
  BY <1>3, ClockRInv DEF Tick, ChangeDate, store, mon, main, rvars
<1>4. CASE RelaunchR
  BY <1>4, RelaunchRInv
<1>5. CASE UNCHANGED <<vars, rvars>>
  BY <1>5, ClockRInv DEF vars, store, mon, main, rvars
<1>6. QED BY <1>1, <1>2, <1>3, <1>4, <1>5 DEF NextR

\* Readers only look: with them the monitor still does what UsageSessions says it
\* does, so everything proved of it there holds here (_usage_today_sec changes
\* nothing, monitor.py:506-526).
THEOREM ReadersOnlyLook == SpecR => Spec
<1>1. InitR => Init
  BY DEF InitR
<1>2. [NextR]_<<vars, rvars>> => [Next]_vars
  BY StepOfNext
<1>3. QED BY <1>1, <1>2, PTL DEF SpecR, Spec

\* The strengthened invariant holds in every reachable state.
THEOREM ReadsInvariance == SpecR => [](IInv /\ RInv)
<1>1. InitR => RInv
  BY UsageAssumption, InitRInv
<1>2. IInv /\ RInv /\ [NextR]_<<vars, rvars>> => RInv'
  BY UsageAssumption, ReadsAssumption, NextRInv
<1>3. SpecR => []IInv
  BY ReadersOnlyLook, Invariance, PTL
<1>4. QED BY <1>1, <1>2, <1>3, PTL DEF SpecR

\* While the disk works, a total put together from the database and the running
\* session while a poll checkpoints that session is never more than one interval's
\* credit short of what had been credited when it was begun, nor more than that ahead
\* of what has been by the time it is returned (_usage_today_sec, monitor.py:506-526,
\* against the checkpoints of monitor.py:379-388 and stop()): for any number of apps,
\* sessions and days, and any length of interval.
THEOREM ReadsAreRecent ==
  ASSUME ~DiskFaults
  PROVE  SpecR => ReadWithinOneInterval
<1> DEFINE Bounded == ReadSession /\ today = reader.day =>
                        /\ reader.low <= Answer + Cap
                        /\ Answer <= CreditedToday(reader.app) + Cap
<1>1. IInv /\ RInv => Bounded
  <2> SUFFICES ASSUME IInv, RInv, ReadSession, today = reader.day PROVE Bounded
    OBVIOUS
  <2> DEFINE more == Uncheckpointed(active[reader.app])
  <2>1. /\ reader.app \in Apps /\ reader.stored \in Nat /\ reader.low \in Nat
        /\ reader.stored <= reader.low /\ reader.low <= reader.stored + Cap
        /\ reader.low <= CreditedToday(reader.app)
    BY DEF RInv, ReaderOK, ReadSession, HalfReadIsRecent, CreditedToday
  <2>2. CreditedToday(reader.app) \in Nat /\ Cap \in Nat
    BY UsageAssumption, ReadsAssumption, SumsAreNat DEF IInv, UsageAssumption, CreditedToday
  <2>3. more \in Nat /\ more <= Cap
    <3>1. CASE active[reader.app] = NoSession
      BY <2>2, <3>1 DEF Uncheckpointed
    <3>2. CASE active[reader.app] # NoSession
      <4>1. active[reader.app] \in SessionIds
        BY <2>1, <3>2 DEF IInv, TypeOK, MaybeSession
      <4>2. \A id \in SessionIds : sess[id].counted \in Nat /\ sess[id].written \in Nat
        BY DEF IInv, TypeOK, Session
      <4>3. QED BY <2>2, <4>1, <4>2 DEF RInv, UnwrittenIsRecent, Uncheckpointed
    <3>3. QED BY <3>1, <3>2
  <2>4. Answer = reader.stored + more
    BY DEF Answer
  <2> HIDE DEF more
  <2>5. QED BY <2>1, <2>2, <2>3, <2>4
<1>2. IInv /\ RInv => [Bounded]_<<vars, rvars>>
  BY <1>1
<1>3. QED BY <1>2, ReadsInvariance, PTL DEF ReadWithinOneInterval

-----------------------------------------------------------------------------
(* The ledger *)

\* Sums that agree term by term are the same.
LEMMA SumSame ==
  ASSUME NEW S, IsFiniteSet(S), NEW f, NEW g,
         \A i \in S : f[i] \in Nat /\ g[i] = f[i]
  PROVE  SumFunctionOnSet(f, S) = SumFunctionOnSet(g, S)
<1>1. \A i \in S : f[i] \in Nat /\ g[i] \in Nat /\ f[i] <= g[i] /\ g[i] <= f[i]
  OBVIOUS
<1>2. S \in SUBSET S
  OBVIOUS
<1>3. SumFunctionOnSet(f, S) <= SumFunctionOnSet(g, S)
  BY <1>1, <1>2, SumGrows
<1>4. SumFunctionOnSet(g, S) <= SumFunctionOnSet(f, S)
  BY <1>1, <1>2, SumGrows
<1>5. SumFunctionOnSet(f, S) \in Nat /\ SumFunctionOnSet(g, S) \in Nat
  BY <1>1, <1>2, SumIsNat
<1>6. QED BY <1>3, <1>4, <1>5

\* Of two sums that differ in one term, that term accounts for the difference.
LEMMA SumDiffersAt ==
  ASSUME NEW S, IsFiniteSet(S), NEW f, NEW g, NEW x \in S,
         \A i \in S : f[i] \in Nat /\ g[i] \in Nat,
         \A i \in S : i # x => g[i] = f[i]
  PROVE  /\ SumFunctionOnSet(f, S) \in Nat /\ SumFunctionOnSet(g, S) \in Nat
         /\ SumFunctionOnSet(g, S) + f[x] = SumFunctionOnSet(f, S) + g[x]
<1> DEFINE R == S \ {x}
<1>1. IsFiniteSet(R) /\ R \in SUBSET S /\ S \in SUBSET S
  BY FS_RemoveElement
<1>2. SumFunctionOnSet(f, R) = SumFunctionOnSet(g, R)
  BY <1>1, SumSame
<1>3. SumFunctionOnSet(f, R) \in Nat
  BY <1>1, SumIsNat
<1>4. /\ SumFunctionOnSet(f, S) = f[x] + SumFunctionOnSet(f, R)
      /\ SumFunctionOnSet(g, S) = g[x] + SumFunctionOnSet(g, R)
  BY <1>1, SumWithout
<1>5. f[x] \in Nat /\ g[x] \in Nat
  OBVIOUS
<1>6. QED BY <1>2, <1>3, <1>4, <1>5

\* A ledger in which one entry is changed.
LEMMA EntryChanges ==
  ASSUME NEW W, W = [b \in Apps |-> [e \in Days |-> W[b][e]]],
         NEW U, U = [b \in Apps |-> [e \in Days |-> U[b][e]]],
         NEW a \in Apps, NEW d \in Days, NEW v, W[a][d] = v,
         \A b \in Apps, e \in Days : b # a \/ e # d => W[b][e] = U[b][e]
  PROVE  W = [U EXCEPT ![a][d] = v]
<1> DEFINE X == [U EXCEPT ![a][d] = v]
<1>1. X = [b \in Apps |-> IF b = a THEN [U[a] EXCEPT ![d] = v] ELSE U[b]]
  OBVIOUS
<1>2. U[a] = [e \in Days |-> U[a][e]]
  OBVIOUS
<1>3. [U[a] EXCEPT ![d] = v] = [e \in Days |-> IF e = d THEN v ELSE U[a][e]]
  BY <1>2
<1>4. W[a] = [e \in Days |-> W[a][e]]
  OBVIOUS
<1>5. W[a] = [e \in Days |-> IF e = d THEN v ELSE U[a][e]]
  BY <1>4
<1>6. \A b \in Apps : b # a => W[b] = U[b]
  <2> SUFFICES ASSUME NEW b \in Apps, b # a PROVE W[b] = U[b]
    OBVIOUS
  <2>1. W[b] = [e \in Days |-> W[b][e]] /\ U[b] = [e \in Days |-> U[b][e]]
    OBVIOUS
  <2>2. \A e \in Days : W[b][e] = U[b][e]
    OBVIOUS
  <2>3. QED BY <2>1, <2>2
<1>7. W = [b \in Apps |-> IF b = a THEN W[a] ELSE U[b]]
  BY <1>6
<1>8. QED BY <1>1, <1>3, <1>5, <1>7

LEMMA EntriesAre ==
  /\ UsedSeconds = [b \in Apps |-> [e \in Days |-> UsedSeconds[b][e]]]
  /\ KeptSeconds = [b \in Apps |-> [e \in Days |-> KeptSeconds[b][e]]]
  /\ \A b \in Apps, e \in Days :
       UsedSeconds[b][e] = CreditedOn(b, e) /\ KeptSeconds[b][e] = KeptOn(b, e)
BY DEF UsedSeconds, KeptSeconds

LEMMA EntriesNext ==
  /\ UsedSeconds' = [b \in Apps |-> [e \in Days |-> UsedSeconds'[b][e]]]
  /\ KeptSeconds' = [b \in Apps |-> [e \in Days |-> KeptSeconds'[b][e]]]
  /\ \A b \in Apps, e \in Days :
       UsedSeconds'[b][e] = CreditedOn(b, e)' /\ KeptSeconds'[b][e] = KeptOn(b, e)'
BY DEF UsedSeconds, KeptSeconds

\* A term of zero adds nothing.
LEMMA SumWithZero ==
  ASSUME NEW S, IsFiniteSet(S), NEW f, NEW g, NEW x, x \notin S, g[x] = 0,
         \A i \in S : f[i] \in Nat /\ g[i] = f[i]
  PROVE  SumFunctionOnSet(f, S) = SumFunctionOnSet(g, S \cup {x})
<1> DEFINE T == S \cup {x}
<1>1. IsFiniteSet(T) /\ T \in SUBSET T /\ x \in T /\ T \ {x} = S
  BY FS_AddElement
<1>2. \A i \in T : g[i] \in Nat
  OBVIOUS
<1>3. SumFunctionOnSet(g, T) = g[x] + SumFunctionOnSet(g, T \ {x})
  BY <1>1, <1>2, SumWithout
<1>4. SumFunctionOnSet(f, S) = SumFunctionOnSet(g, S)
  BY SumSame
<1>5. SumFunctionOnSet(g, S) \in Nat
  <2>1. S \in SUBSET S
    OBVIOUS
  <2>2. QED BY <1>2, <2>1, SumIsNat
<1>6. QED BY <1>1, <1>3, <1>4, <1>5

\* Nothing is filed, credited or written: the ledger stays.
LEMMA LedgerStays ==
  ASSUME \A id \in SessionIds :
           /\ row'[id].app = row[id].app /\ row'[id].date = row[id].date
           /\ row'[id].dur = row[id].dur
           /\ Credited(id)' = Credited(id)
  PROVE  UNCHANGED Ledger!ledger
<1>1. ASSUME NEW b \in Apps, NEW e \in Days
      PROVE  CreditedOn(b, e)' = CreditedOn(b, e) /\ KeptOn(b, e)' = KeptOn(b, e)
  <2>1. RowsOf(b, e)' = RowsOf(b, e)
    BY DEF RowsOf
  <2>2. [id \in SessionIds |-> row'[id].dur] = [id \in SessionIds |-> row[id].dur]
    OBVIOUS
  <2>3. [id \in SessionIds |-> Credited(id)'] = [id \in SessionIds |-> Credited(id)]
    OBVIOUS
  <2>4. QED BY <2>1, <2>2, <2>3 DEF CreditedOn, KeptOn
<1>2. QED BY <1>1 DEF Ledger!ledger, UsedSeconds, KeptSeconds

\* A new row holds nothing and nothing was ever credited to it: the ledger stays.
LEMMA NewRowInLedger ==
  ASSUME UsageAssumption, ReadsAssumption, IInv, EarlierIsLeft,
         NEW s \in Unused, NEW CONSTANT a \in Apps, NEW CONSTANT d \in Days,
         row' = [row EXCEPT ![s] = NewRow(a, d)], UNCHANGED <<sess, earlier>>
  PROVE  UNCHANGED Ledger!ledger
<1> USE DEF IInv
<1>1. /\ s \in SessionIds /\ row[s].app = NoApp /\ s \notin earlier /\ sess[s].counted = 0
  BY NewSessionIs DEF Unused, EarlierIsLeft, BlankUntilRecorded, HandsOK, UsageAssumption
<1>2. /\ row'[s].app = a /\ row'[s].date = d /\ row'[s].dur = 0
      /\ \A id \in SessionIds \ {s} : row'[id] = row[id]
  BY <1>1, NewRowIs, Parts DEF TypeOK, NewRow
<1>3. Credited(s)' = 0 /\ \A id \in SessionIds \ {s} : Credited(id)' = Credited(id)
  BY <1>1, <1>2 DEF Credited
<1>4. \A id \in SessionIds : row[id].dur \in Nat /\ Credited(id) \in Nat
  BY Parts DEF Credited
<1>5. ASSUME NEW b \in Apps, NEW e \in Days
      PROVE  CreditedOn(b, e)' = CreditedOn(b, e) /\ KeptOn(b, e)' = KeptOn(b, e)
  <2> DEFINE S == RowsOf(b, e)
             T == RowsOf(b, e)'
             f == [id \in SessionIds |-> row[id].dur]
             f1 == [id \in SessionIds |-> row'[id].dur]
             g == [id \in SessionIds |-> Credited(id)]
             g1 == [id \in SessionIds |-> Credited(id)']
  <2>1. S \subseteq SessionIds /\ IsFiniteSet(S) /\ s \notin S
    BY <1>1, FS_Subset DEF RowsOf, ReadsAssumption, UsageAssumption
  <2>2. T = S \/ T = S \cup {s}
    BY <1>1, <1>2, <2>1 DEF RowsOf
  <2>3. \A i \in S : f[i] \in Nat /\ f1[i] = f[i] /\ g[i] \in Nat /\ g1[i] = g[i]
    BY <1>2, <1>3, <1>4, <2>1
  <2>4. f1[s] = 0 /\ g1[s] = 0
    BY <1>1, <1>2, <1>3
  <2>5. /\ CreditedOn(b, e) = SumFunctionOnSet(g, S) /\ CreditedOn(b, e)' = SumFunctionOnSet(g1, T)
        /\ KeptOn(b, e) = SumFunctionOnSet(f, S) /\ KeptOn(b, e)' = SumFunctionOnSet(f1, T)
    BY DEF CreditedOn, KeptOn
  <2> HIDE DEF S, T, f, f1, g, g1
  <2>6. CASE T = S
    BY <2>1, <2>3, <2>5, <2>6, SumSame
  <2>7. CASE T = S \cup {s}
    BY <2>1, <2>3, <2>4, <2>5, <2>7, SumWithZero
  <2>8. QED BY <2>2, <2>6, <2>7
<1>6. QED BY <1>5 DEF Ledger!ledger, UsedSeconds, KeptSeconds

\* If the rows of an app that this run writes have all that was credited, its entries
\* are settled.
LEMMA SavedIsSettled ==
  ASSUME ReadsAssumption, TypeOK, NEW a \in Apps, NEW D \in SUBSET Days,
         \A id \in SessionIds \ earlier :
           row[id].app = a /\ row[id].date \in D => Saved(id)
  PROVE  Ledger!Settled(a, D)
<1> SUFFICES ASSUME NEW d \in D PROVE KeptOn(a, d) = CreditedOn(a, d)
  BY EntriesAre DEF Ledger!Settled
<1> DEFINE S == RowsOf(a, d)
           f == [id \in SessionIds |-> row[id].dur]
           g == [id \in SessionIds |-> Credited(id)]
<1>1. S \subseteq SessionIds /\ IsFiniteSet(S)
  BY FS_Subset DEF RowsOf, ReadsAssumption
<1>2. \A i \in S : f[i] \in Nat /\ g[i] = f[i]
  BY <1>1, Parts DEF RowsOf, Credited, Saved
<1>3. KeptOn(a, d) = SumFunctionOnSet(f, S) /\ CreditedOn(a, d) = SumFunctionOnSet(g, S)
  BY DEF KeptOn, CreditedOn
<1> HIDE DEF f, g, S
<1>4. QED BY <1>1, <1>2, <1>3, SumSame

\* _accrue() credits an app all of whose rows are saved, and by one interval at most.
LEMMA AccrueInLedger ==
  ASSUME UsageAssumption, ReadsAssumption, IInv, RInv, ~DiskFaults,
         UNCHANGED earlier, Accrue
  PROVE  [Ledger!Next]_(Ledger!ledger)
<1> USE DEF IInv
<1>1. PICK s \in SessionIds \ earlier, a \in Apps, d \in Days :
        s = poll.sid /\ a = row[s].app /\ d = row[s].date /\ a \in poll.todo /\ mpc = "credit"
  <2>1. mpc = "credit" /\ poll.sid \in SessionIds /\ row[poll.sid].app \in poll.todo
    BY DEF Accrue, HandsOK, Holding, HoldsUncredited
  <2>2. poll.sid \notin earlier
    BY <2>1 DEF RInv, EarlierIsLeft, Holding, HoldsUncredited
  <2>3. row[poll.sid].app \in Apps /\ row[poll.sid].date \in Days
    BY <2>1, Parts DEF TypeOK, Row
  <2>4. QED BY <2>1, <2>2, <2>3
<1>2. PICK c \in CountedSeconds(now - sess[s].tick) : sess' = [sess EXCEPT ![s] = Earn(@, c)]
  BY <1>1 DEF Accrue
<1>3. c \in Nat /\ c <= Cap
  BY <1>1, Parts DEF CountedSeconds, UsageAssumption, OnlyLatestEarns
<1>4. /\ sess'[s].counted = sess[s].counted + c
      /\ \A id \in SessionIds \ {s} : sess'[id] = sess[id]
      /\ UNCHANGED row
  <2> DEFINE e == Earn(sess[s], c)
  <2>1. e.counted = sess[s].counted + c /\ sess' = [sess EXCEPT ![s] = e]
    BY <1>1, <1>2, <1>3, EarnIs, Parts
  <2> HIDE DEF e
  <2>2. UNCHANGED row
    BY DEF Accrue, store
  <2>3. QED BY <1>1, <2>1, <2>2 DEF TypeOK
<1>5. /\ Credited(s) = sess[s].counted /\ Credited(s)' = sess[s].counted + c
      /\ \A id \in SessionIds \ {s} : Credited(id)' = Credited(id)
      /\ \A id \in SessionIds : Credited(id) \in Nat /\ Credited(id)' \in Nat
  BY <1>1, <1>3, <1>4, Parts DEF Credited
<1>6. CASE c = 0
  <2>1. Credited(s)' = Credited(s)
    BY <1>1, <1>5, <1>6, Parts
  <2>2. QED BY <1>4, <1>5, <2>1, LedgerStays
<1>7. CASE c # 0
  <2>1. Ledger!Settled(a, Days)
    <3>1. \A id \in SessionIds \ earlier : row[id].app = a => Saved(id)
      BY <1>1 DEF RInv, OneBehind, Behind, Visiting, HoldsUncredited
    <3>2. Days \in SUBSET Days
      OBVIOUS
    <3>3. QED BY <3>1, <3>2, SavedIsSettled
  <2>2. ASSUME NEW b \in Apps, NEW e \in Days
        PROVE  /\ KeptOn(b, e)' = KeptOn(b, e)
               /\ b = a /\ e = d => CreditedOn(b, e)' = CreditedOn(b, e) + c
               /\ b # a \/ e # d => CreditedOn(b, e)' = CreditedOn(b, e)
    <3> DEFINE S == RowsOf(b, e)
               g == [id \in SessionIds |-> Credited(id)]
               g1 == [id \in SessionIds |-> Credited(id)']
    <3>1. S \subseteq SessionIds /\ IsFiniteSet(S) /\ (s \in S <=> b = a /\ e = d)
      BY <1>1, FS_Subset DEF RowsOf, ReadsAssumption
    <3>2. KeptOn(b, e)' = KeptOn(b, e) /\ RowsOf(b, e)' = S
      BY <1>4 DEF KeptOn, RowsOf
    <3>3. CreditedOn(b, e) = SumFunctionOnSet(g, S) /\ CreditedOn(b, e)' = SumFunctionOnSet(g1, S)
      BY <3>2 DEF CreditedOn
    <3>4. /\ \A i \in S : g[i] \in Nat /\ g1[i] \in Nat
          /\ \A i \in S : i # s => g1[i] = g[i]
          /\ g1[s] = g[s] + c /\ g[s] \in Nat
      BY <1>1, <1>5, <3>1
    <3> HIDE DEF S, g, g1
    <3>5. CASE s \in S
      <4>1. /\ SumFunctionOnSet(g, S) \in Nat /\ SumFunctionOnSet(g1, S) \in Nat
            /\ SumFunctionOnSet(g1, S) + g[s] = SumFunctionOnSet(g, S) + g1[s]
        BY <3>1, <3>4, <3>5, SumDiffersAt
      <4>2. SumFunctionOnSet(g1, S) = SumFunctionOnSet(g, S) + c
        BY <1>3, <3>4, <4>1
      <4>3. QED BY <3>1, <3>2, <3>3, <3>5, <4>2
    <3>6. CASE s \notin S
      <4>1. SumFunctionOnSet(g, S) = SumFunctionOnSet(g1, S)
        BY <3>1, <3>4, <3>6, SumSame
      <4>2. QED BY <3>1, <3>2, <3>3, <3>6, <4>1
    <3>7. QED BY <3>5, <3>6
  <2>3. UNCHANGED KeptSeconds
    BY <2>2 DEF KeptSeconds
  <2>4. UsedSeconds' = [UsedSeconds EXCEPT ![a][d] = UsedSeconds[a][d] + c]
    <3>1. UsedSeconds'[a][d] = UsedSeconds[a][d] + c
      BY <2>2, EntriesAre, EntriesNext
    <3>2. \A b \in Apps, e \in Days : b # a \/ e # d => UsedSeconds'[b][e] = UsedSeconds[b][e]
      BY <2>2, EntriesAre, EntriesNext
    <3>3. QED BY <3>1, <3>2, EntriesAre, EntriesNext, EntryChanges
  <2>5. c \in 1..Cap
    BY <1>3, <1>7 DEF UsageAssumption
  <2>6. Ledger!Use(a, d)
    BY <2>1, <2>3, <2>4, <2>5 DEF Ledger!Use
  <2>7. QED BY <2>6 DEF Ledger!Next
<1>8. QED BY <1>6, <1>7

\* One row is written: the ledger keeps an entry, or stays.
LEMMA WriteInLedger ==
  ASSUME UsageAssumption, ReadsAssumption, IInv, RInv, ~DiskFaults,
         UNCHANGED <<sess, earlier>>, NEW CONSTANT s \in SessionIds \ earlier,
         NEW CONSTANT v \in Nat,
         row[s].app \in Apps,
         row'[s].app = row[s].app, row'[s].date = row[s].date, row'[s].dur = v,
         \A id \in SessionIds \ {s} : row'[id] = row[id],
         v <= sess[s].counted, sess[s].counted <= v + Cap,
         v # row[s].dur => Behind(s)
  PROVE  [Ledger!Next]_(Ledger!ledger)
<1> USE DEF IInv
<1>1. \A id \in SessionIds : Credited(id)' = Credited(id) /\ Credited(id) \in Nat
  <2>1. \A id \in earlier : row'[id] = row[id]
    BY DEF RInv, ReaderOK
  <2>2. QED BY <2>1, Parts DEF Credited
<1>2. CASE v = row[s].dur
  BY <1>1, <1>2, LedgerStays
<1>3. CASE v # row[s].dur
  <2>1. PICK a \in Apps, d \in Days : a = row[s].app /\ d = row[s].date
    BY DEF TypeOK, Row
  <2>2. \A id \in SessionIds \ earlier : id # s /\ row[id].app = a => Saved(id)
    BY <1>3, <2>1 DEF RInv, OneBehind, Behind
  <2>3. Ledger!Settled(a, Days \ {d})
    <3>1. Days \ {d} \in SUBSET Days
      OBVIOUS
    <3>2. QED BY <2>1, <2>2, <3>1, SavedIsSettled
  <2>4. ASSUME NEW b \in Apps, NEW e \in Days
        PROVE  /\ CreditedOn(b, e)' = CreditedOn(b, e)
               /\ b # a \/ e # d => KeptOn(b, e)' = KeptOn(b, e)
    <3> DEFINE S == RowsOf(b, e)
               f == [id \in SessionIds |-> row[id].dur]
               f1 == [id \in SessionIds |-> row'[id].dur]
    <3>1. S \subseteq SessionIds /\ IsFiniteSet(S) /\ (s \in S <=> b = a /\ e = d)
          /\ RowsOf(b, e)' = S
      BY <2>1, FS_Subset DEF RowsOf, ReadsAssumption
    <3>2. [id \in SessionIds |-> Credited(id)'] = [id \in SessionIds |-> Credited(id)]
      BY <1>1
    <3>3. CreditedOn(b, e)' = CreditedOn(b, e)
      BY <3>1, <3>2 DEF CreditedOn
    <3>4. KeptOn(b, e) = SumFunctionOnSet(f, S) /\ KeptOn(b, e)' = SumFunctionOnSet(f1, S)
      BY <3>1 DEF KeptOn
    <3>5. \A i \in S : i # s => f[i] \in Nat /\ f1[i] = f[i]
      BY <3>1, Parts
    <3> HIDE DEF S, f, f1
    <3>6. QED BY <3>1, <3>3, <3>4, <3>5, SumSame
  <2>5. /\ KeptOn(a, d)' \in Nat /\ KeptOn(a, d)' <= CreditedOn(a, d)
        /\ CreditedOn(a, d) <= KeptOn(a, d)' + Cap
    <3> DEFINE S == RowsOf(a, d)
               f1 == [id \in SessionIds |-> row'[id].dur]
               g == [id \in SessionIds |-> Credited(id)]
    <3>1. S \subseteq SessionIds /\ IsFiniteSet(S) /\ s \in S /\ RowsOf(a, d)' = S
      BY <2>1, FS_Subset DEF RowsOf, ReadsAssumption
    <3>2. CreditedOn(a, d) = SumFunctionOnSet(g, S) /\ KeptOn(a, d)' = SumFunctionOnSet(f1, S)
      BY <3>1 DEF CreditedOn, KeptOn
    <3>3. \A i \in S : i # s => g[i] = f1[i]
      BY <2>1, <2>2, <3>1 DEF Credited, RowsOf, Saved
    <3>4. \A i \in S : f1[i] \in Nat /\ g[i] \in Nat
      BY <1>1, <3>1, Parts
    <3>5. f1[s] = v /\ g[s] = sess[s].counted /\ g[s] \in Nat
      BY <1>1, <3>1 DEF Credited
    <3> HIDE DEF S, f1, g
    <3>6. /\ SumFunctionOnSet(g, S) \in Nat /\ SumFunctionOnSet(f1, S) \in Nat
          /\ SumFunctionOnSet(f1, S) + g[s] = SumFunctionOnSet(g, S) + f1[s]
      BY <3>1, <3>3, <3>4, SumDiffersAt
    <3>7. QED BY <3>2, <3>5, <3>6 DEF UsageAssumption
  <2>6. UNCHANGED UsedSeconds
    BY <2>4 DEF UsedSeconds
  <2>7. KeptSeconds' = [KeptSeconds EXCEPT ![a][d] = KeptSeconds'[a][d]]
    <3>1. \A b \in Apps, e \in Days : b # a \/ e # d => KeptSeconds'[b][e] = KeptSeconds[b][e]
      BY <2>4, EntriesAre, EntriesNext
    <3>2. QED BY <3>1, EntriesAre, EntriesNext, EntryChanges
  <2>8. /\ KeptSeconds'[a][d] \in 0..UsedSeconds[a][d]
        /\ UsedSeconds[a][d] <= KeptSeconds'[a][d] + Cap
    <3>1. CreditedOn(a, d) \in Nat
      BY SumsAreNat
    <3>2. UsedSeconds[a][d] = CreditedOn(a, d) /\ KeptSeconds'[a][d] = KeptOn(a, d)'
      BY EntriesAre, EntriesNext
    <3>3. QED BY <2>5, <3>1, <3>2
  <2>9. Ledger!Keep(a, d)
    BY <2>3, <2>6, <2>7, <2>8 DEF Ledger!Keep
  <2>10. QED BY <2>9 DEF Ledger!Next
<1>4. QED BY <1>2, <1>3

\* db.end_session() or a checkpoint, with the newest figure or, in stop(), with one at
\* most an interval old.
LEMMA RowWritesInLedger ==
  ASSUME UsageAssumption, ReadsAssumption, IInv, RInv, ~DiskFaults, UNCHANGED earlier,
         \/ EndSession \/ SplitEnd \/ StopWrite
         \/ \E id \in SessionIds : SaveRow(id)
  PROVE  [Ledger!Next]_(Ledger!ledger)
<1> USE DEF IInv
<1>1. ASSUME NEW s \in SessionIds \ earlier, NEW v \in Nat, row[s].app \in Apps,
             \/ EndRow(s, v)
             \/ row' = [row EXCEPT ![s].dur = v],
             UNCHANGED sess,
             v <= sess[s].counted, sess[s].counted <= v + Cap,
             v # row[s].dur => Behind(s)
      PROVE  [Ledger!Next]_(Ledger!ledger)
  <2> DEFINE r == Ended(row[s], v)
             q == [row[s] EXCEPT !.dur = v]
  <2>1. /\ r.app = row[s].app /\ r.date = row[s].date /\ r.dur = v
        /\ q.app = row[s].app /\ q.date = row[s].date /\ q.dur = v
    BY <1>1, EndedIs, Parts DEF Row
  <2>2. row' = [row EXCEPT ![s] = r] \/ row' = [row EXCEPT ![s] = q]
    BY <1>1 DEF EndRow
  <2> HIDE DEF r, q
  <2>3. /\ row'[s].app = row[s].app /\ row'[s].date = row[s].date /\ row'[s].dur = v
        /\ \A id \in SessionIds \ {s} : row'[id] = row[id]
    BY <1>1, <2>1, <2>2 DEF TypeOK
  <2>4. QED BY <1>1, <2>3, WriteInLedger
<1>2. ASSUME NEW s \in SessionIds
      PROVE  /\ sess[s].counted \in Nat /\ sess[s].counted <= sess[s].counted
             /\ sess[s].counted <= sess[s].counted + Cap
             /\ sess[s].counted # row[s].dur => Behind(s)
  BY Parts DEF UsageAssumption, Behind, Saved
<1>3. ASSUME UNCHANGED <<row, sess>> PROVE [Ledger!Next]_(Ledger!ledger)
  BY <1>3, LedgerStays DEF Credited
<1>4. CASE EndSession \/ SplitEnd
  <2>1. PICK s \in SessionIds \ earlier : s = poll.sid /\ row[s].app \in Apps
    <3>1. mpc \in {"end", "split"}
      BY <1>4 DEF EndSession, SplitEnd
    <3>2. poll.sid \in SessionIds \ earlier /\ row[poll.sid].app \in poll.todo
      BY <3>1 DEF HandsOK, RInv, EarlierIsLeft, Holding, HoldsUncredited
    <3>3. QED BY <3>2, Parts
  <2>2. UNCHANGED sess /\ (EndRow(s, sess[s].counted) \/ UNCHANGED row)
    BY <1>4, <2>1 DEF EndSession, SplitEnd
  <2>3. QED BY <1>1, <1>2, <1>3, <2>1, <2>2
<1>5. ASSUME NEW s \in SessionIds, SaveRow(s) PROVE [Ledger!Next]_(Ledger!ledger)
  <2>1. s \notin earlier /\ row[s].app \in Apps
    BY <1>5 DEF SaveRow, HandsOK, RInv, EarlierIsLeft
  <2>2. UNCHANGED sess /\ (row' = [row EXCEPT ![s].dur = sess[s].counted] \/ UNCHANGED row)
    BY <1>5 DEF SaveRow
  <2>3. QED BY <1>1, <1>2, <1>3, <2>1, <2>2
<1>6. CASE StopWrite
  <2>1. PICK s \in SessionIds \ earlier, v \in Nat :
          s = stop.sid /\ v = stop.val /\ row[s].app \in Apps
    <3>1. spc = "write" /\ stop.sid \in SessionIds \ earlier
      BY <1>6 DEF StopWrite, HandsOK, RInv, EarlierIsLeft
    <3>2. row[stop.sid].app \in Apps
      BY <3>1, Parts DEF RInv, HandsFilled
    <3>3. QED BY <3>1, <3>2, Parts
  <2>2. v <= sess[s].counted /\ sess[s].counted <= v + Cap
    BY <1>6, <2>1 DEF StopWrite, SavedUntilCredited, StopWritesRecent
  <2>3. v # row[s].dur => Behind(s)
    BY <1>6, <2>1 DEF StopWrite, Behind, Saved
  <2>4. UNCHANGED sess /\ (EndRow(s, v) \/ UNCHANGED row)
    BY <1>6, <2>1 DEF StopWrite
  <2>5. QED BY <1>1, <1>3, <2>1, <2>2, <2>3, <2>4
<1>7. QED BY <1>4, <1>5, <1>6

\* A new dict takes over from one to which nothing was credited, and written_sec is
\* nobody's usage.
LEMMA DictsInLedger ==
  ASSUME UsageAssumption, IInv, UNCHANGED earlier, RecordSession \/ SplitInstall \/ MarkWritten
  PROVE  UNCHANGED Ledger!ledger
<1> USE DEF IInv
<1>1. UNCHANGED row
  BY DEF RecordSession, SplitInstall, MarkWritten, store
<1>2. \A id \in SessionIds : sess'[id].counted = sess[id].counted
  <2>1. CASE RecordSession
    <3>1. poll.sid \in SessionIds /\ sess[poll.sid].counted = 0
      BY <2>1, NewSessionIs DEF RecordSession, HandsOK, BlankUntilRecorded, Holding
    <3>2. QED BY <2>1, <3>1, NewSessionIs, Parts DEF RecordSession, TypeOK
  <2>2. CASE SplitInstall
    <3>1. poll.new \in SessionIds /\ sess[poll.new].counted = 0 /\ poll.sid \in SessionIds
      BY <2>2, NewSessionIs DEF SplitInstall, HandsOK, BlankUntilRecorded, Holding, HoldsUncredited
    <3>2. QED BY <2>2, <3>1, NewSessionIs, Parts DEF SplitInstall, Continue, TypeOK
  <2>3. CASE MarkWritten
    <3> DEFINE n == [sess[poll.sid] EXCEPT !.written = sess[poll.sid].counted]
    <3>1. poll.sid \in SessionIds
      BY <2>3 DEF MarkWritten, HandsOK, Holding
    <3>2. n.counted = sess[poll.sid].counted /\ sess' = [sess EXCEPT ![poll.sid] = n]
      BY <2>3, <3>1, Parts DEF Session, MarkWritten
    <3> HIDE DEF n
    <3>3. QED BY <3>1, <3>2 DEF TypeOK
  <2>4. QED BY <2>1, <2>2, <2>3
<1>3. QED BY <1>1, <1>2, LedgerStays DEF Credited

LEMMA ThreadsInLedger ==
  ASSUME UsageAssumption, ReadsAssumption, IInv, RInv, ~DiskFaults, UNCHANGED earlier, Threads
  PROVE  [Ledger!Next]_(Ledger!ledger)
<1>1. ASSUME UNCHANGED <<row, sess>> PROVE [Ledger!Next]_(Ledger!ledger)
  BY <1>1, LedgerStays DEF Credited
<1>2. ASSUME NEW a \in Apps, StartRow(a) PROVE [Ledger!Next]_(Ledger!ledger)
  BY <1>1, <1>2, NewRowInLedger, Parts DEF StartRow, RInv, IInv
<1>3. CASE SplitStart
  <2>1. PICK a \in Apps : a = row[poll.sid].app
    BY <1>3, Parts DEF SplitStart, IInv, HandsOK, Holding, HoldsUncredited
  <2>2. QED BY <1>1, <1>3, <2>1, NewRowInLedger, Parts DEF SplitStart, RInv, IInv
<1>4. CASE Monitor
  <2>1. CASE BeginPoll \/ ExitLoop \/ BeginSave \/ EndPoll
    BY <1>1, <2>1 DEF BeginPoll, ExitLoop, BeginSave, EndPoll, store
  <2>2. CASE PopSession \/ Reget
    BY <1>1, <2>2 DEF PopSession, Reget, store
  <2>3. ASSUME NEW a \in Apps, SkipApp(a) \/ SeeStopped(a) \/ TakeSession(a)
        PROVE  [Ledger!Next]_(Ledger!ledger)
    BY <1>1, <2>3 DEF SkipApp, SeeStopped, TakeSession, store
  <2>4. QED
    BY <1>2, <1>3, <1>4, <2>1, <2>2, <2>3, AccrueInLedger, RowWritesInLedger, DictsInLedger
       DEF Monitor
<1>5. CASE Main
  <2>1. ASSUME StopBegin \/ StopClear \/ CloseDatabase \/ \E id \in SessionIds : StopRead(id)
        PROVE  [Ledger!Next]_(Ledger!ledger)
    BY <1>1, <2>1 DEF StopBegin, StopClear, CloseDatabase, StopRead, store
  <2>2. QED BY <1>5, <2>1, RowWritesInLedger DEF Main
<1>6. QED BY <1>4, <1>5 DEF Threads

\* A restart finds what was kept.
LEMMA RelaunchInLedger ==
  ASSUME UsageAssumption, ReadsAssumption, IInv, RelaunchR
  PROVE  Ledger!Lose
<1>1. /\ UNCHANGED <<row, sess>>
      /\ earlier' = {id \in SessionIds : row[id].app # NoApp}
  BY DEF RelaunchR, Relaunch
<1>2. ASSUME NEW b \in Apps, NEW e \in Days
      PROVE  CreditedOn(b, e)' = KeptOn(b, e) /\ KeptOn(b, e)' = KeptOn(b, e)
  <2> DEFINE S == RowsOf(b, e)
             f == [id \in SessionIds |-> row[id].dur]
             g1 == [id \in SessionIds |-> Credited(id)']
  <2>1. S \subseteq SessionIds /\ IsFiniteSet(S) /\ RowsOf(b, e)' = S
    BY <1>1, FS_Subset DEF RowsOf, ReadsAssumption
  <2>2. \A i \in S : f[i] \in Nat /\ g1[i] = f[i]
    BY <1>1, <2>1, Parts DEF RowsOf, Credited, IInv, UsageAssumption
  <2>3. KeptOn(b, e) = SumFunctionOnSet(f, S) /\ CreditedOn(b, e)' = SumFunctionOnSet(g1, S)
    BY <2>1 DEF KeptOn, CreditedOn
  <2>4. KeptOn(b, e)' = KeptOn(b, e)
    BY <1>1, <2>1 DEF KeptOn
  <2> HIDE DEF S, f, g1
  <2>5. QED BY <2>1, <2>2, <2>3, <2>4, SumSame
<1>3. QED BY <1>2 DEF Ledger!Lose, UsedSeconds, KeptSeconds

LEMMA NextInLedger ==
  ASSUME UsageAssumption, ReadsAssumption, IInv, RInv, ~DiskFaults, [NextR]_<<vars, rvars>>
  PROVE  [Ledger!Next]_(Ledger!ledger)
<1>1. CASE UNCHANGED <<row, sess, earlier>>
  BY <1>1, LedgerStays DEF Credited
<1>2. CASE Read \/ UNCHANGED <<vars, rvars>>
  BY <1>1, <1>2 DEF Read, ReadDatabase, ReadSession, vars, store, rvars
<1>3. CASE (Tick \/ ChangeDate) /\ UNCHANGED rvars
  BY <1>1, <1>3 DEF Tick, ChangeDate, store, rvars
<1>4. CASE (Monitor \/ Main) /\ UNCHANGED rvars
  BY <1>4, ThreadsInLedger DEF Threads, rvars
<1>5. CASE RelaunchR
  BY <1>5, RelaunchInLedger DEF Ledger!Next
<1>6. QED BY <1>2, <1>3, <1>4, <1>5 DEF NextR

LEMMA InitInLedger == ASSUME UsageAssumption, ReadsAssumption, InitR PROVE Ledger!Init
<1>1. \A id \in SessionIds : row[id].app = NoApp
  BY DEF InitR, Init, NewRow
<1>2. ASSUME NEW b \in Apps, NEW e \in Days PROVE CreditedOn(b, e) = 0 /\ KeptOn(b, e) = 0
  <2>1. RowsOf(b, e) = {}
    BY <1>1 DEF RowsOf, UsageAssumption
  <2>2. QED BY <2>1, SumStep, FS_EmptySet DEF CreditedOn, KeptOn
<1>3. QED BY <1>2 DEF Ledger!Init, Ledger!Nothing, UsedSeconds, KeptSeconds

\* While the disk works, the threads, sessions, splits, checkpoints and restarts of the
\* accounting implement the ledger (monitor.py:118-132, 379-388 and 436-504): the
\* initial state maps to its initial state, every step to a step of it or a stutter.
\* Every second credited and every row written is covered, for any number of apps,
\* sessions and days, and any length of interval.
THEOREM AccountingKeepsLedger ==
  ASSUME ~DiskFaults
  PROVE  SpecR => KeepsLedger
<1>1. InitR => Ledger!Init
  BY UsageAssumption, ReadsAssumption, InitInLedger
<1>2. IInv /\ RInv /\ [NextR]_<<vars, rvars>> => [Ledger!Next]_(Ledger!ledger)
  BY UsageAssumption, ReadsAssumption, NextInLedger
<1>3. QED BY <1>1, <1>2, ReadsInvariance, PTL DEF SpecR, KeepsLedger, Ledger!Spec

-----------------------------------------------------------------------------
(* What the ledger promises *)

LedgerOK == /\ UsedSeconds \in [Apps -> [Days -> Nat]]
            /\ KeptSeconds \in [Apps -> [Days -> Nat]]
            /\ Ledger!CrashCostsOneInterval

LEMMA UseKeepsPromise ==
  ASSUME Cap \in Nat, LedgerOK, NEW CONSTANT a \in Apps, NEW CONSTANT d \in Days, Ledger!Use(a, d)
  PROVE  LedgerOK'
<1>1. PICK n \in 1..Cap : UsedSeconds' = [UsedSeconds EXCEPT ![a][d] = @ + n]
  BY DEF Ledger!Use
<1>2. n \in Nat /\ n <= Cap /\ UNCHANGED KeptSeconds
  BY DEF Ledger!Use
<1>3. UsedSeconds[a] \in [Days -> Nat]
  BY DEF LedgerOK
<1>4. UsedSeconds[a][d] + n \in Nat
  BY <1>2, <1>3
<1>5. /\ UsedSeconds' \in [Apps -> [Days -> Nat]]
      /\ UsedSeconds'[a][d] = UsedSeconds[a][d] + n
      /\ \A b \in Apps, e \in Days : b # a \/ e # d => UsedSeconds'[b][e] = UsedSeconds[b][e]
  BY <1>1, <1>3, <1>4 DEF LedgerOK
<1>6. \A e \in Days : KeptSeconds[a][e] = UsedSeconds[a][e]
  BY DEF Ledger!Use, Ledger!Settled
<1>7. Ledger!CrashCostsOneInterval'
  <2> SUFFICES ASSUME NEW b \in Apps, NEW e \in Days
               PROVE  /\ KeptSeconds[b][e] <= UsedSeconds'[b][e]
                      /\ UsedSeconds'[b][e] <= KeptSeconds[b][e] + Cap
                      /\ KeptSeconds[b][e] # UsedSeconds'[b][e] =>
                           \A c \in Days \ {e} : KeptSeconds[b][c] = UsedSeconds'[b][c]
    BY <1>2 DEF Ledger!CrashCostsOneInterval, Ledger!Settled
  <2>1. KeptSeconds[b][e] \in Nat /\ UsedSeconds[b][e] \in Nat
    BY DEF LedgerOK
  <2>2. CASE b = a
    BY <1>2, <1>5, <1>6, <2>1, <2>2
  <2>3. CASE b # a
    BY <1>5, <2>3 DEF LedgerOK, Ledger!CrashCostsOneInterval, Ledger!Settled
  <2>4. QED BY <2>2, <2>3
<1>8. QED BY <1>2, <1>5, <1>7 DEF LedgerOK

LEMMA KeepKeepsPromise ==
  ASSUME Cap \in Nat, LedgerOK, NEW CONSTANT a \in Apps, NEW CONSTANT d \in Days, Ledger!Keep(a, d)
  PROVE  LedgerOK'
<1>1. PICK n \in 0..UsedSeconds[a][d] :
        /\ UsedSeconds[a][d] <= n + Cap
        /\ KeptSeconds' = [KeptSeconds EXCEPT ![a][d] = n]
  BY DEF Ledger!Keep
<1>2. UsedSeconds[a][d] \in Nat
  BY DEF LedgerOK
<1>3. n \in Nat /\ n <= UsedSeconds[a][d] /\ UNCHANGED UsedSeconds
  BY <1>2 DEF Ledger!Keep
<1>4. /\ KeptSeconds' \in [Apps -> [Days -> Nat]]
      /\ KeptSeconds'[a][d] = n
      /\ \A b \in Apps, e \in Days : b # a \/ e # d => KeptSeconds'[b][e] = KeptSeconds[b][e]
  BY <1>1, <1>3 DEF LedgerOK
<1>5. \A e \in Days \ {d} : KeptSeconds[a][e] = UsedSeconds[a][e]
  BY DEF Ledger!Keep, Ledger!Settled
<1>6. Ledger!CrashCostsOneInterval'
  <2> SUFFICES ASSUME NEW b \in Apps, NEW e \in Days
               PROVE  /\ KeptSeconds'[b][e] <= UsedSeconds[b][e]
                      /\ UsedSeconds[b][e] <= KeptSeconds'[b][e] + Cap
                      /\ KeptSeconds'[b][e] # UsedSeconds[b][e] =>
                           \A c \in Days \ {e} : KeptSeconds'[b][c] = UsedSeconds[b][c]
    BY <1>3 DEF Ledger!CrashCostsOneInterval, Ledger!Settled
  <2>1. KeptSeconds[b][e] \in Nat /\ UsedSeconds[b][e] \in Nat
    BY DEF LedgerOK
  <2>2. CASE b = a /\ e = d
    BY <1>1, <1>3, <1>4, <1>5, <2>2
  <2>3. CASE b = a /\ e # d
    BY <1>4, <1>5, <2>1, <2>3
  <2>4. CASE b # a
    BY <1>4, <2>4 DEF LedgerOK, Ledger!CrashCostsOneInterval, Ledger!Settled
  <2>5. QED BY <2>2, <2>3, <2>4
<1>7. QED BY <1>3, <1>4, <1>6 DEF LedgerOK

LEMMA LedgerKeepsPromise ==
  ASSUME Cap \in Nat, LedgerOK, [Ledger!Next]_(Ledger!ledger) PROVE LedgerOK'
<1>1. CASE Ledger!Lose
  <2>1. UsedSeconds' = KeptSeconds /\ KeptSeconds' = KeptSeconds
    BY <1>1 DEF Ledger!Lose
  <2>2. \A b \in Apps, e \in Days : KeptSeconds[b][e] \in Nat
    BY DEF LedgerOK
  <2>3. QED BY <2>1, <2>2 DEF LedgerOK, Ledger!CrashCostsOneInterval, Ledger!Settled
<1>2. CASE UNCHANGED Ledger!ledger
  BY <1>2 DEF Ledger!ledger, LedgerOK, Ledger!CrashCostsOneInterval, Ledger!Settled
<1>3. QED BY <1>1, <1>2, UseKeepsPromise, KeepKeepsPromise DEF Ledger!Next

\* Whatever keeps the ledger loses at most one interval of each app's use to a crash,
\* and of one day only.
THEOREM LedgerBoundsLoss == KeepsLedger => []Ledger!CrashCostsOneInterval
<1>1. Ledger!Init => LedgerOK
  BY UsageAssumption DEF Ledger!Init, Ledger!Nothing, LedgerOK, UsageAssumption,
     Ledger!CrashCostsOneInterval, Ledger!Settled
<1>2. LedgerOK /\ [Ledger!Next]_(Ledger!ledger) => LedgerOK'
  BY UsageAssumption, LedgerKeepsPromise DEF UsageAssumption
<1>3. LedgerOK => Ledger!CrashCostsOneInterval
  BY DEF LedgerOK
<1>4. QED BY <1>1, <1>2, <1>3, PTL DEF KeepsLedger, Ledger!Spec

\* So does the accounting, at every moment in which the process may die ("so data
\* survives crashes", monitor.py:379-388).
THEOREM CrashesCostOneInterval ==
  ASSUME ~DiskFaults
  PROVE  SpecR => []Ledger!CrashCostsOneInterval
BY AccountingKeepsLedger, LedgerBoundsLoss, PTL

=============================================================================
