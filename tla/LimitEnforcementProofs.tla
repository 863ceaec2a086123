----------------------- MODULE LimitEnforcementProofs -----------------------
EXTENDS LimitEnforcement, TLAPS

USE DEF Threads, Levels, Places, world, daily

-----------------------------------------------------------------------------
(* What the record operators return *)

LEMMA PassIs ==
  ASSUME LimitAssumption, NEW d \in 0..LastDay, NEW todo \in SUBSET Apps, NEW seen \in SUBSET Apps
  PROVE  /\ Pass(d, todo, seen) \in Locals
         /\ Pass(d, todo, seen).date = d
  BY DEF Pass, Locals, LimitAssumption

LEMMA IdleIs ==
  ASSUME LimitAssumption
  PROVE  Idle \in Locals /\ Idle.date = 0
  BY PassIs DEF Idle, LimitAssumption

LEMMA NewPastIs ==
  ASSUME LimitAssumption, NEW b \in BOOLEAN
  PROVE  /\ NewPast(b) \in Past
         /\ NewPast(b).warnedOn = 0 /\ NewPast(b).noticedOn = 0
  BY DEF NewPast, Past, LimitAssumption

LEMMA WarnedIs ==
  ASSUME LimitAssumption, NEW p \in Past, today \in 0..LastDay
  PROVE  /\ Warned(p) \in Past /\ Warned(p).age = 0 /\ Warned(p).warnedOn = today
         /\ Warned(p).noticedOn = p.noticedOn
<1> DEFINE q == [p EXCEPT !.age = 0]
<1>1. q \in Past /\ q.age = 0 /\ q.noticedOn = p.noticedOn
  BY DEF Past, LimitAssumption
<1>2. Warned(p) = [q EXCEPT !.warnedOn = today]
  BY DEF Warned, Past
<1> HIDE DEF q
<1>3. QED BY <1>1, <1>2 DEF Past

LEMMA NoticedIs ==
  ASSUME NEW p \in Past, today \in 0..LastDay
  PROVE  /\ Noticed(p) \in Past /\ Noticed(p).age = p.age
         /\ Noticed(p).warnedOn = p.warnedOn /\ Noticed(p).noticedOn = today
  BY DEF Noticed, Past

LEMMA ForgottenIs ==
  ASSUME LimitAssumption, NEW p \in Past
  PROVE  /\ Forgotten(p) \in Past
         /\ Forgotten(p).warnedOn = 0 /\ Forgotten(p).noticedOn = 0
<1> DEFINE q == [p EXCEPT !.warnedOn = 0]
<1>1. q \in Past /\ q.warnedOn = 0
  BY DEF Past, LimitAssumption
<1>2. Forgotten(p) = [q EXCEPT !.noticedOn = 0]
  BY DEF Forgotten, Past
<1> HIDE DEF q
<1>3. QED BY <1>1, <1>2 DEF Past, LimitAssumption

\* Two histories that differ in nothing the dates are about.
SameDates(p, q) == p.warnedOn = q.warnedOn /\ p.noticedOn = q.noticedOn

LEMMA OlderIs ==
  ASSUME LimitAssumption, NEW p \in Past
  PROVE  /\ Older(p) \in Past /\ SameDates(Older(p), p)
         /\ p.age = NoDeadline => Older(p).age = NoDeadline
         /\ p.age # NoDeadline =>
              /\ Older(p).age \in 0..Grace
              /\ Older(p).age = Grace \/ Older(p).age = p.age + 1
<1> DEFINE n == IF p.age = NoDeadline THEN p.age
                ELSE IF p.age < Grace THEN p.age + 1 ELSE Grace
<1>1. p.age \in {NoDeadline} \cup 0..Grace /\ Grace \in Nat \ {0} /\ NoDeadline \notin Nat
  BY DEF Past, LimitAssumption
<1>2. /\ n \in {NoDeadline} \cup 0..Grace
      /\ p.age = NoDeadline => n = NoDeadline
      /\ p.age # NoDeadline => n \in 0..Grace /\ (n = Grace \/ n = p.age + 1)
  BY <1>1
<1>3. Older(p) = [p EXCEPT !.age = n] BY DEF Older, Past
<1> HIDE DEF n
<1>4. QED BY <1>2, <1>3 DEF Past, SameDates

LEMMA LongAgoIs ==
  ASSUME LimitAssumption, NEW p \in Past
  PROVE  /\ LongAgo(p) \in Past /\ SameDates(LongAgo(p), p)
         /\ p.age # NoDeadline => LongAgo(p).age = Grace
<1> DEFINE n == IF p.age = NoDeadline THEN p.age ELSE Grace
<1>1. n \in {NoDeadline} \cup 0..Grace /\ (p.age # NoDeadline => n = Grace)
  BY DEF Past, LimitAssumption
<1>2. LongAgo(p) = [p EXCEPT !.age = n]
  BY DEF LongAgo, Past
<1> HIDE DEF n
<1>3. QED BY <1>1, <1>2 DEF Past, SameDates

LEMMA YoungIs ==
  ASSUME NEW p \in Past
  PROVE  /\ [p EXCEPT !.old = FALSE] \in Past
         /\ SameDates([p EXCEPT !.old = FALSE], p)
         /\ [p EXCEPT !.old = FALSE].age = p.age
  BY DEF Past, SameDates

-----------------------------------------------------------------------------
(* The threads *)

\* A thread goes on to the next app of the same pass.
LEMMA ProceedStep ==
  ASSUME LimitAssumption, LimitInv, NEW t \in Threads, NEW a, Proceed(t, a)
  PROVE  /\ pc' \in [Threads -> Places] /\ loc' \in [Threads -> Locals] /\ AppInHand'
         /\ pc' = [pc EXCEPT ![t] = "visit"]
         /\ \A u \in Threads : loc'[u].date = loc[u].date
<1> USE DEF LimitInv
<1> DEFINE l == Pass(loc[t].date, loc[t].todo \ {a}, loc[t].seen)
<1>1. loc[t] \in Locals
  BY DEF TypeOK
<1>2. l \in Locals /\ l.date = loc[t].date
  <2>1. /\ loc[t].date \in 0..LastDay /\ loc[t].todo \ {a} \in SUBSET Apps
        /\ loc[t].seen \in SUBSET Apps
    BY <1>1 DEF Locals
  <2>2. QED BY <2>1, PassIs
<1>3. pc' = [pc EXCEPT ![t] = "visit"] /\ loc' = [loc EXCEPT ![t] = l]
  BY DEF Proceed, Goto
<1> HIDE DEF l
<1>4. QED BY <1>2, <1>3 DEF TypeOK, AppInHand

\* A step that puts nothing on record but what is of today, and takes no pass further
\* than its reset, but may end one.
LEMMA RecordsStep ==
  ASSUME LimitAssumption, LimitInv, TypeOK', notifiedDay' = notifiedDay, today' >= today,
         \A t \in Threads : /\ loc'[t].date <= today
                            /\ UnderWay(t)' => UnderWay(t) /\ loc'[t].date = loc[t].date,
         \A a \in Apps :
           /\ past'[a].warnedOn \in {past[a].warnedOn, today}
           /\ past'[a].noticedOn \in {past[a].noticedOn, today}
           /\ deadline'[a] # NoDeadline =>
                deadline[a] # NoDeadline \/ past'[a].warnedOn = today
           /\ <<a, "over">> \in notified' =>
                <<a, "over">> \in notified \/ past'[a].noticedOn = today
  PROVE  DatesPassed' /\ RecordsAreNew'
<1> USE DEF LimitInv
<1>1. /\ today \in Nat /\ today' \in Nat /\ notifiedDay \in Nat
      /\ \A a \in Apps : past[a].warnedOn \in Nat /\ past[a].noticedOn \in Nat
      /\ \A t \in Threads : loc[t].date \in Nat /\ loc'[t].date \in Nat
  BY DEF TypeOK, Past, Locals, LimitAssumption
<1>2. DatesPassed'
  <2>1. /\ notifiedDay <= today
        /\ \A a \in Apps : past[a].warnedOn <= today /\ past[a].noticedOn <= today
    BY DEF DatesPassed
  <2>2. ASSUME NEW a \in Apps
        PROVE  past'[a].warnedOn <= today' /\ past'[a].noticedOn <= today'
    <3>1. /\ past'[a].warnedOn \in {past[a].warnedOn, today}
          /\ past'[a].noticedOn \in {past[a].noticedOn, today}
      OBVIOUS
    <3>2. /\ past[a].warnedOn <= today /\ past[a].noticedOn <= today
          /\ past[a].warnedOn \in Nat /\ past[a].noticedOn \in Nat
      BY <1>1, <2>1
    <3> HIDE DEF LimitInv
    <3>3. QED BY <1>1, <3>1, <3>2
  <2>3. \A t \in Threads : loc'[t].date <= today'
    BY <1>1
  <2>4. notifiedDay' <= today'
    BY <1>1, <2>1
  <2>5. QED BY <2>2, <2>3, <2>4 DEF DatesPassed
<1>3. ASSUME NEW since \in Nat, since <= today, RecordsAreOf(since)
      PROVE  RecordsAreOf(since)'
  BY <1>1, <1>3 DEF RecordsAreOf
<1>4. RecordsAreOf(notifiedDay)'
  <2>1. RecordsAreOf(notifiedDay) /\ notifiedDay <= today
    BY DEF RecordsAreNew, DatesPassed
  <2>2. QED BY <1>1, <1>3, <2>1 DEF RecordsAreOf
<1>5. ASSUME NEW t \in Threads, UnderWay(t)' PROVE RecordsAreOf(loc[t].date)'
  <2>1. RecordsAreOf(loc[t].date) /\ loc[t].date <= today /\ loc'[t].date = loc[t].date
    BY <1>5 DEF RecordsAreNew, DatesPassed
  <2>2. QED BY <1>1, <1>3, <2>1 DEF RecordsAreOf
<1>6. QED BY <1>2, <1>4, <1>5 DEF RecordsAreNew

\* A step that leaves the records alone, begins no pass that is under way, and moves no
\* date but forward, or back to none at the end of a pass.
LEMMA AsideStep ==
  ASSUME LimitInv, UNCHANGED <<daily, past>>, today' = today,
         \A t \in Threads : /\ loc'[t].date = loc[t].date \/ loc'[t].date = today
                            /\ UnderWay(t)' => UnderWay(t) /\ loc'[t].date = loc[t].date
  PROVE  GraceRuns' /\ DatesPassed' /\ RecordsAreNew'
<1> USE DEF LimitInv
<1>1. GraceRuns'
  BY DEF GraceRuns
<1>2. DatesPassed'
  BY DEF DatesPassed, TypeOK
<1>3. \A since : RecordsAreOf(since)' <=> RecordsAreOf(since)
  BY DEF RecordsAreOf
<1>4. RecordsAreNew'
  BY <1>3 DEF RecordsAreNew
<1>5. QED BY <1>1, <1>2, <1>4

LEMMA WakeStep ==
  ASSUME LimitAssumption, LimitInv, NEW t \in Threads, Wake(t) PROVE LimitInv'
<1> USE DEF LimitInv
<1> DEFINE l == [loc[t] EXCEPT !.date = today]
<1>1. /\ pc[t] = "sleep" /\ pc' = [pc EXCEPT ![t] = "reset"] /\ loc' = [loc EXCEPT ![t] = l]
      /\ UNCHANGED <<world, active, daily, past>>
  BY DEF Wake, Goto
<1>2. l \in Locals /\ l.date = today /\ loc[t].lvl = l.lvl
  BY DEF TypeOK, Locals
<1> HIDE DEF l
<1>3. TypeOK' /\ AppInHand'
  BY <1>1, <1>2 DEF TypeOK, AppInHand
<1>4. \A u \in Threads : /\ loc'[u].date = loc[u].date \/ loc'[u].date = today
                         /\ UnderWay(u)' => UnderWay(u) /\ loc'[u].date = loc[u].date
  BY <1>1, <1>2 DEF UnderWay, TypeOK
<1>5. QED BY <1>1, <1>3, <1>4, AsideStep

LEMMA ResetStep ==
  ASSUME LimitAssumption, LimitInv, NEW t \in Threads, DailyReset(t) PROVE LimitInv'
<1> USE DEF LimitInv
<1>1. /\ pc[t] = "reset" /\ pc' = [pc EXCEPT ![t] = "scan"]
      /\ UNCHANGED <<world, active, loc>>
  BY DEF DailyReset, Goto
<1>2. AppInHand' /\ pc' \in [Threads -> Places]
  BY <1>1 DEF AppInHand, TypeOK
<1>3. \A u \in Threads : UnderWay(u)' => u = t \/ UnderWay(u)
  BY <1>1 DEF UnderWay, TypeOK
<1>4. CASE RolledOver(t)
  <2>1. /\ notifiedDay' = loc[t].date /\ notified' = {}
        /\ deadline' = [a \in Apps |-> NoDeadline]
        /\ past' = [a \in Apps |-> Forgotten(past[a])]
    BY <1>4 DEF DailyReset
  <2>2. /\ past' \in [Apps -> Past]
        /\ \A a \in Apps : past'[a].warnedOn = 0 /\ past'[a].noticedOn = 0
    BY <2>1, ForgottenIs DEF TypeOK
  <2>3. loc[t].date \in 0..LastDay
    BY DEF TypeOK, Locals
  <2>4. TypeOK'
    BY <1>1, <1>2, <2>1, <2>2, <2>3 DEF TypeOK
  <2>5. GraceRuns' /\ DatesPassed'
    BY <1>1, <2>1, <2>2 DEF GraceRuns, DatesPassed, TypeOK
  <2>6. RecordsAreNew'
    BY <2>1 DEF RecordsAreNew, RecordsAreOf
  <2>7. QED BY <1>2, <2>4, <2>5, <2>6
<1>5. CASE ~RolledOver(t)
  <2>1. UNCHANGED <<daily, past>> /\ loc[t].date = notifiedDay
    BY <1>5 DEF DailyReset, RolledOver
  <2>2. TypeOK' /\ GraceRuns' /\ DatesPassed'
    BY <1>1, <1>2, <2>1 DEF TypeOK, GraceRuns, DatesPassed
  <2>3. \A since : RecordsAreOf(since)' <=> RecordsAreOf(since)
    BY <2>1 DEF RecordsAreOf
  <2>4. RecordsAreNew'
    BY <1>1, <1>3, <2>1, <2>3 DEF RecordsAreNew
  <2>5. QED BY <1>2, <2>2, <2>4
<1>6. QED BY <1>4, <1>5

LEMMA ScanStep ==
  ASSUME LimitAssumption, LimitInv, NEW t \in Threads, Scan(t) \/ FinishPass(t)
  PROVE  LimitInv'
<1> USE DEF LimitInv
<1>0. Idle \in Locals /\ Idle.date = 0 /\ loc[t] \in Locals
  BY IdleIs DEF TypeOK
<1>1. PICK l \in Locals, p \in {"visit", "sleep"} :
        /\ pc' = [pc EXCEPT ![t] = p] /\ loc' = [loc EXCEPT ![t] = l]
        /\ p = "visit" => pc[t] = "scan" /\ l.date = loc[t].date
        /\ p = "sleep" => l = Idle
  <2>1. CASE FinishPass(t) \/ (Scan(t) /\ pc' = [pc EXCEPT ![t] = "sleep"])
    BY <1>0, <2>1 DEF FinishPass, Scan, Goto, TypeOK
  <2>2. CASE Scan(t) /\ pc' = [pc EXCEPT ![t] = "visit"]
    <3> DEFINE seen == {a \in Apps : proc[a] # 0}
               l == Pass(loc[t].date, IF t = "poll" THEN Apps ELSE seen, seen)
    <3>1. pc[t] = "scan" /\ loc' = [loc EXCEPT ![t] = l]
      BY <2>2 DEF Scan, Goto, TypeOK
    <3>2. loc[t].date \in 0..LastDay /\ seen \in SUBSET Apps
      BY <1>0 DEF Locals
    <3>3. l \in Locals /\ l.date = loc[t].date
      BY <3>2, PassIs
    <3> HIDE DEF l
    <3>4. QED BY <2>2, <3>1, <3>3
  <2>3. QED BY <2>1, <2>2 DEF Scan, Goto
<1>2. UNCHANGED <<world, active, daily, past>>
  BY DEF Scan, FinishPass
<1>3. /\ pc \in [Threads -> Places] /\ loc \in [Threads -> Locals]
      /\ today \in Nat /\ \A u \in Threads : loc[u].date <= today
  BY DEF TypeOK, DatesPassed, LimitAssumption
<1>4. TypeOK' /\ AppInHand' /\ GraceRuns'
  BY <1>1, <1>2 DEF TypeOK, AppInHand, GraceRuns
<1>5. /\ \A u \in Threads : loc'[u].date <= today
      /\ \A u \in Threads : UnderWay(u)' => UnderWay(u) /\ loc'[u].date = loc[u].date
  BY <1>0, <1>1, <1>3 DEF UnderWay
<1>6. DatesPassed'
  BY <1>2, <1>5 DEF DatesPassed
<1>7. \A since : RecordsAreOf(since)' <=> RecordsAreOf(since)
  BY <1>2 DEF RecordsAreOf
<1>8. RecordsAreNew'
  BY <1>2, <1>5, <1>7 DEF RecordsAreNew
<1>9. QED BY <1>4, <1>6, <1>8

LEMMA DecideStep ==
  ASSUME LimitAssumption, LimitInv, NEW t \in Threads, Decide(t) PROVE LimitInv'
<1> DEFINE a == loc[t].app
<1> USE DEF LimitInv
<1>1. /\ a \in Apps /\ past[a] \in Past /\ pc[t] = "due"
      /\ deadline[a] \in {NoDeadline} \cup 0..Grace
  BY DEF Decide, AppInHand, TypeOK
<1>2. UNCHANGED <<world, active, notified, notifiedDay>>
  BY DEF Decide
<1>3. CASE deadline[a] = NoDeadline
  <2>1. /\ deadline' = [deadline EXCEPT ![a] = Grace]
        /\ past' = [past EXCEPT ![a] = Warned(past[a])]
        /\ Proceed(t, a)
    BY <1>3 DEF Decide, PendingDeadline, LimitAssumption
  <2>2. /\ pc' \in [Threads -> Places] /\ loc' \in [Threads -> Locals] /\ AppInHand'
        /\ pc' = [pc EXCEPT ![t] = "visit"]
        /\ \A u \in Threads : loc'[u].date = loc[u].date
    BY <2>1, ProceedStep
  <2>3. /\ Warned(past[a]) \in Past /\ Warned(past[a]).age = 0
        /\ Warned(past[a]).warnedOn = today
        /\ Warned(past[a]).noticedOn = past[a].noticedOn
    BY <1>1, WarnedIs DEF TypeOK
  <2>4. TypeOK'
    <3>1. Grace \in 0..Grace
      BY DEF LimitAssumption
    <3>2. deadline' \in [Apps -> {NoDeadline} \cup 0..Grace] /\ past' \in [Apps -> Past]
      BY <2>1, <2>3, <3>1 DEF TypeOK
    <3>3. QED BY <1>2, <2>2, <3>2 DEF TypeOK
  <2>5. GraceRuns'
    BY <1>1, <2>1, <2>3 DEF GraceRuns, TypeOK, LimitAssumption
  <2>6. \A u \in Threads : UnderWay(u)' => UnderWay(u)
    BY <1>1, <2>2 DEF UnderWay, TypeOK
  <2>7. \A x \in Apps :
          /\ past'[x].warnedOn \in {past[x].warnedOn, today}
          /\ past'[x].noticedOn = past[x].noticedOn
          /\ deadline'[x] # NoDeadline => deadline[x] # NoDeadline \/ past'[x].warnedOn = today
    BY <1>1, <2>1, <2>3 DEF TypeOK
  <2>8. (\A u \in Threads : loc[u].date <= today) /\ today' >= today
    BY <1>2 DEF DatesPassed, TypeOK, LimitAssumption
  <2>9. DatesPassed' /\ RecordsAreNew'
    BY <1>2, <2>2, <2>4, <2>6, <2>7, <2>8, RecordsStep
  <2>10. QED BY <2>2, <2>4, <2>5, <2>9
<1>4. CASE deadline[a] # NoDeadline
  <2>1. UNCHANGED <<deadline, past>>
    <3>1. deadline' = [deadline EXCEPT ![a] = deadline[a]]
      BY <1>4 DEF Decide, PendingDeadline
    <3>2. QED BY <1>1, <1>4, <3>1 DEF Decide, TypeOK
  <2>2. /\ pc' \in [Threads -> Places] /\ loc' \in [Threads -> Locals] /\ AppInHand'
        /\ \A u \in Threads : loc'[u].date = loc[u].date
        /\ \A u \in Threads : UnderWay(u)' => UnderWay(u)
    <3>1. CASE Proceed(t, a)
      BY <1>1, <3>1, ProceedStep DEF UnderWay, TypeOK
    <3>2. CASE pc' = [pc EXCEPT ![t] = "close"] /\ UNCHANGED loc
      BY <1>1, <3>2 DEF TypeOK, AppInHand, UnderWay
    <3>3. QED BY <1>4, <3>1, <3>2 DEF Decide, Goto
  <2>3. GraceRuns' /\ DatesPassed' /\ RecordsAreNew'
    BY <1>2, <2>1, <2>2, AsideStep
  <2>4. QED
    BY <1>2, <2>1, <2>2, <2>3 DEF TypeOK
<1>5. QED BY <1>3, <1>4

LEMMA ClosingStep ==
  ASSUME LimitAssumption, LimitInv, NEW t \in Threads,
         AskToClose(t) \/ AwaitExit(t) \/ AfterRefusal(t)
  PROVE  LimitInv'
<1> DEFINE a == loc[t].app
<1> USE DEF LimitInv
<1>1. /\ a \in Apps /\ loc[t] \in Locals /\ proc[a] \in 0..MaxLaunches
      /\ pc[t] \in {"close", "wait", "refused"}
  BY DEF AskToClose, AwaitExit, AfterRefusal, AppInHand, TypeOK
<1>2. UNCHANGED <<level, launches, kind, autoKill, today, restarts, daily, past>>
  BY DEF AskToClose, AwaitExit, AfterRefusal
<1>3. ASSUME pc' \in [Threads -> Places], loc' \in [Threads -> Locals], AppInHand',
             \A u \in Threads : loc'[u].date = loc[u].date /\ (u # t => pc'[u] = pc[u]),
             proc' \in [Apps -> 0..MaxLaunches], active' \subseteq Apps
      PROVE  LimitInv'
  <2>1. \A u \in Threads : UnderWay(u)' => UnderWay(u)
    BY <1>1, <1>3 DEF UnderWay
  <2>2. GraceRuns' /\ DatesPassed' /\ RecordsAreNew'
    BY <1>2, <1>3, <2>1, AsideStep
  <2>3. QED BY <1>2, <1>3, <2>2 DEF TypeOK
<1>4. CASE AskToClose(t)
  <2> DEFINE l == [loc[t] EXCEPT !.pid = proc[a]]
  <2>1. l \in Locals /\ l.app = a /\ l.lvl = loc[t].lvl /\ l.date = loc[t].date
    BY <1>1 DEF Locals
  <2>2. \/ pc' = [pc EXCEPT ![t] = "refused"] /\ UNCHANGED loc
        \/ pc' = [pc EXCEPT ![t] = "wait"] /\ loc' = [loc EXCEPT ![t] = l]
    BY <1>4 DEF AskToClose, Goto
  <2> HIDE DEF l
  <2>3. /\ pc' \in [Threads -> Places] /\ loc' \in [Threads -> Locals] /\ AppInHand'
        /\ \A u \in Threads : loc'[u].date = loc[u].date /\ (u # t => pc'[u] = pc[u])
    BY <1>1, <2>1, <2>2 DEF TypeOK, AppInHand
  <2>4. QED
    BY <1>3, <1>4, <2>3 DEF AskToClose, TypeOK
<1>5. CASE AwaitExit(t)
  <2>1. /\ \E p \in {"closed", "refused"} : pc' = [pc EXCEPT ![t] = p]
        /\ proc' \in [Apps -> 0..MaxLaunches]
        /\ UNCHANGED <<loc, active>>
    BY <1>1, <1>5 DEF AwaitExit, Goto, TypeOK, LimitAssumption
  <2>2. /\ pc' \in [Threads -> Places] /\ AppInHand'
        /\ \A u \in Threads : u # t => pc'[u] = pc[u]
    BY <1>1, <2>1 DEF AppInHand, TypeOK
  <2>3. QED BY <1>3, <2>1, <2>2 DEF TypeOK
<1>6. CASE AfterRefusal(t)
  <2>1. active' \subseteq Apps /\ UNCHANGED proc
    BY <1>1, <1>6 DEF AfterRefusal, TypeOK
  <2>2. /\ pc' \in [Threads -> Places] /\ loc' \in [Threads -> Locals] /\ AppInHand'
        /\ \A u \in Threads : loc'[u].date = loc[u].date /\ (u # t => pc'[u] = pc[u])
    <3>1. CASE Proceed(t, a)
      BY <3>1, ProceedStep DEF TypeOK
    <3>2. CASE t = "poll" /\ pc' = [pc EXCEPT ![t] = "notice"] /\ UNCHANGED loc
      BY <1>1, <3>2 DEF TypeOK, AppInHand
    <3>3. QED BY <1>6, <3>1, <3>2 DEF AfterRefusal, Goto
  <2>3. QED BY <1>3, <2>1, <2>2 DEF TypeOK
<1>7. QED BY <1>4, <1>5, <1>6

LEMMA AfterClosingStep ==
  ASSUME LimitAssumption, LimitInv, NEW t \in Threads, AfterClosing(t) PROVE LimitInv'
<1> USE DEF LimitInv
<1>1. /\ pc' \in [Threads -> Places] /\ loc' \in [Threads -> Locals] /\ AppInHand'
      /\ pc' = [pc EXCEPT ![t] = "visit"] /\ pc[t] = "closed"
      /\ \A u \in Threads : loc'[u].date = loc[u].date
  BY ProceedStep DEF AfterClosing
<1>2. /\ deadline' \in [Apps -> {NoDeadline} \cup 0..Grace]
      /\ \A a \in Apps : deadline'[a] \in {deadline[a], NoDeadline}
      /\ UNCHANGED <<world, active, notified, notifiedDay, past>>
  BY DEF AfterClosing, TypeOK
<1>3. TypeOK' /\ GraceRuns'
  BY <1>1, <1>2 DEF TypeOK, GraceRuns
<1>4. /\ \A u \in Threads : UnderWay(u)' => UnderWay(u)
      /\ (\A u \in Threads : loc[u].date <= today) /\ today' >= today
  BY <1>1, <1>2 DEF UnderWay, DatesPassed, TypeOK, LimitAssumption
<1>5. DatesPassed' /\ RecordsAreNew'
  BY <1>1, <1>2, <1>3, <1>4, RecordsStep
<1>6. QED BY <1>1, <1>3, <1>5

LEMMA VisitStep ==
  ASSUME LimitAssumption, LimitInv, NEW a \in Apps,
         WatchApp(a) \/ PollNewApp(a) \/ PollStoppedApp(a) \/ PollRunningApp(a)
  PROVE  LimitInv'
<1> USE DEF LimitInv
<1>1. /\ UNCHANGED <<world, daily, past>> /\ active' \subseteq Apps
      /\ level[a] \in Levels
  BY DEF WatchApp, PollNewApp, PollStoppedApp, PollRunningApp, TypeOK
<1>2. \E t \in Threads, p \in Places : pc[t] = "visit" /\ pc' = [pc EXCEPT ![t] = p]
  BY DEF WatchApp, PollNewApp, PollStoppedApp, PollRunningApp, Proceed, Goto
<1>3. /\ pc' \in [Threads -> Places] /\ loc' \in [Threads -> Locals] /\ AppInHand'
      /\ \A u \in Threads : loc'[u].date = loc[u].date
  <2>1. CASE \E t \in Threads : Proceed(t, a)
    BY <2>1, ProceedStep
  <2>2. ASSUME NEW t \in Threads, NEW v \in Levels \ {"under"},
               NEW w \in {"due", "launch"}, NEW p \in {"due", "close", "notice"},
               p = "notice" => t = "poll",
               pc' = [pc EXCEPT ![t] = p],
               loc' = [loc EXCEPT ![t] = TakeUp(loc[t], a, v, w)]
        PROVE  /\ pc' \in [Threads -> Places] /\ loc' \in [Threads -> Locals] /\ AppInHand'
               /\ \A u \in Threads : loc'[u].date = loc[u].date
    <3>1. loc[t] \in Locals
      BY DEF TypeOK
    <3> DEFINE l == TakeUp(loc[t], a, v, w)
    <3>2. l \in Locals /\ l.app = a /\ l.lvl = v /\ l.date = loc[t].date
      BY <3>1 DEF TakeUp, Locals
    <3> HIDE DEF l
    <3>3. loc' = [loc EXCEPT ![t] = l]
      BY <2>2 DEF l
    <3>4. QED BY <2>2, <3>2, <3>3 DEF TypeOK, AppInHand
  <2>3. CASE WatchApp(a)
    BY <2>1, <2>2, <2>3 DEF WatchApp, Goto
  <2>4. CASE PollNewApp(a)
    BY <2>1, <2>2, <2>4 DEF PollNewApp, Goto
  <2>5. CASE PollStoppedApp(a)
    BY <2>1, <2>5 DEF PollStoppedApp
  <2>6. CASE PollRunningApp(a)
    BY <1>1, <2>1, <2>2, <2>6 DEF PollRunningApp, Goto
  <2>7. QED BY <2>3, <2>4, <2>5, <2>6
<1>4. \A u \in Threads : UnderWay(u)' => UnderWay(u)
  BY <1>2 DEF UnderWay, TypeOK
<1>5. GraceRuns' /\ DatesPassed' /\ RecordsAreNew'
  BY <1>1, <1>3, <1>4, AsideStep
<1>6. QED BY <1>1, <1>3, <1>5 DEF TypeOK

LEMMA NoticeStep ==
  ASSUME LimitAssumption, LimitInv, PollNotice PROVE LimitInv'
<1> DEFINE a == loc["poll"].app
           v == loc["poll"].lvl
           k == <<a, v>>
<1> USE DEF LimitInv
<1>1. /\ a \in Apps /\ v \in {"warn", "over"} /\ past[a] \in Past /\ pc["poll"] = "notice"
      /\ UNCHANGED <<world, active, deadline, notifiedDay>>
  BY DEF PollNotice, AppInHand, TypeOK, Locals
<1>2. /\ pc' \in [Threads -> Places] /\ loc' \in [Threads -> Locals] /\ AppInHand'
      /\ pc' = [pc EXCEPT !["poll"] = "visit"]
      /\ \A u \in Threads : loc'[u].date = loc[u].date
  BY ProceedStep DEF PollNotice
<1>3. /\ Noticed(past[a]) \in Past /\ Noticed(past[a]).age = past[a].age
      /\ Noticed(past[a]).warnedOn = past[a].warnedOn /\ Noticed(past[a]).noticedOn = today
  BY <1>1, NoticedIs DEF TypeOK
<1>4. \/ /\ v = "over" /\ notified' = notified \cup {k}
         /\ past' = [past EXCEPT ![a] = Noticed(past[a])]
      \/ /\ v # "over" /\ notified' = notified \cup {k} /\ past' = past
      \/ notified' = notified /\ past' = past
  BY DEF PollNotice, Key
<1>5. /\ past' \in [Apps -> Past] /\ notified' \subseteq Apps \X {"warn", "over"}
      /\ \A x \in Apps :
           /\ past'[x].age = past[x].age /\ past'[x].warnedOn = past[x].warnedOn
           /\ past'[x].noticedOn \in {past[x].noticedOn, today}
           /\ <<x, "over">> \in notified' =>
                <<x, "over">> \in notified \/ past'[x].noticedOn = today
  BY <1>1, <1>3, <1>4 DEF TypeOK
<1>6. TypeOK' /\ GraceRuns'
  BY <1>1, <1>2, <1>5 DEF TypeOK, GraceRuns
<1>7. /\ \A u \in Threads : UnderWay(u)' => UnderWay(u)
      /\ (\A u \in Threads : loc[u].date <= today) /\ today' >= today
  BY <1>1, <1>2 DEF UnderWay, DatesPassed, TypeOK, LimitAssumption
<1>8. DatesPassed' /\ RecordsAreNew'
  BY <1>1, <1>2, <1>5, <1>6, <1>7, RecordsStep
<1>9. QED BY <1>2, <1>6, <1>8

-----------------------------------------------------------------------------
(* The world *)

LEMMA WorldStep ==
  ASSUME LimitAssumption, LimitInv, World PROVE LimitInv'
<1> USE DEF LimitInv
<1>0. ASSUME TypeOK', UNCHANGED <<pc, loc, notified, notifiedDay>>, today' >= today,
             \A a \in Apps : /\ SameDates(past'[a], past[a])
                             /\ deadline'[a] # NoDeadline => deadline[a] # NoDeadline
      PROVE  AppInHand' /\ DatesPassed' /\ RecordsAreNew'
  <2>1. AppInHand'
    BY <1>0 DEF AppInHand
  <2>2. \A u \in Threads : loc'[u].date <= today /\ (UnderWay(u)' => UnderWay(u))
    BY <1>0 DEF DatesPassed, UnderWay
  <2>3. DatesPassed' /\ RecordsAreNew'
    BY <1>0, <2>2, RecordsStep DEF SameDates
  <2>4. QED BY <2>1, <2>3
<1>00. today \in Nat /\ today >= today
  BY DEF TypeOK, LimitAssumption
<1>1. ASSUME NEW a \in Apps, Launch(a) PROVE LimitInv'
  <2>1. /\ past[a] \in Past /\ launches[a] \in 0..MaxLaunches /\ launches[a] < MaxLaunches
        /\ launches' = [launches EXCEPT ![a] = launches[a] + 1]
        /\ proc' = [proc EXCEPT ![a] = launches[a] + 1]
        /\ past' = [past EXCEPT ![a] = [past[a] EXCEPT !.old = FALSE]]
        /\ UNCHANGED <<level, kind, autoKill, today, restarts, active, daily, pc, loc>>
    BY <1>1 DEF Launch, TypeOK
  <2> DEFINE p == [past[a] EXCEPT !.old = FALSE]
  <2>2. p \in Past /\ SameDates(p, past[a]) /\ p.age = past[a].age
    BY <2>1, YoungIs
  <2> HIDE DEF p
  <2>3. launches[a] + 1 \in 0..MaxLaunches
    BY <2>1 DEF LimitAssumption
  <2>4. past' = [past EXCEPT ![a] = p]
    BY <2>1 DEF p
  <2>5. TypeOK' /\ GraceRuns' /\ \A x \in Apps : SameDates(past'[x], past[x])
    BY <2>1, <2>2, <2>3, <2>4 DEF TypeOK, GraceRuns, SameDates
  <2>6. QED BY <1>0, <1>00, <2>1, <2>5
<1>2. ASSUME UNCHANGED <<today, daily, pc, loc, past>>, TypeOK' PROVE LimitInv'
  <2>1. AppInHand' /\ DatesPassed' /\ RecordsAreNew'
    BY <1>0, <1>00, <1>2 DEF SameDates
  <2>2. QED BY <1>2, <2>1 DEF GraceRuns
<1>3. ASSUME NEW a \in Apps, Exit(a) \/ ChangeLevel(a) PROVE LimitInv'
  BY <1>2, <1>3 DEF Exit, ChangeLevel, TypeOK, LimitAssumption
<1>4. CASE ToggleAutoKill
  BY <1>2, <1>4 DEF ToggleAutoKill, TypeOK
<1>5. CASE Midnight
  <2>1. TypeOK' /\ today' >= today /\ GraceRuns'
    BY <1>5 DEF Midnight, TypeOK, GraceRuns, LimitAssumption
  <2>2. QED BY <1>0, <1>5, <2>1 DEF Midnight, SameDates
<1>6. CASE Tick
  <2>1. ASSUME NEW a \in Apps
        PROVE  /\ past'[a] = Older(past[a]) /\ deadline'[a] = Sooner(deadline[a])
               /\ past[a] \in Past /\ deadline[a] \in {NoDeadline} \cup 0..Grace
    BY <1>6 DEF Tick, TypeOK
  <2>2. ASSUME NEW a \in Apps
        PROVE  /\ Sooner(deadline[a]) \in {NoDeadline} \cup 0..Grace
               /\ Sooner(deadline[a]) # NoDeadline =>
                    deadline[a] # NoDeadline /\ Sooner(deadline[a]) >= deadline[a] - 1
    BY <2>1 DEF Sooner, LimitAssumption
  <2>3. /\ past' \in [Apps -> Past] /\ deadline' \in [Apps -> {NoDeadline} \cup 0..Grace]
        /\ \A a \in Apps : SameDates(past'[a], past[a])
    BY <1>6, <2>1, <2>2, OlderIs DEF Tick
  <2>4. TypeOK'
    BY <1>6, <2>3 DEF Tick, TypeOK
  <2>5. GraceRuns'
    <3> SUFFICES ASSUME NEW a \in Apps, deadline'[a] # NoDeadline
                 PROVE  past'[a].age # NoDeadline /\ past'[a].age + deadline'[a] >= Grace
      BY DEF GraceRuns
    <3>1. /\ deadline[a] # NoDeadline /\ deadline'[a] >= deadline[a] - 1
          /\ deadline[a] \in 0..Grace /\ deadline'[a] \in 0..Grace
      BY <2>1, <2>2
    <3>2. past[a].age # NoDeadline /\ past[a].age + deadline[a] >= Grace
          /\ past[a].age \in 0..Grace
      BY <2>1, <3>1 DEF GraceRuns, Past
    <3>3. past'[a].age \in 0..Grace /\ (past'[a].age = Grace \/ past'[a].age = past[a].age + 1)
      BY <2>1, <3>2, OlderIs
    <3>4. QED BY <3>1, <3>2, <3>3 DEF LimitAssumption
  <2>6. QED BY <1>0, <1>00, <1>6, <2>1, <2>2, <2>3, <2>4, <2>5 DEF Tick
<1>7. CASE SetClockForward
  <2>1. ASSUME NEW a \in Apps
        PROVE  /\ past'[a] = LongAgo(past[a]) /\ past[a] \in Past
               /\ deadline'[a] \in {NoDeadline} \cup 0..Grace
               /\ deadline'[a] # NoDeadline => deadline[a] # NoDeadline /\ deadline'[a] = 0
    BY <1>7 DEF SetClockForward, TypeOK, LimitAssumption
  <2>2. /\ past' \in [Apps -> Past] /\ deadline' \in [Apps -> {NoDeadline} \cup 0..Grace]
        /\ \A a \in Apps : SameDates(past'[a], past[a])
    BY <1>7, <2>1, LongAgoIs DEF SetClockForward
  <2>3. TypeOK'
    BY <1>7, <2>2 DEF SetClockForward, TypeOK
  <2>4. GraceRuns'
    <3> SUFFICES ASSUME NEW a \in Apps, deadline'[a] # NoDeadline
                 PROVE  past'[a].age # NoDeadline /\ past'[a].age + deadline'[a] >= Grace
      BY DEF GraceRuns
    <3>1. past'[a].age = Grace /\ deadline'[a] = 0
      BY <2>1, LongAgoIs DEF GraceRuns
    <3>2. QED BY <3>1 DEF LimitAssumption
  <2>5. QED BY <1>0, <1>00, <1>7, <2>1, <2>2, <2>3, <2>4 DEF SetClockForward
<1>8. CASE Restart
  <2>1. Idle \in Locals /\ Idle.date = 0
    BY IdleIs
  <2>2. /\ past' \in [Apps -> Past]
        /\ \A a \in Apps : past'[a].warnedOn = 0 /\ past'[a].noticedOn = 0
    BY <1>8, NewPastIs DEF Restart, TypeOK
  <2>3. TypeOK'
    BY <1>8, <2>1, <2>2 DEF Restart, TypeOK, LimitAssumption
  <2>4. AppInHand' /\ GraceRuns' /\ DatesPassed'
    BY <1>8, <1>00, <2>1, <2>2 DEF Restart, AppInHand, GraceRuns, DatesPassed
  <2>5. RecordsAreNew'
    BY <1>8 DEF Restart, RecordsAreNew, RecordsAreOf
  <2>6. QED BY <2>3, <2>4, <2>5
<1>9. QED
  BY <1>1, <1>3, <1>4, <1>5, <1>6, <1>7, <1>8 DEF World

-----------------------------------------------------------------------------
(* The theorems *)

LEMMA InitInv == ASSUME LimitAssumption, Init PROVE LimitInv
<1> USE DEF Init
<1>1. /\ past \in [Apps -> Past]
      /\ \A a \in Apps : past[a].warnedOn = 0 /\ past[a].noticedOn = 0
  BY NewPastIs
<1>2. Idle \in Locals /\ Idle.date = 0
  BY IdleIs
<1>3. TypeOK
  BY <1>1, <1>2 DEF TypeOK, LimitAssumption
<1>4. AppInHand /\ GraceRuns /\ DatesPassed /\ RecordsAreNew
  BY <1>1, <1>2 DEF AppInHand, GraceRuns, DatesPassed, RecordsAreNew, RecordsAreOf
<1>5. QED
  BY <1>3, <1>4 DEF LimitInv

LEMMA NextStep == ASSUME LimitAssumption, LimitInv, [Next]_vars PROVE LimitInv'
<1>1. ASSUME NEW t \in Threads, Step(t) PROVE LimitInv'
  BY <1>1, WakeStep, ResetStep, ScanStep, DecideStep, ClosingStep, AfterClosingStep DEF Step
<1>2. CASE Watch \/ Poll
  BY <1>1, <1>2, VisitStep, NoticeStep DEF Watch, Poll
<1>3. CASE UNCHANGED vars
  BY <1>3 DEF vars, LimitInv, TypeOK, AppInHand, GraceRuns, DatesPassed, RecordsAreNew,
     RecordsAreOf, UnderWay
<1>4. QED BY <1>2, <1>3, WorldStep DEF Next

\* The strengthened invariant holds in every reachable state.
THEOREM LimitInvariance == Spec => []LimitInv
<1>1. Init => LimitInv
  BY LimitAssumption, InitInv
<1>2. LimitInv /\ [Next]_vars => LimitInv'
  BY LimitAssumption, NextStep
<1>3. QED BY <1>1, <1>2, PTL DEF Spec

\* Every variable stays in its type, for any apps, grace period and bounds.
THEOREM LimitTypeCorrect == Spec => []TypeOK
<1>1. LimitInv => TypeOK
  BY DEF LimitInv
<1>2. QED BY <1>1, LimitInvariance, PTL

\* Nothing but a decision takes a thread from "due" to "close".
LEMMA OnlyDecideCloses ==
  ASSUME LimitInv, [Next]_vars, NEW t \in Threads, pc[t] = "due", pc'[t] = "close"
  PROVE  Decide(t)
<1>1. pc \in [Threads -> Places]
  BY DEF LimitInv, TypeOK
<1>2. ASSUME NEW u \in Threads, Step(u), ~Decide(u) PROVE FALSE
  <2>1. \/ \E p \in Places \ {"close"} : pc' = [pc EXCEPT ![u] = p]
        \/ pc[u] # "due" /\ \E q \in Places : pc' = [pc EXCEPT ![u] = q]
    BY <1>2 DEF Step, Wake, DailyReset, Scan, FinishPass, AskToClose, AwaitExit, AfterClosing,
       AfterRefusal, Proceed, Goto
  <2>2. QED BY <1>1, <2>1
<1>3. CASE PollNotice
  BY <1>1, <1>3 DEF PollNotice, Proceed, Goto
<1>4. ASSUME NEW a \in Apps,
             WatchApp(a) \/ PollNewApp(a) \/ PollStoppedApp(a) \/ PollRunningApp(a)
      PROVE  FALSE
  <2>1. PICK u \in Threads, q \in Places : pc[u] = "visit" /\ pc' = [pc EXCEPT ![u] = q]
    BY <1>4 DEF WatchApp, PollNewApp, PollStoppedApp, PollRunningApp, Proceed, Goto
  <2>2. QED BY <1>1, <2>1
<1>5. CASE World
  <2>1. pc' = pc \/ pc' = [u \in Threads |-> "sleep"]
    BY <1>5 DEF World, Launch, Exit, ChangeLevel, ToggleAutoKill, Midnight, Tick,
       SetClockForward, Restart
  <2>2. QED BY <2>1
<1>6. CASE UNCHANGED vars
  BY <1>6 DEF vars
<1>7. ASSUME NEW u \in Threads, Decide(u), u # t PROVE FALSE
  BY <1>1, <1>7 DEF Decide, Proceed, Goto
<1>8. QED
  BY <1>2, <1>3, <1>4, <1>5, <1>6, <1>7 DEF Next, Watch, Poll

\* No thread decides that an app is due before the wall clock has moved on by
\* the grace period since the last warning, for any length of it and any number
\* of apps (monitor.py:634-673).
THEOREM GraceGiven == Spec => GraceIsGiven
<1> DEFINE Kept == \A t \in Threads, a \in Apps :
                     GoesAhead(t, a) => past[a].age = Grace
<1>1. LimitInv /\ [Next]_vars => Kept
  <2> SUFFICES ASSUME LimitInv, [Next]_vars, NEW t \in Threads, NEW a \in Apps,
                      GoesAhead(t, a)
               PROVE  past[a].age = Grace
    OBVIOUS
  <2>1. pc'[t] = "close" /\ pc[t] = "due" /\ loc[t].app = a
    BY DEF GoesAhead
  <2>2. Decide(t)
    BY <2>1, OnlyDecideCloses
  <2>3. deadline[a] = 0
    BY <2>1, <2>2 DEF Decide, Proceed, Goto, LimitInv, TypeOK
  <2>4. Grace \in Nat /\ NoDeadline \notin Nat
    BY LimitAssumption DEF LimitAssumption
  <2>5. past[a].age \in {NoDeadline} \cup 0..Grace
    BY DEF LimitInv, TypeOK, Past
  <2>6. past[a].age # NoDeadline /\ past[a].age + deadline[a] >= Grace
    BY <2>3, <2>4 DEF LimitInv, GraceRuns
  <2>7. QED BY <2>3, <2>4, <2>5, <2>6
<1>2. LimitInv /\ [Next]_vars => [Kept]_vars
  BY <1>1
<1> HIDE DEF Kept
<1>3. Spec => [][Kept]_vars
  BY <1>2, LimitInvariance, PTL DEF Spec
<1>4. QED BY <1>3 DEF Kept, GraceIsGiven

\* Nothing but PollNotice takes the poll from "notice" on to the next app.
LEMMA OnlyNoticeWithholds ==
  ASSUME LimitInv, [Next]_vars, pc["poll"] = "notice", pc'["poll"] = "visit"
  PROVE  PollNotice
<1>1. pc \in [Threads -> Places]
  BY DEF LimitInv, TypeOK
<1>2. ASSUME NEW u \in Threads, Step(u) PROVE FALSE
  <2>1. pc[u] # "notice" /\ \E p \in Places : pc' = [pc EXCEPT ![u] = p]
    BY <1>2 DEF Step, Wake, DailyReset, Scan, FinishPass, Decide, AskToClose, AwaitExit,
       AfterClosing, AfterRefusal, Proceed, Goto
  <2>2. QED BY <1>1, <2>1
<1>3. ASSUME NEW a \in Apps,
             WatchApp(a) \/ PollNewApp(a) \/ PollStoppedApp(a) \/ PollRunningApp(a)
      PROVE  FALSE
  <2>1. PICK u \in Threads, q \in Places : pc[u] = "visit" /\ pc' = [pc EXCEPT ![u] = q]
    BY <1>3 DEF WatchApp, PollNewApp, PollStoppedApp, PollRunningApp, Proceed, Goto
  <2>2. QED BY <1>1, <2>1
<1>4. CASE World
  <2>1. pc' = pc \/ pc' = [u \in Threads |-> "sleep"]
    BY <1>4 DEF World, Launch, Exit, ChangeLevel, ToggleAutoKill, Midnight, Tick,
       SetClockForward, Restart
  <2>2. QED BY <2>1
<1>5. CASE UNCHANGED vars
  BY <1>5 DEF vars
<1>6. QED
  BY <1>2, <1>3, <1>4, <1>5 DEF Next, Watch, Poll

\* A day starts with no deadline and no notice of the one before: whichever thread made
\* the reset, and whatever the other was doing, no pass closes an app on a warning, or
\* withholds a notice for one, from before the day it began (monitor.py:679-694).
THEOREM DaysStartAfresh == Spec => DayStartsAfresh
<1> DEFINE Afresh ==
      \A a \in Apps :
        /\ \A t \in Threads : GoesAhead(t, a) => past[a].warnedOn >= loc[t].date
        /\ Withholds(a) => past[a].noticedOn >= loc["poll"].date
<1>1. LimitInv /\ [Next]_vars => Afresh
  <2> SUFFICES ASSUME LimitInv, [Next]_vars, NEW a \in Apps
               PROVE  /\ \A t \in Threads : GoesAhead(t, a) => past[a].warnedOn >= loc[t].date
                      /\ Withholds(a) => past[a].noticedOn >= loc["poll"].date
    OBVIOUS
  <2>1. ASSUME NEW t \in Threads, GoesAhead(t, a) PROVE past[a].warnedOn >= loc[t].date
    <3>1. pc'[t] = "close" /\ pc[t] = "due" /\ loc[t].app = a
      BY <2>1 DEF GoesAhead
    <3>2. Decide(t)
      BY <3>1, OnlyDecideCloses
    <3>3. deadline[a] = 0
      BY <3>1, <3>2 DEF Decide, Proceed, Goto, LimitInv, TypeOK
    <3>4. deadline[a] # NoDeadline
      BY <3>3, LimitAssumption DEF LimitAssumption
    <3>5. RecordsAreOf(loc[t].date)
      BY <3>1 DEF LimitInv, RecordsAreNew, UnderWay
    <3>6. QED BY <3>4, <3>5 DEF RecordsAreOf
  <2>2. ASSUME Withholds(a) PROVE past[a].noticedOn >= loc["poll"].date
    <3>1. /\ pc["poll"] = "notice" /\ pc'["poll"] = "visit"
          /\ loc["poll"].app = a /\ loc["poll"].lvl = "over" /\ notified' = notified
      BY <2>2 DEF Withholds
    <3>2. PollNotice
      BY <3>1, OnlyNoticeWithholds
    <3>3. <<a, "over">> \in notified
      BY <3>1, <3>2 DEF PollNotice, FirstNotice, Key
    <3>4. RecordsAreOf(loc["poll"].date)
      BY <3>1 DEF LimitInv, RecordsAreNew, UnderWay
    <3>5. QED BY <3>3, <3>4 DEF RecordsAreOf
  <2>3. QED BY <2>1, <2>2
<1>2. LimitInv /\ [Next]_vars => [Afresh]_vars
  BY <1>1
<1> HIDE DEF Afresh
<1>3. Spec => [][Afresh]_vars
  BY <1>2, LimitInvariance, PTL DEF Spec
<1>4. QED BY <1>3 DEF Afresh, DayStartsAfresh

=============================================================================
