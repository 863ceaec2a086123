----------------------------- MODULE MainProofs ------------------------------
(***************************************************************************)
(* Proofs about the two things main.py itself has in hand: the licence,    *)
(* which it verifies at the start, and its own end.                        *)
(*                                                                         *)
(* No run of Licensing opens the paid features for longer than the grace   *)
(* period after the licence stopped being paid for, for all licences,      *)
(* periods and bounds.                                                     *)
(*                                                                         *)
(* The entitlement's age is a count of its own, and what it must be        *)
(* compared with is the server's: the invariant says that the licence of   *)
(* an entitlement has been unpaid for no longer than the entitlement is    *)
(* old.  It is kept when an answer is stored because an answer that says   *)
(* "premium" is not a day old.                                             *)
(*                                                                         *)
(* In DesktopProcess no worker is at work on a closed database, and an     *)
(* icon is left behind only where it could not be removed.  What has to be *)
(* known there is how far the Tk thread is: before each call that is still *)
(* to be made, the workers it comes after have ended, or will have been    *)
(* waited for when it is its turn; and behind the stop of the icon there   *)
(* is none, nor one to come, unless that stop failed or came too early.    *)
(***************************************************************************)
EXTENDS Licensing, DesktopProcess, TLAPS

-----------------------------------------------------------------------------
(* Licensing *)

\* A licence that is paid for has not been unpaid for a day.
PaidIsPaid == \A k \in Keys : paid[k] > 0 => unpaid[k] = 0

\* A day cannot pass between an answer of the server and its use.
AnswersAreFresh == \A r \in asked : r.answer = "premium" => unpaid[r.key] = 0

\* A "premium" answer is for a licence that has days left.
AnswersLast == \A r \in asked : r.answer = "premium" => r.left # 0

\* The licence has been unpaid for no longer than the entitlement is old.
NoOlderThanItsAge == cache # None => unpaid[cache.key] <= cache.age

Inv == TypeOK /\ PaidIsPaid /\ AnswersAreFresh /\ AnswersLast /\ NoOlderThanItsAge

\* A day passes and a count stays in its range; the order of two counts is kept.
LEMMA Days ==
  /\ \A d \in Lasts : Sooner(d) \in Lasts /\ (Sooner(d) > 0 => d > 0)
  /\ \A d \in 0..(Grace + 1) : Older(d) \in 0..(Grace + 1)
  /\ \A d, e \in 0..(Grace + 1) : d <= e => Older(d) <= Older(e)
<1> USE LicensingAssumption
<1>1. ASSUME NEW d \in Lasts PROVE Sooner(d) \in Lasts /\ (Sooner(d) > 0 => d > 0)
      <2>1. d \in Nat /\ d <= Term + 1 BY DEF Lasts, Never
      <2>2. CASE d = 0 \/ d = Never BY <2>1, <2>2 DEF Sooner, Lasts, Never
      <2>3. CASE d # 0 /\ d # Never
            <3>1. Sooner(d) = d - 1 BY <2>3 DEF Sooner
            <3> QED BY <2>1, <2>3, <3>1 DEF Lasts, Never
      <2> QED BY <2>2, <2>3
<1>2. \A d \in 0..(Grace + 1) : Older(d) \in 0..(Grace + 1)
      BY DEF Older
<1>3. \A d, e \in 0..(Grace + 1) : d <= e => Older(d) <= Older(e)
      BY DEF Older
<1> QED BY <1>1, <1>2, <1>3

\* The invariant holds at the start.
LEMMA InvInit == Init => Inv
<1> SUFFICES ASSUME Init PROVE Inv
    OBVIOUS
<1> USE LicensingAssumption DEF Init
<1>1. 0 \in Lasts /\ 0 \in 0..MaxMoves /\ Grace + 1 \in 0..(Grace + 1)
      BY DEF Lasts, Never
<1>2. TypeOK
      BY <1>1 DEF TypeOK
<1>3. PaidIsPaid
      <2> SUFFICES ASSUME NEW k \in Keys PROVE ~(paid[k] > 0)
          BY DEF PaidIsPaid
      <2>1. paid[k] = 0 OBVIOUS
      <2> QED BY <2>1
<1>4. AnswersAreFresh /\ AnswersLast /\ NoOlderThanItsAge
      BY DEF AnswersAreFresh, AnswersLast, NoOlderThanItsAge
<1> QED BY <1>2, <1>3, <1>4 DEF Inv

\* Every step keeps the invariant.
LEMMA InvNext == Inv /\ [Next]_vars => Inv'
<1> SUFFICES ASSUME Inv, [Next]_vars PROVE Inv'
    OBVIOUS
<1> USE LicensingAssumption
<1> USE DEF Inv, TypeOK, PaidIsPaid, AnswersAreFresh, AnswersLast, NoOlderThanItsAge
<1>1. CASE StartUp
  <2>1. cache # None => Ask("refresh", cache.key) \in Requests
        BY DEF Ask, Requests, Answers, Lasts, Never, Entitlements
  <2>2. \A r \in asked' : r \in Requests /\ r.answer # "premium"
        BY <1>1, <2>1 DEF StartUp, Ask
  <2> QED BY <1>1, <2>2 DEF StartUp
<1>2. CASE Tick
  <2>1. cache # None => /\ cache \in Entitlements
                        /\ cache' = [cache EXCEPT !.age = Older(@), !.left = Sooner(@)]
        BY <1>2 DEF Tick
  <2>2. cache' \in Entitlements \cup {None}
        BY <1>2, <2>1, Days DEF Tick, Entitlements
  <2>3. /\ paid' \in [Keys -> Lasts]
        /\ unpaid' \in [Keys -> 0..(Grace + 1)]
        BY <1>2, Days DEF Tick
  <2>4. \A k \in Keys : paid'[k] > 0 => unpaid'[k] = 0
        BY <1>2, Days DEF Tick
  <2>5. \A k \in Keys : unpaid'[k] <= Older(unpaid[k])
        BY <1>2, Days DEF Tick, Older
  <2>6. NoOlderThanItsAge'
    <3> SUFFICES ASSUME cache' # None PROVE unpaid'[cache'.key] <= cache'.age
        OBVIOUS
    <3>1. cache # None BY <1>2 DEF Tick
    <3>2. /\ cache.key \in Keys /\ cache.age \in 0..(Grace + 1)
          /\ cache'.key = cache.key /\ cache'.age = Older(cache.age)
          BY <2>1, <3>1 DEF Entitlements
    <3>3. Older(unpaid[cache.key]) <= Older(cache.age)
          BY <3>1, <3>2, Days
    <3>4. /\ unpaid'[cache.key] \in Nat
          /\ Older(unpaid[cache.key]) \in Nat /\ Older(cache.age) \in Nat
          BY <2>3, <3>2, Days
    <3> QED BY <2>5, <3>2, <3>3, <3>4
  <2> QED BY <1>2, <2>2, <2>3, <2>4, <2>6 DEF Tick
<1>3. CASE Move
      BY <1>3 DEF Move, Entitlements
<1>4. ASSUME NEW k \in Keys, Activate(k) PROVE Inv'
  <2>1. Ask("activate", k) \in Requests
        BY DEF Ask, Requests, Answers, Lasts, Never
  <2> QED BY <1>4, <2>1 DEF Activate, Ask
<1>5. ASSUME NEW k \in Keys, Pay(k) PROVE Inv'
  <2>1. Term \in Lasts /\ Never \in Lasts
        BY DEF Lasts, Never
  <2>2. /\ paid' \in [Keys -> Lasts]
        /\ unpaid' = [unpaid EXCEPT ![k] = 0]
        BY <1>5, <2>1 DEF Pay
  <2>3. /\ unpaid' \in [Keys -> 0..(Grace + 1)]
        /\ \A l \in Keys : unpaid'[l] = 0 \/ unpaid'[l] = unpaid[l]
        BY <2>2
  <2>4. PaidIsPaid' BY <1>5, <2>2 DEF Pay
  <2>5. AnswersAreFresh' BY <1>5, <2>3 DEF Pay, Requests
  <2>6. NoOlderThanItsAge' BY <1>5, <2>3 DEF Pay, Entitlements
  <2> QED BY <1>5, <2>2, <2>3, <2>4, <2>5, <2>6 DEF Pay
<1>6. ASSUME NEW k \in Keys, Revoke(k) PROVE Inv'
  <2>1. 0 \in Lasts BY DEF Lasts, Never
  <2> QED BY <1>6, <2>1 DEF Revoke
<1>7. ASSUME NEW r \in asked, Reply(r) PROVE Inv'
  <2>1. PICK answer \in {"none", IF paid[r.key] > 0 THEN "premium" ELSE "rejected"} :
          asked' = (asked \ {r}) \cup
            {[r EXCEPT !.answer = answer,
                       !.left = IF answer = "premium" THEN paid[r.key] ELSE 0]}
        BY <1>7 DEF Reply
  <2> DEFINE new == [r EXCEPT !.answer = answer,
                              !.left = IF answer = "premium" THEN paid[r.key] ELSE 0]
  <2>2. r \in Requests /\ r.key \in Keys
        BY DEF Requests
  <2>3. answer \in Answers /\ (answer = "premium" => paid[r.key] > 0)
        BY <2>1 DEF Answers
  <2>4. new \in Requests /\ new.answer = answer /\ new.key = r.key
    <3>1. 0 \in Lasts BY DEF Lasts, Never
    <3>2. (IF answer = "premium" THEN paid[r.key] ELSE 0) \in Lasts
          BY <2>2, <3>1
    <3> QED BY <2>2, <2>3, <3>2 DEF Requests
  <2>5. \A s \in asked' : s \in asked \/ s = new
        BY <2>1
  <2>6. asked' \subseteq Requests
        BY <2>4, <2>5
  <2>7. \A s \in asked' : s.answer = "premium" => unpaid'[s.key] = 0
        BY <1>7, <2>2, <2>3, <2>4, <2>5 DEF Reply
  <2>8. new.answer = "premium" => new.left # 0
        BY <2>2, <2>3, <2>4 DEF Requests, Lasts, Never
  <2>9. \A s \in asked' : s.answer = "premium" => s.left # 0
        BY <2>5, <2>8
  <2> QED BY <1>7, <2>6, <2>7, <2>9 DEF Reply
<1>8. ASSUME NEW r \in asked, FinishActivate(r) \/ FinishRefresh(r) PROVE Inv'
  <2>1. Stored(r) \in Entitlements /\ Stored(r).key = r.key /\ Stored(r).age = 0
        BY DEF Stored, Requests, Entitlements
  <2>2. \/ cache' = cache
        \/ cache' = None
        \/ cache' = Stored(r) /\ r.answer = "premium"
        BY <1>8 DEF FinishActivate, FinishRefresh
  <2>3. NoOlderThanItsAge'
        BY <1>8, <2>1, <2>2 DEF FinishActivate, FinishRefresh
  <2>4. tried' \in BOOLEAN
        BY <1>8 DEF FinishActivate, FinishRefresh
  <2> QED BY <1>8, <2>1, <2>2, <2>3, <2>4 DEF FinishActivate, FinishRefresh
<1>9. CASE UNCHANGED vars
      BY <1>9 DEF vars
<1> QED BY <1>1, <1>2, <1>3, <1>4, <1>5, <1>6, <1>7, <1>8, <1>9 DEF Next

\* The variables stay in their types (licensing.py:108-128), for all constants.
THEOREM TypeCorrect == Spec => []TypeOK
<1>1. Inv => TypeOK BY DEF Inv
<1> QED BY InvInit, InvNext, <1>1, PTL DEF Spec

\* A licence that is no longer paid for opens the paid features for the grace period
\* and no longer (licensing.py:21-25, 118-122), for every number of licences, starts,
\* activations and failed requests.
THEOREM Backed == Spec => []PremiumIsBacked
<1>1. Inv => PremiumIsBacked
  <2> SUFFICES ASSUME Inv, IsPremium PROVE unpaid[cache.key] <= Grace
      BY DEF PremiumIsBacked
  <2>1. cache # None /\ ~(cache.age > Grace)
        BY DEF IsPremium, Entitlement, Free
  <2>2. cache \in Entitlements /\ unpaid[cache.key] <= cache.age
        BY <2>1 DEF Inv, TypeOK, NoOlderThanItsAge
  <2>3. cache.age \in Nat /\ unpaid[cache.key] \in Nat
        BY <2>2 DEF Inv, TypeOK, Entitlements
  <2> QED BY <2>1, <2>2, <2>3, LicensingAssumption
<1> QED BY InvInit, InvNext, <1>1, PTL DEF Spec

\* An entitlement that was just stored opens the paid features: it is this
\* machine's, new, and of a licence that has days left.
LEMMA StoredIsPremium ==
  ASSUME Inv, NEW r \in asked, r.answer = "premium", cache' = Stored(r),
         machine' = machine
  PROVE  IsPremium'
<1>1. r \in Requests /\ r.left # 0 /\ machine \in 0..MaxMoves
      BY DEF Inv, TypeOK, AnswersLast
<1>2. cache'.age = 0 /\ cache'.left = r.left /\ cache'.bound = machine'
      BY DEF Stored
<1>3. cache' # None
  <2>1. Stored(r) \in Entitlements
        BY <1>1, LicensingAssumption DEF Stored, Requests, Entitlements
  <2> QED BY <2>1, NoneAssumption
<1> QED BY <1>1, <1>2, <1>3, LicensingAssumption DEF IsPremium, Entitlement

\* What opens the paid features is taken away by time, by another machine or by a
\* rejection of the server, never by a request that failed nor by the activation of
\* another key (licensing.py:165-167, 238-276).
THEOREM OutagesRevokeNothing == Spec => OutageNeverRevokes
<1>1. ASSUME Inv, [Next]_vars, IsPremium, ~IsPremium'
      PROVE  Tick \/ Move \/ \E r \in asked : r.by = "refresh" /\ r.answer = "rejected"
  <2>1. ~UNCHANGED <<cache, machine>>
        BY <1>1 DEF IsPremium, Entitlement
  <2>2. CASE StartUp
        BY <2>1, <2>2 DEF StartUp
  <2>3. ASSUME NEW k \in Keys, Activate(k) \/ Pay(k) \/ Revoke(k) PROVE FALSE
        BY <2>1, <2>3 DEF Activate, Pay, Revoke
  <2>4. ASSUME NEW r \in asked, Reply(r) PROVE FALSE
        BY <2>1, <2>4 DEF Reply
  <2>5. ASSUME NEW r \in asked, FinishActivate(r) PROVE FALSE
        BY <1>1, <2>1, <2>5, StoredIsPremium DEF FinishActivate
  <2>6. ASSUME NEW r \in asked, FinishRefresh(r)
        PROVE  r.by = "refresh" /\ r.answer = "rejected"
        BY <1>1, <2>1, <2>6, StoredIsPremium DEF FinishRefresh
  <2>7. CASE UNCHANGED vars
        BY <2>1, <2>7 DEF vars
  <2> QED BY <1>1, <2>2, <2>3, <2>4, <2>5, <2>6, <2>7 DEF Next
<1>2. Inv /\ [Next]_vars =>
        [IsPremium /\ ~IsPremium' =>
           \/ Tick \/ Move
           \/ \E r \in asked : r.by = "refresh" /\ r.answer = "rejected"]_vars
      BY <1>1
<1> QED BY InvInit, InvNext, <1>2, PTL DEF Spec, OutageNeverRevokes

-----------------------------------------------------------------------------
(* The desktop process *)

\* Before the workers start there is nothing to stop, and no icon.
NothingYet ==
  /\ phase \in {"ended", "gate"} =>
       /\ todo = <<>> /\ joining = <<>> /\ window = "none"
       /\ tray = "unavailable" /\ ~started
  /\ phase = "gate" => db = "open" /\ ~icon
  /\ ~started => tray \in {"unavailable", "ready"}

\* A worker that has ended, or that nobody waits for any more.
Settled(w) == w \in waived \/ at[w] \in {"none", "ended"}

\* It is, or is being waited for.
InLine(w, joins) == \E n \in 1..Len(joins) : joins[n] = w
Awaited(w) == Settled(w) \/ InLine(w, joining)

\* A call is made only when the workers that it comes after have been dealt with.
StoppedInOrder ==
  /\ todo # <<>> =>
       /\ todo[1] \in {"stop sync", "close database", "destroy window"} =>
            \A w \in MonitorThreads : Awaited(w)
       /\ todo[1] \in {"close database", "destroy window"} =>
            \A w \in SyncThreads : Awaited(w)
  /\ window = "destroyed" => \A w \in SyncThreads : Settled(w)
  /\ todo \in {CleanupWithTray, CleanupCalls} => window = "destroyed"
  /\ phase # "ended" /\ db = "closed" => \A w \in Workers : Settled(w)

\* What is left of the cleanup while the icon is still to be stopped.
BeforeTray == {CleanupWithTray, <<"close database", "stop tray">>, <<"stop tray">>}

\* Once it has been stopped there is no icon, and none can come, but for the three
\* cases of left; before, the icon is where its thread says it is.
TrayStopped ==
  /\ added => tray = "pumping"
  /\ icon /\ phase # "ended" => tray \in {"adding", "pumping", "over"}
  /\ phase = "cleanup" /\ todo \notin BeforeTray =>
       left \/ (~icon /\ tray \notin {"entering", "adding"})

\* What every step keeps.
ProcessInv == ProcessTypeOK /\ NothingYet /\ StoppedInOrder /\ TrayStopped /\ IconIsOwned

\* The provers know Tail best one length at a time.
LEMMA TailOfOne == ASSUME NEW a PROVE Tail(<<a>>) = <<>> /\ <<a>>[1] = a /\ <<a>> # <<>>
OBVIOUS

\* ... of two,
LEMMA TailOfTwo ==
  ASSUME NEW a, NEW b
  PROVE  Tail(<<a, b>>) = <<b>> /\ <<a, b>>[1] = a /\ <<a, b>> # <<>>
<1>1. Tail(<<a, b>>) = <<b>> OBVIOUS
<1>2. <<a, b>>[1] = a /\ <<a, b>> # <<>> OBVIOUS
<1>3. QED BY <1>1, <1>2

\* ... three,
LEMMA TailOfThree ==
  ASSUME NEW a, NEW b, NEW c
  PROVE  Tail(<<a, b, c>>) = <<b, c>> /\ <<a, b, c>>[1] = a /\ <<a, b, c>> # <<>>
<1>1. Tail(<<a, b, c>>) = <<b, c>> OBVIOUS
<1>2. <<a, b, c>>[1] = a /\ <<a, b, c>> # <<>> OBVIOUS
<1>3. QED BY <1>1, <1>2

\* ... and four.
LEMMA TailOfFour ==
  ASSUME NEW a, NEW b, NEW c, NEW d
  PROVE  Tail(<<a, b, c, d>>) = <<b, c, d>> /\ <<a, b, c, d>>[1] = a /\ <<a, b, c, d>> # <<>>
<1>1. Tail(<<a, b, c, d>>) = <<b, c, d>> OBVIOUS
<1>2. <<a, b, c, d>>[1] = a /\ <<a, b, c, d>> # <<>> OBVIOUS
<1>3. QED BY <1>1, <1>2

\* What a call leaves to be done.
LEMMA TodoAfter ==
  ASSUME todo \in LeftToDo, todo # <<>>
  PROVE  /\ Tail(todo) \in LeftToDo
         /\ Tail(todo) # <<>> => Tail(todo)[1] # "stop monitor"
         /\ todo[1] \in {"stop monitor", "stop sync", "close database", "destroy window",
                         "stop tray"}
         /\ todo[1] = "stop monitor" =>
              /\ Tail(todo) = <<>> \/ Tail(todo)[1] \in {"stop sync", "close database"}
              /\ Tail(todo) # <<>> /\ Tail(todo)[1] = "close database" =>
                   todo \in {CleanupWithTray, CleanupCalls}
         /\ todo[1] = "stop sync" => Tail(todo)[1] = "close database"
         /\ todo[1] \in {"close database", "destroy window", "stop tray"} =>
              \/ Tail(todo) = <<>>
              \/ Tail(todo)[1] = "destroy window" /\ todo[1] = "close database"
              \/ Tail(todo)[1] = "stop tray"
<1>1. CASE todo = QuitCalls
  <2>1. Tail(QuitCalls) = <<"stop sync", "close database", "destroy window">>
    <3>1. \A a, b, c, d : QuitCalls = <<a, b, c, d>> => Tail(QuitCalls) = <<b, c, d>>
      BY TailOfFour
    <3>2. QuitCalls = <<"stop monitor", "stop sync", "close database", "destroy window">>
      BY DEF QuitCalls
    <3>3. QED BY <3>1, <3>2, Zenon
  <2>2. QuitCalls[1] = "stop monitor" BY DEF QuitCalls
  <2>3. \A b, c : <<"stop sync", b, c>>[1] = "stop sync" /\ <<"stop sync", b, c>> # <<>>
    BY TailOfThree
  <2>4. Tail(todo) \in LeftToDo BY <1>1, <2>1 DEF LeftToDo
  <2>5. Tail(todo)[1] = "stop sync" /\ Tail(todo) # <<>> BY <1>1, <2>1, <2>3
  <2>6. QED BY <1>1, <2>2, <2>4, <2>5
<1>2. CASE todo = <<"stop sync", "close database", "destroy window">>
  <2>1. Tail(todo) = <<"close database", "destroy window">> /\ todo[1] = "stop sync"
    BY <1>2, TailOfThree
  <2>2. Tail(todo)[1] = "close database" /\ Tail(todo) # <<>>
    BY <2>1, TailOfTwo
  <2>3. Tail(todo) \in LeftToDo BY <2>1 DEF LeftToDo
  <2>4. QED BY <2>1, <2>2, <2>3
<1>3. CASE todo = CleanupWithTray
  <2>1. Tail(todo) = <<"close database", "stop tray">> /\ todo[1] = "stop monitor"
    BY <1>3, TailOfThree DEF CleanupWithTray
  <2>2. Tail(todo)[1] = "close database" /\ Tail(todo) # <<>>
    BY <2>1, TailOfTwo
  <2>3. Tail(todo) \in LeftToDo BY <2>1 DEF LeftToDo
  <2>4. QED BY <2>1, <2>2, <2>3, <1>3
<1>4. CASE todo = CleanupCalls
  <2>1. Tail(todo) = <<"close database">> /\ todo[1] = "stop monitor"
    BY <1>4, TailOfTwo DEF CleanupCalls
  <2>2. Tail(todo)[1] = "close database" /\ Tail(todo) # <<>>
    BY <2>1, TailOfOne
  <2>3. Tail(todo) \in LeftToDo BY <2>1 DEF LeftToDo
  <2>4. QED BY <2>1, <2>2, <2>3, <1>4
<1>5. CASE todo = <<"close database", "destroy window">>
  <2>1. Tail(todo) = <<"destroy window">> /\ todo[1] = "close database"
    BY <1>5, TailOfTwo
  <2>2. Tail(todo)[1] = "destroy window" BY <2>1, TailOfOne
  <2>3. Tail(todo) \in LeftToDo BY <2>1 DEF LeftToDo
  <2>4. QED BY <2>1, <2>2, <2>3
<1>6. CASE todo = <<"close database", "stop tray">>
  <2>1. Tail(todo) = <<"stop tray">> /\ todo[1] = "close database"
    BY <1>6, TailOfTwo
  <2>2. Tail(todo)[1] = "stop tray" BY <2>1, TailOfOne
  <2>3. Tail(todo) \in LeftToDo BY <2>1 DEF LeftToDo
  <2>4. QED BY <2>1, <2>2, <2>3
<1>7. CASE \E call \in {"stop monitor", "destroy window", "stop tray", "close database"} :
             todo = <<call>>
  <2>1. PICK call \in {"stop monitor", "destroy window", "stop tray", "close database"} :
          todo = <<call>>
    BY <1>7
  <2>2. Tail(todo) = <<>> /\ todo[1] = call BY <2>1, TailOfOne
  <2>3. Tail(todo) \in LeftToDo BY <2>2 DEF LeftToDo
  <2>4. QED BY <2>2, <2>3
<1>8. QED
  <2>1. todo \in LeftToDo /\ todo # <<>> OBVIOUS
  <2>2. QED BY <1>1, <1>2, <1>3, <1>4, <1>5, <1>6, <1>7, <2>1 DEF LeftToDo

\* The cleanup begins with the monitor.
LEMMA CleanupFirst ==
  /\ <<>> \notin {QuitCalls, CleanupWithTray, CleanupCalls}
  /\ QuitCalls[1] = "stop monitor" /\ CleanupWithTray[1] = "stop monitor"
  /\ CleanupCalls[1] = "stop monitor"
  /\ {<<>>, <<"stop monitor">>, QuitCalls, CleanupWithTray, CleanupCalls} \subseteq LeftToDo
  /\ <<"stop monitor">>[1] = "stop monitor"
<1>1. QuitCalls # <<>> /\ QuitCalls[1] = "stop monitor" BY TailOfFour DEF QuitCalls
<1>2. CleanupWithTray # <<>> /\ CleanupWithTray[1] = "stop monitor"
  BY TailOfThree DEF CleanupWithTray
<1>3. CleanupCalls # <<>> /\ CleanupCalls[1] = "stop monitor" BY TailOfTwo DEF CleanupCalls
<1>4. {<<>>, <<"stop monitor">>, QuitCalls, CleanupWithTray, CleanupCalls} \subseteq LeftToDo
  BY DEF LeftToDo
<1>5. <<"stop monitor">>[1] = "stop monitor" OBVIOUS
<1>6. QED BY <1>1, <1>2, <1>3, <1>4, <1>5

\* The stop of the icon comes, and it is the last call.
LEMMA TrayComes ==
  /\ todo \in BeforeTray => todo[1] = "stop tray" \/ Tail(todo) \in BeforeTray
  /\ <<>> \notin BeforeTray
<1>1. CASE todo = CleanupWithTray
  <2>1. Tail(todo) = <<"close database", "stop tray">> BY <1>1, TailOfThree DEF CleanupWithTray
  <2>2. QED BY <2>1, TailOfTwo, TailOfOne, CleanupFirst DEF BeforeTray
<1>2. CASE todo = <<"close database", "stop tray">>
  <2>1. Tail(todo) = <<"stop tray">> BY <1>2, TailOfTwo
  <2>2. QED BY <2>1, TailOfTwo, TailOfOne, CleanupFirst DEF BeforeTray
<1>3. CASE todo = <<"stop tray">>
  BY <1>3, TailOfTwo, TailOfOne, CleanupFirst DEF BeforeTray
<1>4. CASE todo \notin BeforeTray
  BY <1>4, TailOfTwo, TailOfOne, CleanupFirst DEF BeforeTray
<1>5. QED BY <1>1, <1>2, <1>3, <1>4 DEF BeforeTray

\* What do_quit() and a withdrawal begin with is not the cleanup.
LEMMA NotCleanup ==
  {<<>>, <<"stop monitor">>, QuitCalls} \cap {CleanupWithTray, CleanupCalls} = {}
<1>1. Len(<<"stop monitor">>) = 1 /\ Len(<<>>) = 0 OBVIOUS
<1>2. Len(QuitCalls) = 4 BY DEF QuitCalls
<1>3. Len(CleanupCalls) = 2 BY DEF CleanupCalls
<1>4. Len(CleanupWithTray) = 3 BY DEF CleanupWithTray
<1>5. QED BY <1>1, <1>2, <1>3, <1>4

\* The process begins in the invariant.
LEMMA InitProcess == ProcessInit => ProcessInv
<1>1. ASSUME ProcessInit PROVE ProcessTypeOK
  BY <1>1, CleanupFirst DEF ProcessInit, ProcessTypeOK, TraySteps, LeftToJoin
<1>2. ASSUME ProcessInit PROVE NothingYet /\ StoppedInOrder /\ TrayStopped /\ IconIsOwned
  BY <1>2, CleanupFirst DEF ProcessInit, NothingYet, StoppedInOrder, TrayStopped, IconIsOwned
<1>3. QED BY <1>1, <1>2 DEF ProcessInv


\* What a join leaves to be joined.
LEMMA JoinAfter ==
  ASSUME joining \in LeftToJoin, joining # <<>>
  PROVE  /\ Tail(joining) \in LeftToJoin /\ joining[1] \in Workers
         /\ \A w : InLine(w, joining) => w = joining[1] \/ InLine(w, Tail(joining))
<1>1. CASE joining = <<"monitor", "killer">>
  <2>1. Tail(joining) = <<"killer">> /\ joining[1] = "monitor" BY <1>1, TailOfTwo
  <2>2. ASSUME NEW w, InLine(w, joining) PROVE w = "monitor" \/ w = "killer"
    BY <1>1, <2>2 DEF InLine
  <2>3. InLine("killer", <<"killer">>) BY DEF InLine
  <2>4. QED BY <2>1, <2>2, <2>3 DEF LeftToJoin, Workers, MonitorThreads, SyncThreads
<1>2. CASE \E u \in {"killer", "sync"} : joining = <<u>>
  <2>1. PICK u \in {"killer", "sync"} : joining = <<u>> BY <1>2
  <2>2. Tail(joining) = <<>> /\ joining[1] = u BY <2>1, TailOfOne
  <2>3. ASSUME NEW w, InLine(w, joining) PROVE w = u
    BY <2>1, <2>3 DEF InLine
  <2>4. QED BY <2>2, <2>3 DEF LeftToJoin, Workers, MonitorThreads, SyncThreads
<1>3. QED BY <1>1, <1>2 DEF LeftToJoin

\* With nothing to join nobody is in line,
LEMMA NobodyInLine == \A w : ~InLine(w, <<>>)
BY DEF InLine

\* and the two stop()s put their own threads there.
LEMMA MonitorInLine ==
  /\ <<"monitor", "killer">> # <<>>
  /\ \A w \in MonitorThreads : InLine(w, <<"monitor", "killer">>)
<1>1. <<"monitor", "killer">> # <<>> BY TailOfTwo
<1>2. InLine("monitor", <<"monitor", "killer">>)
  <2>1. 1 \in 1..Len(<<"monitor", "killer">>) OBVIOUS
  <2>2. <<"monitor", "killer">>[1] = "monitor" OBVIOUS
  <2>3. QED BY <2>1, <2>2 DEF InLine
<1>3. InLine("killer", <<"monitor", "killer">>)
  <2>1. 2 \in 1..Len(<<"monitor", "killer">>) OBVIOUS
  <2>2. <<"monitor", "killer">>[2] = "killer" OBVIOUS
  <2>3. QED BY <2>1, <2>2 DEF InLine
<1>4. QED BY <1>1, <1>2, <1>3 DEF MonitorThreads

\* (SyncClient.stop())
LEMMA SyncInLine ==
  <<"sync">> # <<>> /\ \A w \in SyncThreads : InLine(w, <<"sync">>)
<1>1. <<"sync">> # <<>> BY TailOfOne
<1>2. 1 \in 1..Len(<<"sync">>) /\ <<"sync">>[1] = "sync" OBVIOUS
<1>3. QED BY <1>1, <1>2 DEF InLine, SyncThreads


\* The steps of a worker.
LEMMA WorkerKeeps ==
  ASSUME ProcessInv, NEW w \in Workers, Worker(w)
  PROVE  ProcessInv'
<1>1. PICK s \in {"idle", "working", "calling", "ended"} :
        at' = [at EXCEPT ![w] = s] /\ at[w] \notin {"none", "ended"}
        /\ (s = "calling" => at[w] = "working")
  BY DEF Worker, TakeCall, Work, Call, Rest, EndWorker
<1>2. UNCHANGED <<shutdown, stop, notifyArea>>
  BY DEF Worker, TakeCall, Work, Call, Rest, EndWorker
<1>3. \A u \in Workers : (at'[u] = "none") <=> (at[u] = "none")
  BY <1>1 DEF ProcessInv, ProcessTypeOK
<1>4. \A u \in Workers : Settled(u) => Settled(u)'
  BY <1>1, <1>2 DEF ProcessInv, ProcessTypeOK, Settled, shutdown
<1>5. ProcessTypeOK'
  BY <1>1, <1>2, <1>3 DEF ProcessInv, ProcessTypeOK, shutdown, notifyArea
<1>6. NothingYet'
  BY <1>2 DEF ProcessInv, NothingYet, shutdown, notifyArea
<1>7. \A u \in Workers : Awaited(u) => Awaited(u)'
  BY <1>2, <1>4 DEF Awaited, shutdown
<1>8. StoppedInOrder'
  BY <1>2, <1>4, <1>7 DEF ProcessInv, StoppedInOrder, shutdown, Workers
<1>9. IconIsOwned' /\ TrayStopped'
  BY <1>2 DEF ProcessInv, IconIsOwned, TrayStopped, shutdown, notifyArea
<1>10. QED BY <1>5, <1>6, <1>8, <1>9 DEF ProcessInv

\* What the icon's thread and the user do to the icon and the window.
LEMMA IconKeeps ==
  ASSUME ProcessInv,
         \/ Icon \/ Click("show") \/ Click("quit")
  PROVE  ProcessInv'
<1>1. UNCHANGED <<shutdown, workers>>
  BY DEF Icon, AddIcon, AddFails, BeginPumping, EndPumping, Click
<1>2. ProcessTypeOK'
  <2>1. tray' \in TraySteps
    BY DEF ProcessInv, ProcessTypeOK, TraySteps, Icon, AddIcon, AddFails, BeginPumping,
           EndPumping, Click
  <2>2. /\ icon' \in BOOLEAN /\ added' \in BOOLEAN /\ left' \in BOOLEAN
        /\ stopping' = stopping /\ started' = started
        /\ click' \in {click, "show", "quit"}
    BY DEF ProcessInv, ProcessTypeOK, Icon, AddIcon, AddFails, BeginPumping, EndPumping, Click,
           RemoveIcon
  <2>3. QED BY <1>1, <2>1, <2>2 DEF ProcessInv, ProcessTypeOK, shutdown, workers
<1>3. NothingYet'
  BY <1>1 DEF ProcessInv, NothingYet, Icon, AddIcon, AddFails, BeginPumping, EndPumping, Click,
              shutdown, workers
<1>4. StoppedInOrder'
  BY <1>1 DEF ProcessInv, StoppedInOrder, Settled, Awaited, shutdown, workers
<1>5. IconIsOwned'
  BY <1>1 DEF ProcessInv, ProcessTypeOK, IconIsOwned, Icon, AddIcon, AddFails, BeginPumping,
              EndPumping, Click, RemoveIcon, NothingYet, TrayStopped,
              shutdown
<1>6. TrayStopped'
  BY <1>1 DEF ProcessInv, ProcessTypeOK, TrayStopped, NothingYet, Icon, AddIcon, AddFails,
              BeginPumping, EndPumping, Click, RemoveIcon, shutdown
<1>7. QED BY <1>2, <1>3, <1>4, <1>5, <1>6 DEF ProcessInv


\* What the user and the Tk thread do in the main loop, or before it.
LEMMA UserKeeps ==
  ASSUME ProcessInv,
         \/ OpenDatabase \/ Decline \/ Enter \/ ReturnFromMain
         \/ PressQuit \/ WithdrawConsent \/ CloseWindow \/ DestroyedOutside \/ TakeClick
  PROVE  ProcessInv'
<1>1. CASE OpenDatabase
  <2>1. ProcessTypeOK'
    BY <1>1 DEF OpenDatabase, NoIcon, ProcessInv, ProcessTypeOK, TraySteps, workers
  <2>2. NothingYet' /\ IconIsOwned' /\ TrayStopped'
    BY <1>1 DEF OpenDatabase, NoIcon, ProcessInv, NothingYet, IconIsOwned, TrayStopped
  <2>3. StoppedInOrder'
    BY <1>1, CleanupFirst DEF OpenDatabase, NoIcon, ProcessInv, NothingYet, StoppedInOrder
  <2>4. QED BY <2>1, <2>2, <2>3 DEF ProcessInv
<1>2. CASE Decline \/ ReturnFromMain
  <2>0. Exit BY <1>2 DEF Decline, ReturnFromMain
  <2>1. ProcessTypeOK'
    BY <2>0, CleanupFirst DEF Exit, ProcessInv, ProcessTypeOK, TraySteps, LeftToJoin
  <2>2. NothingYet' /\ IconIsOwned' /\ TrayStopped'
    BY <1>2, <2>0, TrayComes
       DEF Exit, Decline, ReturnFromMain, ProcessInv, NothingYet, IconIsOwned, TrayStopped
  <2>3. StoppedInOrder'
    BY <2>0, CleanupFirst DEF Exit, StoppedInOrder
  <2>4. QED BY <2>1, <2>2, <2>3 DEF ProcessInv
<1>3. CASE Enter
  <2>1. ProcessTypeOK'
    BY <1>3 DEF Enter, ProcessInv, ProcessTypeOK, TraySteps, Workers, MonitorThreads
  <2>2. NothingYet' /\ IconIsOwned' /\ TrayStopped'
    BY <1>3 DEF Enter, ProcessInv, NothingYet, IconIsOwned, TrayStopped
  <2>3. StoppedInOrder'
    BY <1>3, CleanupFirst DEF Enter, ProcessInv, NothingYet, StoppedInOrder
  <2>4. QED BY <2>1, <2>2, <2>3 DEF ProcessInv
<1>4. CASE PressQuit \/ WithdrawConsent \/ TakeClick
  <2>1. /\ todo' \in {todo, QuitCalls, <<"stop monitor">>} /\ phase = "running" /\ InLoop
        /\ window' \in {window, "shown"} /\ quit' \in {quit, TRUE} /\ click' \in {click, "nothing"}
        /\ UNCHANGED <<phase, joining, db, waived, at, stop, tray, started, icon, added, left,
                      stopping>>
    BY <1>4 DEF PressQuit, WithdrawConsent, TakeClick, DoQuit, InLoop, workers, notifyArea
  <2>2. todo' \in LeftToDo BY <2>1, CleanupFirst DEF ProcessInv, ProcessTypeOK
  <2>3. ProcessTypeOK'
    <3>1. stop' \subseteq Workers /\ quit' \in BOOLEAN
      BY <2>1 DEF ProcessInv, ProcessTypeOK
    <3>2. QED BY <2>1, <2>2, <3>1, Zenon DEF ProcessInv, ProcessTypeOK
  <2>4. NothingYet' /\ IconIsOwned' /\ TrayStopped'
    BY <2>1 DEF ProcessInv, NothingYet, IconIsOwned, TrayStopped
  <2>5. StoppedInOrder'
    <3>1. todo' = <<>> \/ todo'[1] = "stop monitor" BY <2>1, CleanupFirst DEF InLoop
    <3>2. todo' \notin {CleanupWithTray, CleanupCalls}
      BY <2>1, NotCleanup DEF InLoop
    <3>3. window' # "destroyed" BY <2>1 DEF InLoop
    <3>4. \A w \in Workers : Settled(w) => Settled(w)' BY <2>1 DEF Settled
    <3>5. QED BY <2>1, <3>1, <3>2, <3>3, <3>4 DEF ProcessInv, StoppedInOrder
  <2>6. QED BY <2>3, <2>4, <2>5 DEF ProcessInv
<1>5. CASE CloseWindow
  <2>1. ProcessTypeOK'
    BY <1>5 DEF CloseWindow, InLoop, ProcessInv, ProcessTypeOK, TraySteps, workers
  <2>2. NothingYet' /\ IconIsOwned' /\ TrayStopped'
    BY <1>5 DEF CloseWindow, InLoop, ProcessInv, NothingYet, IconIsOwned, TrayStopped
  <2>3. StoppedInOrder'
    BY <1>5, CleanupFirst DEF CloseWindow, InLoop, ProcessInv, StoppedInOrder,
           Settled, SyncThreads, workers
  <2>4. QED BY <2>1, <2>2, <2>3 DEF ProcessInv
<1>6. CASE DestroyedOutside
  <2>1. ProcessTypeOK'
    BY <1>6 DEF DestroyedOutside, InLoop, ProcessInv, ProcessTypeOK, Workers, SyncThreads,
           workers, notifyArea
  <2>2. NothingYet' /\ IconIsOwned' /\ TrayStopped'
    BY <1>6 DEF DestroyedOutside, InLoop, ProcessInv, NothingYet, IconIsOwned, TrayStopped, notifyArea
  <2>3. StoppedInOrder'
    BY <1>6, CleanupFirst DEF DestroyedOutside, InLoop, ProcessInv, StoppedInOrder,
           Settled, SyncThreads, workers
  <2>4. QED BY <2>1, <2>2, <2>3 DEF ProcessInv
<1>7. QED BY <1>1, <1>2, <1>3, <1>4, <1>5, <1>6


\* A join returns: the one waited for is settled, the others wait in line.
LEMMA JoinedKeeps ==
  ASSUME ProcessInv, Joined
  PROVE  ProcessInv'
<1>1. /\ joining[1] \in Workers
      /\ \A w : InLine(w, joining) => w = joining[1] \/ InLine(w, joining')
      /\ UNCHANGED <<phase, todo, window, db, quit, at, stop, notifyArea>>
      /\ joining' \in LeftToJoin /\ phase \notin {"ended", "gate"}
  BY JoinAfter DEF Joined, NothingYet, ProcessInv, ProcessTypeOK, workers
<1>2. /\ waived \subseteq waived' /\ waived' \subseteq Workers
      /\ at[joining[1]] \in {"none", "ended"} \/ joining[1] \in waived'
  BY <1>1 DEF Joined, ProcessInv, ProcessTypeOK
<1>3. \A w \in Workers : /\ Settled(w) => Settled(w)'
                         /\ Awaited(w) => Awaited(w)'
  BY <1>1, <1>2 DEF Settled, Awaited
<1>4. ProcessTypeOK'
  BY <1>1, <1>2 DEF ProcessInv, ProcessTypeOK, notifyArea
<1>5. NothingYet' /\ IconIsOwned' /\ TrayStopped'
  BY <1>1 DEF ProcessInv, NothingYet, IconIsOwned, TrayStopped, notifyArea
<1>6. StoppedInOrder'
  BY <1>1, <1>3 DEF ProcessInv, StoppedInOrder, Workers
<1>7. QED BY <1>4, <1>5, <1>6 DEF ProcessInv

\* A call is made, or raises: what it leaves to be done follows on it.
LEMMA CallKeeps ==
  ASSUME ProcessInv,
         StopMonitor \/ StopSync \/ CloseDatabase \/ DestroyWindow \/ StopTray \/ CallFails
  PROVE  ProcessInv'
<1>0. todo # <<>> /\ (\A w : ~InLine(w, joining)) /\ joining \in LeftToJoin
  BY NobodyInLine DEF StopMonitor, StopSync, CloseDatabase, DestroyWindow, StopTray, CallFails,
     Step, ProcessInv, ProcessTypeOK
<1>1. todo' = Tail(todo)
  BY DEF StopMonitor, StopSync, CloseDatabase, DestroyWindow, StopTray, CallFails, Step
<1>2. UNCHANGED <<phase, at, tray, started, click>>
  BY DEF StopMonitor, StopSync, CloseDatabase, DestroyWindow, StopTray, CallFails, workers,
         notifyArea
<1>3. waived \subseteq waived' /\ waived' \subseteq Workers
  BY DEF StopMonitor, StopSync, CloseDatabase, DestroyWindow, StopTray, CallFails, ProcessInv,
         ProcessTypeOK, Workers, MonitorThreads, SyncThreads
<1>4. phase \notin {"ended", "gate"} BY <1>0 DEF ProcessInv, NothingYet
<1>5. joining' \in LeftToJoin
  BY <1>0 DEF StopMonitor, StopSync, CloseDatabase, DestroyWindow, StopTray, CallFails, LeftToJoin
<1>6. ProcessTypeOK'
  <2>1. todo' \in LeftToDo BY <1>0, <1>1, TodoAfter DEF ProcessInv, ProcessTypeOK
  <2>2. /\ stop' \subseteq Workers /\ window' \in {window, "destroyed"}
        /\ db' \in {"open", "closed"} /\ quit' \in BOOLEAN
    BY DEF StopMonitor, StopSync, CloseDatabase, DestroyWindow, StopTray, CallFails, ProcessInv,
           ProcessTypeOK, Workers, MonitorThreads, SyncThreads, workers
  <2>3. icon' \in BOOLEAN /\ added' \in BOOLEAN /\ stopping' \in BOOLEAN /\ left' \in BOOLEAN
    BY DEF RemoveIcon, StopMonitor, StopSync, CloseDatabase, DestroyWindow, StopTray, CallFails, ProcessInv,
           ProcessTypeOK, notifyArea
  <2>4. QED BY <1>2, <1>3, <1>5, <2>1, <2>2, <2>3 DEF ProcessInv, ProcessTypeOK
<1>7. NothingYet'
  BY <1>2, <1>4 DEF ProcessInv, NothingYet
<1>8. IconIsOwned' /\ TrayStopped'
  <2>1. CASE StopTray
    <3>1. /\ icon' => icon /\ left'
          /\ tray \in {"entering", "adding"} => left'
          /\ ~added'
      BY <2>1 DEF StopTray, RemoveIcon
    <3>2. QED BY <3>1, <1>2, <1>4 DEF ProcessInv, IconIsOwned, TrayStopped
  <2>2. CASE CallFails /\ todo[1] = "stop tray"
    BY <2>2, <1>2, <1>4 DEF CallFails, ProcessInv, IconIsOwned, TrayStopped
  <2>3. CASE ~StopTray /\ ~(CallFails /\ todo[1] = "stop tray")
    <3>1. /\ UNCHANGED <<icon, added>> /\ left \in BOOLEAN /\ left' = left
          /\ todo[1] # "stop tray"
      BY <2>3, <1>0 DEF StopMonitor, StopSync, CloseDatabase, DestroyWindow, CallFails, Step,
         ProcessInv, ProcessTypeOK, notifyArea
    <3>2. todo' \notin BeforeTray => todo \notin BeforeTray
      BY <1>1, <3>1, TrayComes
    <3>3. QED BY <3>1, <3>2, <1>2 DEF ProcessInv, IconIsOwned, TrayStopped
  <2>4. QED BY <2>1, <2>2, <2>3
<1>9. \A w \in Workers : /\ Settled(w) => Settled(w)'
                         /\ Awaited(w) => Settled(w)
  BY <1>0, <1>2, <1>3 DEF Settled, Awaited
<1>10. /\ todo[1] = "stop monitor" => \A w \in MonitorThreads : Awaited(w)'
       /\ todo[1] = "stop sync" => \A w \in SyncThreads : Awaited(w)'
  <2>1. CASE StopMonitor
    BY <2>1, MonitorInLine DEF StopMonitor, Step, Awaited
  <2>2. CASE StopSync
    BY <2>2, SyncInLine DEF StopSync, Step, Awaited
  <2>3. CASE CallFails
    <3>1. todo[1] = "stop monitor" => MonitorThreads \subseteq waived'
      BY <2>3 DEF CallFails
    <3>2. todo[1] = "stop sync" => SyncThreads \subseteq waived'
      BY <2>3 DEF CallFails, SyncThreads
    <3>3. QED BY <3>1, <3>2 DEF Awaited, Settled
  <2>4. CASE CloseDatabase \/ DestroyWindow \/ StopTray
    BY <2>4 DEF CloseDatabase, DestroyWindow, StopTray, Step
  <2>5. QED BY <2>1, <2>2, <2>3, <2>4
<1>11. window' # window => todo[1] = "destroy window"
  BY DEF StopMonitor, StopSync, CloseDatabase, DestroyWindow, StopTray, CallFails, Step
<1>12. db' # db => todo[1] = "close database"
  BY DEF StopMonitor, StopSync, CloseDatabase, DestroyWindow, StopTray, CallFails, Step
<1>13. StoppedInOrder'
  <2>1. todo' \notin {CleanupWithTray, CleanupCalls}
    BY <1>0, <1>1, TodoAfter, CleanupFirst DEF ProcessInv, ProcessTypeOK
  <2>2. window' = "destroyed" => \A w \in SyncThreads : Settled(w)'
    BY <1>0, <1>9, <1>11 DEF ProcessInv, StoppedInOrder, Workers
  <2>3. db' = "closed" => \A w \in Workers : Settled(w)'
    BY <1>0, <1>4, <1>9, <1>12 DEF ProcessInv, StoppedInOrder, Workers
  <2>4. ASSUME todo' # <<>>, todo'[1] \in {"stop sync", "close database", "destroy window"}
        PROVE  \A w \in MonitorThreads : Awaited(w)'
    <3>1. todo[1] \in {"stop monitor", "stop sync", "close database"}
      BY <1>0, <1>1, <2>4, TodoAfter DEF ProcessInv, ProcessTypeOK
    <3>2. todo[1] # "stop monitor" => \A w \in MonitorThreads : Settled(w)'
      BY <1>0, <1>9, <3>1 DEF ProcessInv, StoppedInOrder, Workers
    <3>3. QED BY <1>10, <3>2 DEF Awaited
  <2>5. ASSUME todo' # <<>>, todo'[1] \in {"close database", "destroy window"}
        PROVE  \A w \in SyncThreads : Awaited(w)'
    <3>1. \/ todo[1] \in {"stop sync", "close database"}
          \/ todo[1] = "stop monitor" /\ todo \in {CleanupWithTray, CleanupCalls}
      BY <1>0, <1>1, <2>5, TodoAfter DEF ProcessInv, ProcessTypeOK
    <3>2. todo[1] # "stop sync" => \A w \in SyncThreads : Settled(w)'
      BY <1>0, <1>9, <3>1 DEF ProcessInv, StoppedInOrder, Workers
    <3>3. QED BY <1>10, <3>2 DEF Awaited
  <2>6. QED BY <2>1, <2>2, <2>3, <2>4, <2>5 DEF StoppedInOrder
<1>14. QED BY <1>6, <1>7, <1>8, <1>13 DEF ProcessInv

\* mainloop() returns: the window is gone, so the sync has been dealt with.
LEMMA LeaveKeeps ==
  ASSUME ProcessInv, LeaveLoop
  PROVE  ProcessInv'
<1>1. todo' \in {CleanupWithTray, CleanupCalls} /\ window' = "destroyed"
  BY DEF LeaveLoop
<1>2. todo'[1] = "stop monitor" /\ todo' \in LeftToDo
  BY <1>1, CleanupFirst
<1>3. ProcessTypeOK' BY <1>2 DEF LeaveLoop, ProcessInv, ProcessTypeOK, workers, notifyArea
<1>4. NothingYet' /\ IconIsOwned' /\ TrayStopped'
  BY DEF LeaveLoop, ProcessInv, NothingYet, IconIsOwned, TrayStopped, BeforeTray, notifyArea
<1>5. \A w \in Workers : Settled(w) => Settled(w)'
  BY DEF LeaveLoop, Settled, workers
<1>6. StoppedInOrder'
  BY <1>1, <1>2, <1>5 DEF LeaveLoop, ProcessInv, StoppedInOrder, Workers
<1>7. QED BY <1>3, <1>4, <1>6 DEF ProcessInv

\* ... and every step of it keeps it.
LEMMA NextProcess == ProcessInv /\ [ProcessNext]_process => ProcessInv'
<1>1. ASSUME ProcessInv, ProcessNext PROVE ProcessInv'
  BY <1>1, WorkerKeeps, IconKeeps, UserKeeps, JoinedKeeps, CallKeeps, LeaveKeeps
     DEF ProcessNext, Shutdown, User
<1>2. ASSUME ProcessInv, UNCHANGED process PROVE ProcessInv'
  <2>1. UNCHANGED <<phase, todo, joining, window, db, quit, waived, at, stop>>
    BY <1>2 DEF process, shutdown, workers
  <2>2. UNCHANGED <<tray, started, icon, added, left, stopping, click>>
    BY <1>2 DEF process, notifyArea
  <2>3. ProcessTypeOK' BY <1>2, <2>1, <2>2 DEF ProcessInv, ProcessTypeOK
  <2>4. NothingYet' /\ IconIsOwned' /\ TrayStopped'
    BY <1>2, <2>1, <2>2 DEF ProcessInv, NothingYet, IconIsOwned, TrayStopped
  <2>5. StoppedInOrder'
    BY <1>2, <2>1 DEF ProcessInv, StoppedInOrder, Settled, Awaited
  <2>6. QED BY <2>3, <2>4, <2>5 DEF ProcessInv
<1>3. QED BY <1>1, <1>2

\* The inductive invariant of the desktop process.
THEOREM ProcessInvariant == FairSpec => []ProcessInv
BY InitProcess, NextProcess, PTL DEF FairSpec

\* Nothing leaves its type, and what the Tk thread has still to do is a rest of one
\* of its three lists of calls (main.py).
THEOREM ProcessTypeCorrect == FairSpec => []ProcessTypeOK
<1>1. ProcessInv => ProcessTypeOK BY DEF ProcessInv
<1>2. QED BY <1>1, ProcessInvariant, PTL

\* do_quit() and the cleanup close the database (main.py:146-148) only when each
\* worker has ended, could not be stopped, or outlasted its join(): whatever fails,
\* and whichever way the window goes, no other worker is at work on a closed one.
THEOREM NoWorkOnClosedDatabase == FairSpec => []ClosedAfterUse
<1>1. ProcessInv => ClosedAfterUse
  BY DEF ProcessInv, StoppedInOrder, Settled, ClosedAfterUse
<1>2. QED BY <1>1, ProcessInvariant, PTL

\* Whoever is first to take the icon away, stop() or the loop (tray.py:246-271), and
\* whichever way main() ends (main.py:211-221): an icon that outlives its thread, or
\* its process, is one that Shell_NotifyIcon would not remove, or whose stop() failed
\* or came before the thread had set _added.
THEOREM IconGoesWithThread == FairSpec => []IconIsOwned
<1>1. ProcessInv => IconIsOwned BY DEF ProcessInv
<1>2. QED BY <1>1, ProcessInvariant, PTL

=============================================================================
