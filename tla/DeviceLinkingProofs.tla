------------------------ MODULE DeviceLinkingProofs -------------------------
(***************************************************************************)
(* Proofs about the Devices tab for any devices, times, plan and bounds:   *)
(* the guard against a second registration, the code that stops being      *)
(* offered before it stops working, and the page that is drawn again       *)
(* whenever a thread has written what it shows.                            *)
(***************************************************************************)
EXTENDS DeviceLinking, TLAPS

\* Identities are given out to the threads that are under way, and this PC's is one.
IdsCounted == issued + threads <= MaxIds /\ deviceId <= issued

\* Until a watchdog fires, the guard is up exactly while one registration is under
\* way, with its thread or with its call in the UI thread's queue.
GuardHolds ==
  ~gaveUp => threads + Len(ended) = IF registering THEN 1 ELSE 0

\* While the countdown runs, a code is older for the server than here by no more than
\* the time that it took to the screen.
CodeIsTimed ==
  code # NoCode /\ code.counting /\ ~code.setBack =>
    code.age <= code.shown + Delay /\ code.age <= Lifetime

Inv == TypeOK /\ IdsCounted /\ GuardHolds /\ CodeIsTimed /\ PageKeepsUp

\* A registration that has an identity is about to end.
DoneQueued(q) == \E k \in 1..Len(q) : q[k] = "done"

\* The page's type.
Pages == [form : BOOLEAN, link : BOOLEAN, list : SUBSET Members]

-----------------------------------------------------------------------------

LEMMA Queue ==
  ASSUME NEW S, NEW q \in Seq(S)
  PROVE  /\ \A e \in S : Append(q, e) \in Seq(S) /\ Len(Append(q, e)) = Len(q) + 1
         /\ q # <<>> => /\ Tail(q) \in Seq(S) /\ Len(Tail(q)) = Len(q) - 1
                       /\ Len(q) > 0
         /\ Len(q) \in Nat
OBVIOUS

\* The end of a registration stays in the queue until it is at its head.
LEMMA DoneStays ==
  ASSUME NEW q \in Seq({"done", "error"})
  PROVE  /\ DoneQueued(Append(q, "done"))
         /\ DoneQueued(q) => DoneQueued(Append(q, "error"))
         /\ q # <<>> /\ Head(q) = "error" /\ DoneQueued(q) => DoneQueued(Tail(q))
<1>1. DoneQueued(Append(q, "done"))
  <2>1. Len(q) + 1 \in 1..Len(Append(q, "done")) /\ Append(q, "done")[Len(q) + 1] = "done"
    OBVIOUS
  <2>2. QED BY <2>1 DEF DoneQueued
<1>2. ASSUME DoneQueued(q) PROVE DoneQueued(Append(q, "error"))
  <2>1. PICK k \in 1..Len(q) : q[k] = "done"
    BY <1>2 DEF DoneQueued
  <2>2. k \in 1..Len(Append(q, "error")) /\ Append(q, "error")[k] = "done"
    BY <2>1
  <2>3. QED BY <2>2 DEF DoneQueued
<1>3. ASSUME q # <<>>, Head(q) = "error", DoneQueued(q) PROVE DoneQueued(Tail(q))
  <2>1. PICK k \in 1..Len(q) : q[k] = "done"
    BY <1>3 DEF DoneQueued
  <2>2. q[1] = "error"
    BY <1>3
  <2>3. k # 1
    BY <2>1, <2>2
  <2>4. k - 1 \in 1..Len(Tail(q)) /\ Tail(q)[k - 1] = "done"
    BY <1>3, <2>1, <2>3
  <2>5. QED BY <2>4 DEF DoneQueued
<1>4. QED BY <1>1, <1>2, <1>3

LEMMA InvInit == Init => Inv
<1> SUFFICES ASSUME Init PROVE Inv
  OBVIOUS
<1> USE DEF Init
<1>1. 0 \in 0..MaxIds /\ MaxIds \in Nat
  BY LinkingAssumption
<1>2. ended \in Seq({"done", "error"}) /\ Len(ended) = 0
  OBVIOUS
<1>3. drawn \in [form : BOOLEAN, link : BOOLEAN, list : SUBSET Members]
  BY DEF Draw
<1>4. group \in [Members -> SUBSET Members]
  OBVIOUS
<1>5. TypeOK
  BY <1>1, <1>2, <1>3, <1>4 DEF TypeOK
<1>6. IdsCounted
  BY <1>1 DEF IdsCounted
<1>7. GuardHolds
  BY <1>2 DEF GuardHolds
<1>8. QED BY <1>5, <1>6, <1>7 DEF Inv, CodeIsTimed, PageKeepsUp

\* Registrations are counted in their order, whoever ends them.
LEMMA InvRegistration == ASSUME Inv, Registration PROVE Inv'
<1>1. UNCHANGED <<codes, members, drawn>>
  BY DEF Registration, Register, Registered, RegDone, RegError, Watchdog, page
<1>2. /\ issued \in Nat /\ threads \in Nat /\ deviceId \in Nat /\ MaxIds \in Nat
      /\ issued + threads <= MaxIds /\ deviceId <= issued
      /\ ended \in Seq({"done", "error"}) /\ Len(ended) \in Nat
  BY LinkingAssumption, Queue DEF Inv, TypeOK, IdsCounted
<1>3. /\ registering' \in BOOLEAN /\ watchdog' \in BOOLEAN /\ gaveUp' \in BOOLEAN
      /\ redraw' \in BOOLEAN
  BY DEF Inv, TypeOK, Registration, Register, Registered, RegDone, RegError, Watchdog, page
<1>4. ~gaveUp => threads + Len(ended) <= 1 /\ (~registering => threads + Len(ended) = 0)
  <2>1. ASSUME ~gaveUp, registering PROVE threads + Len(ended) = 1
    BY <2>1 DEF Inv, GuardHolds
  <2>2. ASSUME ~gaveUp, ~registering PROVE threads + Len(ended) = 0
    BY <2>2 DEF Inv, GuardHolds
  <2>3. QED BY <2>1, <2>2
<1>5. /\ issued' \in Nat /\ threads' \in Nat /\ deviceId' \in Nat
      /\ issued' + threads' <= MaxIds /\ deviceId' <= issued' /\ issued <= issued'
      /\ ended' \in Seq({"done", "error"})
      /\ GuardHolds'
  <2>1. CASE Register
    <3>1. ~registering /\ gaveUp' = gaveUp /\ registering' = TRUE
      BY <2>1 DEF Register
    <3>2. threads' = threads + 1 /\ issued + threads < MaxIds
          /\ UNCHANGED <<deviceId, ended, issued>>
      BY <2>1 DEF Register
    <3>3. ~gaveUp => threads' + Len(ended') = 1
      BY <1>2, <1>4, <3>1, <3>2
    <3>4. GuardHolds'
      BY <3>1, <3>3 DEF GuardHolds
    <3>5. QED BY <1>2, <3>2, <3>4
  <2>2. CASE Registered
    <3>1. /\ threads > 0 /\ threads' = threads - 1
          /\ \/ issued' = issued + 1 /\ deviceId' = issued + 1
             \/ issued' = issued /\ deviceId' = deviceId
      BY <2>2 DEF Registered
    <3>2. ended' \in Seq({"done", "error"}) /\ Len(ended') = Len(ended) + 1
      <4>1. \E e \in {"done", "error"} : ended' = Append(ended, e)
        BY <2>2 DEF Registered
      <4>2. QED BY <1>2, <4>1, Queue
    <3>3. threads' \in Nat /\ threads' + Len(ended') = threads + Len(ended)
      BY <1>2, <3>1, <3>2
    <3>4. GuardHolds'
      BY <2>2, <3>3 DEF Inv, GuardHolds, Registered
    <3>5. QED BY <1>2, <3>1, <3>2, <3>3, <3>4
  <2>3. CASE RegDone \/ RegError
    <3>1. ended # <<>> /\ ended' = Tail(ended) /\ UNCHANGED <<deviceId, threads, issued>>
      BY <2>3 DEF RegDone, RegError
    <3>2. registering' = FALSE /\ gaveUp' = gaveUp
      BY <2>3 DEF RegDone, RegError
    <3>3. ended' \in Seq({"done", "error"}) /\ Len(ended') = Len(ended) - 1 /\ Len(ended) > 0
      BY <1>2, <3>1, Queue
    <3>4. ~gaveUp => threads' + Len(ended') = 0
      BY <1>2, <1>4, <3>1, <3>3
    <3>5. GuardHolds'
      BY <3>2, <3>4 DEF GuardHolds
    <3>6. QED BY <1>2, <3>1, <3>3, <3>5
  <2>4. CASE Watchdog
    <3>1. UNCHANGED <<deviceId, threads, ended, issued>> /\ GuardHolds'
      BY <2>4 DEF Watchdog, GuardHolds
    <3>2. QED BY <1>2, <3>1
  <2>5. QED BY <2>1, <2>2, <2>3, <2>4 DEF Registration
<1>6. TypeOK'
  <2>1. ASSUME NEW i \in Nat, NEW n \in Nat, NEW d \in Nat, NEW m \in Nat,
               i + n <= m, d <= i
        PROVE  d \in 0..m /\ i \in 0..m /\ n \in 0..m
    BY <2>1
  <2>2. deviceId' \in 0..MaxIds /\ issued' \in 0..MaxIds /\ threads' \in 0..MaxIds
    BY <1>2, <1>5, <2>1
  <2>3. QED BY <1>1, <1>3, <1>5, <2>2 DEF Inv, TypeOK, codes, members
<1>7. IdsCounted'
  BY <1>2, <1>5 DEF IdsCounted, members
<1>8. CodeIsTimed'
  BY <1>1 DEF Inv, CodeIsTimed, codes
<1>9. PageKeepsUp'
  <2>1. drawn # Draw(deviceId, linked) => redraw \/ DoneQueued(ended)
    BY DEF Inv, PageKeepsUp, DoneQueued
  <2>2. UNCHANGED linked
    BY <1>1 DEF members
  <2>3. drawn' # Draw(deviceId', linked') => redraw' \/ DoneQueued(ended')
    <3>1. CASE Register \/ Watchdog
      <4>1. UNCHANGED <<deviceId, ended, redraw>>
        BY <3>1 DEF Register, Watchdog, page
      <4>2. QED BY <1>1, <2>1, <2>2, <4>1
    <3>2. CASE Registered
      <4>1. \/ ended' = Append(ended, "done")
            \/ ended' = Append(ended, "error") /\ UNCHANGED deviceId
        BY <3>2 DEF Registered
      <4>2. UNCHANGED redraw
        BY <3>2 DEF Registered, page
      <4>3. CASE ended' = Append(ended, "done")
        BY <1>2, <4>3, DoneStays
      <4>4. CASE ended' = Append(ended, "error") /\ UNCHANGED deviceId
        BY <1>1, <1>2, <2>1, <2>2, <4>2, <4>4, DoneStays
      <4>5. QED BY <4>1, <4>3, <4>4
    <3>3. CASE RegDone
      BY <3>3 DEF RegDone
    <3>4. CASE RegError
      <4>1. ended # <<>> /\ Head(ended) = "error" /\ ended' = Tail(ended)
            /\ UNCHANGED <<deviceId, redraw>>
        BY <3>4 DEF RegError, page
      <4>2. QED BY <1>1, <1>2, <2>1, <2>2, <4>1, DoneStays
    <3>5. QED BY <3>1, <3>2, <3>3, <3>4 DEF Registration
  <2>4. QED BY <2>3 DEF PageKeepsUp, DoneQueued
<1>10. QED BY <1>5, <1>6, <1>7, <1>8, <1>9 DEF Inv

LEMMA DrawIsTyped ==
  \A id, devices : devices \subseteq Members => Draw(id, devices) \in Pages
BY DEF Draw, Pages

\* What a step of the codes or of the page leaves alone.
LEMMA InvOfOthers ==
  ASSUME Inv, UNCHANGED <<registration, members>> PROVE
    /\ IdsCounted' /\ GuardHolds'
    /\ deviceId' \in 0..MaxIds /\ issued' \in 0..MaxIds /\ threads' \in 0..MaxIds
    /\ registering' \in BOOLEAN /\ watchdog' \in BOOLEAN /\ gaveUp' \in BOOLEAN
    /\ ended' \in Seq({"done", "error"})
    /\ group' \in [Members -> SUBSET Members]
    /\ joining' \subseteq Joins /\ fetching' \subseteq Queries
    /\ linked' \subseteq Members
    /\ UNCHANGED page => PageKeepsUp'
<1>1. UNCHANGED <<deviceId, registering, watchdog, threads, ended, issued, gaveUp>>
      /\ UNCHANGED <<group, joining, fetching, linked>>
  BY DEF registration, members
<1>2. IdsCounted' /\ GuardHolds'
  BY <1>1 DEF Inv, IdsCounted, GuardHolds
<1>3. UNCHANGED page => PageKeepsUp'
  BY <1>1 DEF Inv, PageKeepsUp, page
<1>4. QED BY <1>1, <1>2, <1>3 DEF Inv, TypeOK

LEMMA InvPopulate == ASSUME Inv, Populate PROVE Inv'
<1>1. UNCHANGED <<registration, codes, members>> /\ redraw' = FALSE
      /\ drawn' = Draw(deviceId, linked)
  BY DEF Populate
<1>2. TypeOK'
  BY <1>1, InvOfOthers, DrawIsTyped DEF Inv, TypeOK, codes, Pages
<1>3. CodeIsTimed' /\ PageKeepsUp'
  BY <1>1 DEF Inv, CodeIsTimed, PageKeepsUp, codes, registration, members
<1>4. QED BY <1>1, <1>2, <1>3, InvOfOthers DEF Inv

\* A code on screen: the invariant's part for a code that is given.
TimedCode(c) ==
  c.counting /\ ~c.setBack => c.age <= c.shown + Delay /\ c.age <= Lifetime

\* A code arrives on the screen with what it took to get there on its age.
LEMMA NewOnScreen ==
  ASSUME NEW c \in Codes PROVE OnScreen(c) \in Shown /\ TimedCode(OnScreen(c))
<1>1. /\ Delay \in Nat /\ Lifetime \in Nat /\ Delay <= Lifetime
      /\ c.age \in 0..Delay /\ c.id \in Ids
  BY LinkingAssumption DEF Codes
<1>2. c.age \in 0..(Lifetime + 1) /\ 0 \in 0..(Lifetime + 1) /\ c.age <= 0 + Delay
      /\ c.age <= Lifetime
  BY <1>1
<1>3. QED BY <1>1, <1>2 DEF OnScreen, Shown, TimedCode

\* Time passes while the countdown has something left: the code is no older for the
\* server than the whole countdown and the delay.
LEMMA OlderOnScreen ==
  ASSUME NEW c \in Shown, TimedCode(c), ~(c.counting /\ SecondsLeft(c.shown) = 0),
         NEW d, d = [c EXCEPT !.age = Older(@), !.shown = Older(@)]
  PROVE  d \in Shown /\ TimedCode(d)
<1>1. /\ Delay \in Nat /\ Lifetime \in Nat /\ Display \in Nat /\ Display + Delay <= Lifetime
      /\ c.age \in 0..(Lifetime + 1) /\ c.shown \in 0..(Lifetime + 1)
  BY LinkingAssumption DEF Shown
<1>2. Older(c.age) \in 0..(Lifetime + 1) /\ Older(c.shown) \in 0..(Lifetime + 1)
  BY <1>1 DEF Older
<1>3. d.age = Older(c.age) /\ d.shown = Older(c.shown)
      /\ d.counting = c.counting /\ d.setBack = c.setBack
  BY DEF Shown
<1>4. d \in Shown
  BY <1>2 DEF Shown
<1>5. ASSUME c.counting, ~c.setBack
      PROVE  Older(c.age) <= Older(c.shown) + Delay /\ Older(c.age) <= Lifetime
  <2>1. c.shown < Display
    BY <1>1, <1>5 DEF SecondsLeft
  <2>2. c.age <= c.shown + Delay
    BY <1>5 DEF TimedCode
  <2>3. QED BY <1>1, <2>1, <2>2 DEF Older
<1>6. QED BY <1>3, <1>4, <1>5 DEF TimedCode

LEMMA ClockSet ==
  ASSUME NEW c \in Shown, TimedCode(c), NEW d,
         \/ c.shown <= Lifetime /\ d = [c EXCEPT !.shown = @ + 1]
         \/ c.shown > 0 /\ d = [c EXCEPT !.shown = @ - 1, !.setBack = TRUE]
  PROVE  d \in Shown /\ TimedCode(d)
<1>1. /\ Delay \in Nat /\ Lifetime \in Nat
      /\ c.age \in 0..(Lifetime + 1) /\ c.shown \in 0..(Lifetime + 1)
  BY LinkingAssumption DEF Shown
<1>2. CASE c.shown <= Lifetime /\ d = [c EXCEPT !.shown = @ + 1]
  <2>1. c.shown + 1 \in 0..(Lifetime + 1)
    BY <1>1, <1>2
  <2>2. d.shown = c.shown + 1 /\ d.age = c.age /\ d.counting = c.counting
        /\ d.setBack = c.setBack /\ d \in Shown
    BY <1>2, <2>1 DEF Shown
  <2>3. c.age <= c.shown + Delay => c.age <= c.shown + 1 + Delay
    BY <1>1
  <2>4. QED BY <2>2, <2>3 DEF TimedCode
<1>3. CASE c.shown > 0 /\ d = [c EXCEPT !.shown = @ - 1, !.setBack = TRUE]
  <2>1. c.shown - 1 \in 0..(Lifetime + 1)
    BY <1>1, <1>3
  <2>2. QED BY <1>3, <2>1 DEF Shown, TimedCode
<1>4. QED BY <1>2, <1>3

\* A step of the group keeps the types, and draws the page or has it drawn if it changes
\* what is shown.
LEMMA InvMembers ==
  ASSUME Inv, UNCHANGED <<registration, codes>>, drawn' \in Pages, redraw' \in BOOLEAN,
         group' \in [Members -> SUBSET Members],
         joining' \subseteq Joins, fetching' \subseteq Queries, linked' \subseteq Members,
         \/ redraw' = TRUE
         \/ drawn' = Draw(deviceId, linked')
         \/ UNCHANGED <<drawn, redraw, linked>>
  PROVE  Inv'
<1>1. UNCHANGED <<deviceId, registering, watchdog, threads, ended, issued, gaveUp>>
      /\ UNCHANGED <<asking, coming, code>>
  BY DEF registration, codes
<1>2. TypeOK'
  BY <1>1 DEF Inv, TypeOK, Pages
<1>3. IdsCounted' /\ GuardHolds' /\ CodeIsTimed'
  BY <1>1 DEF Inv, IdsCounted, GuardHolds, CodeIsTimed
<1>4. PageKeepsUp'
  <2>1. CASE redraw' = TRUE
    BY <2>1 DEF PageKeepsUp
  <2>2. CASE drawn' = Draw(deviceId, linked')
    BY <1>1, <2>2 DEF PageKeepsUp
  <2>3. CASE UNCHANGED <<drawn, redraw, linked>>
    BY <1>1, <2>3 DEF Inv, PageKeepsUp
  <2>4. QED BY <2>1, <2>2, <2>3
<1>5. QED BY <1>2, <1>3, <1>4 DEF Inv

\* What a step of the group can rely on.
LEMMA MembersNow ==
  ASSUME Inv
  PROVE  /\ drawn \in Pages /\ redraw \in BOOLEAN
         /\ group \in [Members -> SUBSET Members] /\ joining \subseteq Joins
         /\ fetching \subseteq Queries /\ linked \subseteq Members
         /\ deviceId # 0 => deviceId \in Ids
<1>1. deviceId \in 0..MaxIds /\ MaxIds \in Nat
  BY LinkingAssumption DEF Inv, TypeOK
<1>2. deviceId # 0 => deviceId \in Ids
  BY <1>1 DEF Ids
<1>3. QED BY <1>2 DEF Inv, TypeOK, Pages

\* Two groups put together are groups again.
LEMMA MergedIsTyped ==
  ASSUME Inv, NEW m \in Members, NEW n \in Members
  PROVE  Merged(m, n) \in [Members -> SUBSET Members]
<1>1. group \in [Members -> SUBSET Members]
  BY MembersNow
<1>2. QED BY <1>1 DEF Merged

\* A fetch asks for an identity of this PC.
LEMMA RefreshIsTyped ==
  ASSUME Inv, Refresh
  PROVE  /\ fetching' \subseteq Queries /\ drawn' \in Pages
         /\ UNCHANGED drawn \/ drawn' = Draw(deviceId, linked)
<1>1. CASE deviceId = 0
  BY <1>1, MembersNow, DrawIsTyped DEF Refresh
<1>2. CASE deviceId # 0
  <2>1. UNCHANGED drawn /\ Fetch
    BY <1>2 DEF Refresh
  <2>2. PICK n \in 1..MaxAsked :
          fetching' = fetching \cup {[n |-> n, id |-> deviceId, answered |-> FALSE, found |-> {}]}
    BY <2>1 DEF Fetch
  <2>3. [n |-> n, id |-> deviceId, answered |-> FALSE, found |-> {}] \in Queries
    BY <1>2, MembersNow DEF Queries
  <2>4. QED BY <2>1, <2>2, <2>3, MembersNow
<1>3. QED BY <1>1, <1>2

LEMMA InvGroup == ASSUME Inv, Group PROVE Inv'
<1> USE MembersNow
<1>1. CASE OpenTab
  <2>1. Refresh /\ UNCHANGED <<registration, redraw, codes, group, joining, linked>>
    BY <1>1 DEF OpenTab
  <2>2. QED BY <2>1, RefreshIsTyped, InvMembers
<1>2. ASSUME NEW id \in Ids, NEW d \in Devices, Join(id, d) PROVE Inv'
  <2>1. joining' = joining \cup {[id |-> id, with |-> d, answered |-> FALSE]}
        /\ UNCHANGED <<registration, codes, group, fetching>>
        /\ UNCHANGED <<drawn, redraw, linked>>
    BY <1>2 DEF Join, page
  <2>2. [id |-> id, with |-> d, answered |-> FALSE] \in Joins
    BY DEF Joins
  <2>3. QED BY <2>1, <2>2, InvMembers
<1>3. ASSUME NEW m \in drawn.list, RemoveDevice(m) PROVE Inv'
  <2>1. linked' = linked \ {m} /\ drawn' = Draw(deviceId, linked')
        /\ UNCHANGED <<redraw, registration, codes, group, joining, fetching>>
    BY <1>3 DEF RemoveDevice
  <2>2. linked' \subseteq Members
    BY <2>1
  <2>3. QED BY <2>1, <2>2, DrawIsTyped, InvMembers
<1>4. ASSUME NEW j \in joining, JoinAnswered(j) PROVE Inv'
  <2>1. /\ j \in Joins /\ j.id \in Members /\ j.with \in Members
        /\ [j EXCEPT !.answered = TRUE] \in Joins
    BY DEF Joins, Members
  <2>2. /\ group' \in {group, Merged(j.id, j.with)}
        /\ \/ joining' = (joining \ {j}) \cup {[j EXCEPT !.answered = TRUE]}
           \/ joining' = joining \ {j}
        /\ UNCHANGED <<registration, codes, fetching>>
        /\ UNCHANGED <<drawn, redraw, linked>>
    BY <1>4 DEF JoinAnswered, page
  <2>3. group' \in [Members -> SUBSET Members]
    BY <2>1, <2>2, MergedIsTyped
  <2>4. joining' \subseteq Joins
    BY <2>1, <2>2
  <2>5. QED BY <2>2, <2>3, <2>4, InvMembers
<1>5. ASSUME NEW j \in joining, JoinDone(j) PROVE Inv'
  <2>1. joining' \subseteq joining /\ Refresh
        /\ UNCHANGED <<registration, redraw, codes, group, linked>>
    BY <1>5 DEF JoinDone
  <2>2. QED BY <2>1, RefreshIsTyped, InvMembers
<1>6. ASSUME NEW f \in fetching, AnswerFetch(f) PROVE Inv'
  <2> DEFINE answer == [f EXCEPT !.answered = TRUE, !.found = group[f.id]]
  <2>1. fetching' = (fetching \ {f}) \cup {answer}
        /\ UNCHANGED <<registration, codes, group, joining>>
        /\ UNCHANGED <<drawn, redraw, linked>>
    BY <1>6 DEF AnswerFetch, page
  <2>2. answer \in Queries
    <3>1. f \in Queries /\ f.id \in Members
      BY DEF Queries, Members
    <3>2. group[f.id] \subseteq Members
      BY <3>1
    <3>3. QED BY <3>1, <3>2 DEF Queries
  <2> HIDE DEF answer
  <2>3. QED BY <2>1, <2>2, InvMembers
<1>7. ASSUME NEW f \in fetching, Fetched(f) PROVE Inv'
  <2>1. /\ fetching' \subseteq fetching /\ redraw' = TRUE
        /\ linked' = IF f.answered THEN Others(f.id, f.found) ELSE linked
        /\ UNCHANGED <<registration, drawn, codes, group, joining>>
    BY <1>7 DEF Fetched
  <2>2. f.found \subseteq Members
    BY DEF Queries
  <2>3. linked' \subseteq Members
    BY <2>1, <2>2 DEF Others
  <2>4. QED BY <2>1, <2>3, InvMembers
<1>8. QED BY <1>1, <1>2, <1>3, <1>4, <1>5, <1>6, <1>7 DEF Group

\* Codes are asked for, arrive, age and go; a scan adds to the group of the code.
LEMMA InvLinkCode == ASSUME Inv, LinkCode PROVE Inv'
<1>1. /\ asking \subseteq Ids /\ coming \subseteq Codes /\ code \in Shown \cup {NoCode}
      /\ code # NoCode => code \in Shown /\ TimedCode(code)
  BY DEF Inv, TypeOK, CodeIsTimed, TimedCode
<1>2. ASSUME UNCHANGED <<registration, page, members>>,
             asking' \subseteq Ids, coming' \subseteq Codes,
             code' # NoCode => code' \in Shown /\ TimedCode(code')
      PROVE  Inv'
  <2>1. code' \in Shown \cup {NoCode} /\ CodeIsTimed'
    BY <1>2 DEF CodeIsTimed, TimedCode
  <2>2. TypeOK'
    BY <1>2, <2>1, InvOfOthers DEF Inv, TypeOK, page
  <2>3. QED BY <1>2, <2>1, <2>2, InvOfOthers DEF Inv
<1>3. CASE AskForCode
  <2>1. deviceId \in Ids
    BY <1>3, LinkingAssumption DEF AskForCode, Inv, TypeOK, Ids
  <2>2. QED BY <1>1, <1>2, <1>3, <2>1 DEF AskForCode, members
<1>4. ASSUME NEW id \in asking, AnswerAsked(id) PROVE Inv'
  <2>1. \A usable \in BOOLEAN : [id |-> id, age |-> 0, usable |-> usable] \in Codes
    BY <1>1, LinkingAssumption DEF Codes
  <2>2. coming' \subseteq Codes
    BY <1>1, <1>4, <2>1 DEF AnswerAsked
  <2>3. QED BY <1>1, <1>2, <1>4, <2>2 DEF AnswerAsked
<1>5. ASSUME NEW c \in coming, ShowCode(c) PROVE Inv'
  <2>1. c \in Codes
    BY <1>1
  <2>2. code' # NoCode => code' \in Shown /\ TimedCode(code')
    <3>1. CASE code' = OnScreen(c)
      BY <2>1, <3>1, NewOnScreen
    <3>2. CASE code # NoCode /\ code' = [code EXCEPT !.counting = FALSE]
      BY <1>1, <3>2 DEF Shown, TimedCode
    <3>3. QED BY <1>1, <1>5, <3>1, <3>2 DEF ShowCode
  <2>3. UNCHANGED <<registration, page, asking, members>> /\ coming' = coming \ {c}
    BY <1>5 DEF ShowCode
  <2>4. QED BY <1>1, <1>2, <2>2, <2>3
<1>6. CASE CloseExpired \/ CloseCode
  BY <1>1, <1>2, <1>6 DEF CloseExpired, CloseCode
<1>7. CASE Tick
  <2>1. ASSUME NEW c \in coming PROVE [c EXCEPT !.age = @ + 1] \in Codes
    <3>1. c \in Codes /\ c.age < Delay /\ c.age \in 0..Delay /\ Delay \in Nat
      BY <1>1, <1>7, LinkingAssumption DEF Tick, Codes
    <3>2. c.age + 1 \in 0..Delay
      BY <3>1
    <3>3. QED BY <3>1, <3>2 DEF Codes
  <2>2. coming' \subseteq Codes
    BY <1>7, <2>1 DEF Tick
  <2>3. code' # NoCode => code' \in Shown /\ TimedCode(code')
    <3>1. CASE code = NoCode
      BY <1>7, <3>1 DEF Tick
    <3>2. CASE code # NoCode
      <4>1. code' = [code EXCEPT !.age = Older(@), !.shown = Older(@)]
            /\ ~(code.counting /\ SecondsLeft(code.shown) = 0)
        BY <1>7, <3>2 DEF Tick, Expired
      <4>2. QED BY <1>1, <3>2, <4>1, OlderOnScreen
    <3>3. QED BY <3>1, <3>2
  <2>4. UNCHANGED <<registration, page, asking, members>>
    BY <1>7 DEF Tick
  <2>5. QED BY <1>1, <1>2, <2>2, <2>3, <2>4
<1>8. CASE SetClock
  <2>1. code # NoCode /\ UNCHANGED <<registration, page, asking, coming, members>>
        /\ \/ code.shown <= Lifetime /\ code' = [code EXCEPT !.shown = @ + 1]
           \/ code.shown > 0 /\ code' = [code EXCEPT !.shown = @ - 1, !.setBack = TRUE]
    BY <1>8 DEF SetClock
  <2>2. code' \in Shown /\ TimedCode(code')
    BY <1>1, <2>1, ClockSet
  <2>3. QED BY <1>1, <1>2, <2>1, <2>2
<1>9. ASSUME NEW d \in Devices, Scan(d) PROVE Inv'
  <2>1. code.id \in Members /\ d \in Members
    BY <1>1, <1>9 DEF Scan, Shown, Members
  <2>2. group' \in [Members -> SUBSET Members]
    BY <1>9, <2>1, MergedIsTyped DEF Scan
  <2>3. UNCHANGED <<registration, codes, joining, fetching>>
        /\ UNCHANGED <<drawn, redraw, linked>>
    BY <1>9 DEF Scan, page
  <2>4. QED BY <2>2, <2>3, MembersNow, InvMembers
<1>10. QED BY <1>3, <1>4, <1>5, <1>6, <1>7, <1>8, <1>9 DEF LinkCode

LEMMA InvNext == Inv /\ [Next]_vars => Inv'
<1>1. ASSUME Inv, UNCHANGED vars PROVE Inv'
  <2>1. UNCHANGED <<registration, page, asking, coming, code, members>>
    BY <1>1 DEF vars, codes
  <2>2. TypeOK' /\ CodeIsTimed'
    BY <1>1, <2>1, InvOfOthers DEF Inv, TypeOK, CodeIsTimed, page
  <2>3. QED BY <1>1, <2>1, <2>2, InvOfOthers DEF Inv
<1>2. QED BY <1>1, InvPopulate, InvRegistration, InvLinkCode, InvGroup DEF Next

LEMMA Invariance == Spec => []Inv
BY InvInit, InvNext, PTL DEF Spec

-----------------------------------------------------------------------------
(* The theorems *)

\* The variables stay in their types (devices_page.py:107-111, linking.py:189-203).
THEOREM TypeCorrect == Spec => []TypeOK
<1>1. Inv => TypeOK BY DEF Inv
<1>2. QED BY <1>1, Invariance, PTL

\* Two registrations are never on their way at once until a watchdog has given one up
\* (devices_page.py:429-457).
THEOREM NoDoubleFire == Spec => []OneAtATime
<1>1. Inv => OneAtATime
  <2> SUFFICES ASSUME Inv, ~gaveUp PROVE threads <= 1
    BY DEF OneAtATime
  <2>1. threads \in Nat /\ Len(ended) \in Nat
    BY LinkingAssumption, Queue DEF Inv, TypeOK
  <2>2. threads + Len(ended) = 1 \/ threads + Len(ended) = 0
    BY DEF Inv, GuardHolds
  <2>3. QED BY <2>1, <2>2
<1>2. QED BY <1>1, Invariance, PTL

\* A code whose countdown runs is one that the server still knows, if the clock is not
\* set back, for every display, delay and lifetime that leave the difference
\* (linking.py:67-69, 189-203).
THEOREM OfferedCodesWork == Spec => []OfferedCodeWorks
<1>1. Inv => OfferedCodeWorks
  BY DEF Inv, CodeIsTimed, OfferedCodeWorks, Remembered
<1>2. QED BY <1>1, Invariance, PTL

\* Whatever thread writes the identity or the list, and whenever its answer comes, the
\* page either shows them or is about to be drawn again (devices_page.py:466-483, 709-738).
THEOREM PageIsDrawn == Spec => []PageKeepsUp
<1>1. Inv => PageKeepsUp BY DEF Inv
<1>2. QED BY <1>1, Invariance, PTL

=============================================================================
