------------------------ MODULE DataLifecycleProofs -------------------------
(***************************************************************************)
(* Proofs about DataLifecycle for any programs, ids, days and retentions:  *)
(* what the user removes or deletes stays gone, what is left is credited   *)
(* to the app that earned it, and nothing else deletes it.                 *)
(*                                                                         *)
(* The monitor writes under ids it remembers, so the invariant says what   *)
(* an id in its memory can still mean: an id of either table is given out  *)
(* once, so that a session's row, if it has one, is of the session's app,  *)
(* and an app that was removed is never again the app of its id.           *)
(***************************************************************************)
EXTENDS DataLifecycle, TLAPS

\* The ids of apps come from the sequence.
AppsCounted == \A a \in AppIds : apps[a] # None => a <= lastApp

\* What the session of app a remembers is its own: its ids were given out, no row of
\* another app has its id, and its seconds are those of the app's program.
SessionOwns(a) ==
  /\ a <= lastApp /\ open[a].sid <= lastSession
  /\ open[a].gone => rows[open[a].sid] = None
  /\ rows[open[a].sid] # None => rows[open[a].sid].app = a
  /\ apps[a] # None => open[a].by \subseteq {apps[a]}

\* A poll's list, read when it began, names programs that are still the apps' own.
ListOwns(t) ==
  /\ t[1] <= lastApp
  /\ apps[t[1]] # None => apps[t[1]] = t[2]

RowOwns(s) == rows[s].by \subseteq {apps[rows[s].app]}

\* It lasts until everything is deleted under the monitor's sessions.
IdsMeanOneThing ==
  /\ \A a \in AppIds : open[a] # None => SessionOwns(a)
  /\ \A t \in todo : ListOwns(t)
  /\ \A s \in SessionIds : rows[s] # None => RowOwns(s)

Inv ==
  /\ TypeOK /\ RemovedIsForgotten /\ AppsCounted
  /\ ~idsReset => IdsMeanOneThing

-----------------------------------------------------------------------------
(* What the statements of SQL do *)

LEMMA NoneIsNothing ==
  /\ None \notin Row /\ None \notin Session /\ None \notin Programs
BY DataAssumption, NoneAssumption

\* The same sessions of the same apps and days, with other seconds.
Alike(table) ==
  /\ table \in [SessionIds -> Row \cup {None}]
  /\ \A s \in SessionIds :
       /\ table[s] = None <=> rows[s] = None
       /\ rows[s] # None =>
            /\ table[s].app = rows[s].app /\ table[s].day = rows[s].day
            /\ ~idsReset => table[s].by \subseteq {apps[table[s].app]}

LEMMA RowsAreAlike == ASSUME Inv PROVE Alike(rows)
BY DEF Inv, TypeOK, IdsMeanOneThing, RowOwns, Alike

\* An UPDATE inserts nothing, and puts nobody else's usage into a row.
LEMMA SavedIsAlike ==
  ASSUME Inv, NEW a \in AppIds, open[a] # None
  PROVE  Alike(Saved(rows, a))
<1> DEFINE sid == open[a].sid
           row == [rows[sid] EXCEPT !.sec = open[a].sec, !.by = open[a].by]
<1>1. open[a] \in Session /\ sid \in SessionIds /\ rows \in [SessionIds -> Row \cup {None}]
  BY DEF Inv, TypeOK, Session
<1>2. CASE rows[sid] = None
  BY <1>2, RowsAreAlike DEF Saved
<1>3. CASE rows[sid] # None
  <2>1. Saved(rows, a) = [rows EXCEPT ![sid] = row]
    BY <1>1, <1>3 DEF Saved
  <2>2. rows[sid] \in Row
    BY <1>1, <1>3
  <2>3. /\ row \in Row /\ row.app = rows[sid].app /\ row.day = rows[sid].day
        /\ row.by = open[a].by
    BY <1>1, <2>2 DEF Row, Session
  <2>4. ~idsReset => row.by \subseteq {apps[row.app]}
    <3> SUFFICES ASSUME ~idsReset PROVE row.by \subseteq {apps[row.app]}
      OBVIOUS
    <3>1. rows[sid].app = a /\ (apps[a] # None => open[a].by \subseteq {apps[a]})
      BY <1>1, <1>3 DEF Inv, IdsMeanOneThing, SessionOwns
    <3>2. apps[a] # None
      BY <1>1, <1>3, <3>1 DEF Inv, RemovedIsForgotten
    <3>3. QED BY <2>3, <3>1, <3>2
  <2>5. Saved(rows, a) \in [SessionIds -> Row \cup {None}]
    BY <1>1, <2>1, <2>3
  <2>6. ASSUME NEW s \in SessionIds
        PROVE  /\ Saved(rows, a)[s] = None <=> rows[s] = None
               /\ rows[s] # None =>
                    /\ Saved(rows, a)[s].app = rows[s].app
                    /\ Saved(rows, a)[s].day = rows[s].day
                    /\ ~idsReset => Saved(rows, a)[s].by \subseteq {apps[Saved(rows, a)[s].app]}
    <3>1. CASE s = sid
      <4>1. Saved(rows, a)[s] = row /\ row # None
        BY <1>1, <2>1, <2>3, <3>1, NoneIsNothing
      <4>2. QED BY <1>3, <2>3, <2>4, <3>1, <4>1
    <3>2. CASE s # sid
      <4>1. Saved(rows, a)[s] = rows[s]
        BY <1>1, <2>1, <3>2
      <4>2. QED BY <4>1, RowsAreAlike DEF Alike
    <3>3. QED BY <3>1, <3>2
  <2>7. QED BY <2>5, <2>6 DEF Alike
<1>4. QED BY <1>2, <1>3

LEMMA AllSavedIsAlike ==
  ASSUME Inv, NEW last \in [SessionIds -> AppIds],
         \A s \in SessionIds : OpenOn(s) # {} => last[s] \in OpenOn(s)
  PROVE  Alike(AllSaved(last))
<1>1. ASSUME NEW s \in SessionIds
      PROVE  /\ AllSaved(last)[s] \in Row \cup {None}
             /\ AllSaved(last)[s] = None <=> rows[s] = None
             /\ rows[s] # None =>
                  /\ AllSaved(last)[s].app = rows[s].app
                  /\ AllSaved(last)[s].day = rows[s].day
                  /\ ~idsReset => AllSaved(last)[s].by \subseteq {apps[AllSaved(last)[s].app]}
  <2>1. CASE OpenOn(s) = {}
    <3>1. AllSaved(last)[s] = rows[s]
      BY <2>1 DEF AllSaved
    <3>2. QED BY <3>1, RowsAreAlike DEF Alike
  <2>2. CASE OpenOn(s) # {}
    <3>1. AllSaved(last)[s] = Saved(rows, last[s])[s]
      BY <2>2 DEF AllSaved
    <3>2. last[s] \in AppIds /\ open[last[s]] # None
      BY <2>2 DEF OpenOn
    <3>3. Alike(Saved(rows, last[s]))
      BY <3>2, SavedIsAlike
    <3>4. QED BY <3>1, <3>3 DEF Alike
  <2>3. QED BY <2>1, <2>2
<1>2. AllSaved(last) = [s \in SessionIds |-> AllSaved(last)[s]]
  BY DEF AllSaved
<1>3. AllSaved(last) \in [SessionIds -> Row \cup {None}]
  BY <1>1, <1>2
<1>4. QED BY <1>1, <1>3 DEF Alike

\* A DELETE takes its rows, and marks the sessions that it took them from.
LEMMA Deletion ==
  ASSUME Inv, NEW deleted \in SUBSET SessionIds,
         rows' = Without(deleted), open' = Orphaned(deleted)
  PROVE  /\ rows' \in [SessionIds -> Row \cup {None}]
         /\ open' \in [AppIds -> Session \cup {None}]
         /\ \A s \in SessionIds : rows'[s] = IF s \in deleted THEN None ELSE rows[s]
         /\ \A a \in AppIds :
              /\ open'[a] # None <=> open[a] # None
              /\ open[a] # None =>
                   /\ open'[a].sid = open[a].sid /\ open'[a].by = open[a].by
                   /\ open'[a].gone => open[a].gone \/ open[a].sid \in deleted
<1>1. rows \in [SessionIds -> Row \cup {None}] /\ open \in [AppIds -> Session \cup {None}]
  BY DEF Inv, TypeOK
<1>2. rows' \in [SessionIds -> Row \cup {None}]
  BY <1>1 DEF Without
<1>3. \A s \in SessionIds : rows'[s] = IF s \in deleted THEN None ELSE rows[s]
  BY DEF Without
<1>4. ASSUME NEW a \in AppIds
      PROVE  /\ open'[a] \in Session \cup {None}
             /\ open'[a] # None <=> open[a] # None
             /\ open[a] # None =>
                  /\ open'[a].sid = open[a].sid /\ open'[a].by = open[a].by
                  /\ open'[a].gone => open[a].gone \/ open[a].sid \in deleted
  <2>1. CASE open[a] # None /\ open[a].sid \in deleted
    <3>1. open'[a] = [open[a] EXCEPT !.gone = TRUE] /\ open[a] \in Session
      BY <1>1, <2>1 DEF Orphaned
    <3>2. open'[a] \in Session /\ open'[a].sid = open[a].sid /\ open'[a].by = open[a].by
      BY <3>1 DEF Session
    <3>3. QED BY <2>1, <3>2, NoneIsNothing
  <2>2. CASE ~(open[a] # None /\ open[a].sid \in deleted)
    <3>1. open'[a] = open[a]
      BY <2>2 DEF Orphaned
    <3>2. QED BY <1>1, <3>1
  <2>3. QED BY <2>1, <2>2
<1>5. open' \in [AppIds -> Session \cup {None}]
  BY <1>4 DEF Orphaned
<1>6. QED BY <1>2, <1>3, <1>4, <1>5

\* What a deletion leaves is as it was.
LEMMA DeletionOwns ==
  ASSUME Inv, ~idsReset, NEW deleted \in SUBSET SessionIds,
         rows' = Without(deleted), open' = Orphaned(deleted),
         UNCHANGED <<apps, lastApp, lastSession>>
  PROVE  /\ \A a \in AppIds : open'[a] # None => SessionOwns(a)'
         /\ \A s \in SessionIds : rows'[s] # None => RowOwns(s)'
<1>1. \A a \in AppIds : open[a] # None => open[a].sid \in SessionIds
  BY DEF Inv, TypeOK, Session
<1>2. ASSUME NEW a \in AppIds, open'[a] # None PROVE SessionOwns(a)'
  <2>1. /\ open[a] # None /\ open'[a].sid = open[a].sid /\ open'[a].by = open[a].by
        /\ open'[a].gone => open[a].gone \/ open[a].sid \in deleted
    BY <1>2, Deletion
  <2>2. rows'[open[a].sid] = IF open[a].sid \in deleted THEN None ELSE rows[open[a].sid]
    BY <1>1, <2>1, Deletion
  <2>3. SessionOwns(a)
    BY <2>1 DEF Inv, IdsMeanOneThing
  <2>4. QED BY <2>1, <2>2, <2>3 DEF SessionOwns
<1>3. ASSUME NEW s \in SessionIds, rows'[s] # None PROVE RowOwns(s)'
  <2>1. rows[s] # None /\ rows'[s] = rows[s]
    BY <1>3, Deletion
  <2>2. QED BY <2>1 DEF Inv, IdsMeanOneThing, RowOwns
<1>4. QED BY <1>2, <1>3

-----------------------------------------------------------------------------
(* The invariant *)

\* The monitor counts, saves and ends what it has open.
LEMMA InvKept ==
  ASSUME Inv, Alike(rows'),
         UNCHANGED <<apps, lastApp, lastSession, world, idsReset>>,
         todo' \subseteq todo, stage' \in [Threads -> Stages],
         days' \in [Threads -> {0} \cup Retentions], pollDay' \in Days, noted' \in Days,
         open' \in [AppIds -> Session \cup {None}],
         \A a \in AppIds : open'[a] # None =>
           /\ open[a] # None
           /\ open'[a].sid = open[a].sid /\ open'[a].gone = open[a].gone
           /\ ~idsReset /\ apps[a] # None => open'[a].by \subseteq {apps[a]}
  PROVE  Inv'
<1>1. TypeOK'
  BY DEF Inv, TypeOK, Alike, world
<1>2. RemovedIsForgotten'
  BY DEF Inv, Alike, RemovedIsForgotten
<1>3. AppsCounted'
  BY DEF Inv, AppsCounted
<1>4. ASSUME ~idsReset' PROVE IdsMeanOneThing'
  <2>1. ~idsReset /\ IdsMeanOneThing
    BY <1>4 DEF Inv
  <2>2. ASSUME NEW a \in AppIds, open'[a] # None PROVE SessionOwns(a)'
    <3>1. open[a] # None /\ open[a].sid \in SessionIds /\ SessionOwns(a)
      BY <2>1, <2>2 DEF IdsMeanOneThing, Inv, TypeOK, Session
    <3>2. QED BY <2>1, <2>2, <3>1 DEF SessionOwns, Alike
  <2>3. \A t \in todo' : ListOwns(t)'
    BY <2>1 DEF IdsMeanOneThing, ListOwns
  <2>4. \A s \in SessionIds : rows'[s] # None => RowOwns(s)'
    BY <2>1 DEF Alike, RowOwns
  <2>5. QED BY <2>2, <2>3, <2>4 DEF IdsMeanOneThing
<1>5. QED BY <1>1, <1>2, <1>3, <1>4 DEF Inv

\* A session begins, of an app that is there: at its start, or at a midnight after
\* the one before it was saved.
LEMMA InvInserted ==
  ASSUME Inv, NEW table, Alike(table), NEW a \in AppIds, MayInsert(a),
         rows' = Inserted(table, a), lastSession' = lastSession + 1,
         NEW session \in Session, open' = [open EXCEPT ![a] = session],
         session.sid = lastSession + 1, ~session.gone,
         ~idsReset => session.by \subseteq {apps[a]} /\ a <= lastApp,
         UNCHANGED <<apps, lastApp, noted, stage, days, pollDay, world, idsReset>>,
         todo' \subseteq todo
  PROVE  Inv'
<1> DEFINE sid == lastSession + 1
<1>1. /\ lastSession \in 0..MaxSessions /\ lastSession < MaxSessions /\ apps[a] # None
      /\ MaxSessions \in Nat
  BY DataAssumption DEF MayInsert, Inv, TypeOK
<1>2. sid \in SessionIds /\ sid \in 0..MaxSessions
  BY <1>1 DEF SessionIds
<1>3. NewRow(a) \in Row /\ NewRow(a) # None /\ NewRow(a).app = a /\ NewRow(a).by = {}
      /\ NewRow(a).day = pollDay
  <2>1. 0 \in 0..MaxSec
    BY DataAssumption
  <2>2. NewRow(a) \in Row
    BY <2>1 DEF NewRow, Row, Inv, TypeOK
  <2>3. QED BY <2>2, NoneIsNothing DEF NewRow
<1>4. /\ rows'[sid] = NewRow(a)
      /\ \A s \in SessionIds \ {sid} : rows'[s] = table[s]
      /\ rows' \in [SessionIds -> Row \cup {None}]
  BY <1>2, <1>3 DEF Alike, Inserted
<1>5. /\ open'[a] = session /\ \A b \in AppIds \ {a} : open'[b] = open[b]
      /\ open' \in [AppIds -> Session \cup {None}]
  BY DEF Inv, TypeOK
<1>6. TypeOK'
  BY <1>2, <1>4, <1>5 DEF Inv, TypeOK, world
<1>7. RemovedIsForgotten'
  <2>1. ASSUME NEW s \in SessionIds, rows'[s] # None
        PROVE  apps'[rows'[s].app] # None
    <3>1. CASE s = sid
      BY <1>1, <1>3, <1>4, <3>1
    <3>2. CASE s # sid
      <4>1. rows'[s] = table[s] /\ rows[s] # None
        BY <1>4, <2>1, <3>2 DEF Alike
      <4>2. QED BY <4>1 DEF Inv, Alike, RemovedIsForgotten
    <3>3. QED BY <3>1, <3>2
  <2>2. QED BY <2>1 DEF RemovedIsForgotten
<1>8. AppsCounted'
  BY DEF Inv, AppsCounted
<1>9. ASSUME ~idsReset' PROVE IdsMeanOneThing'
  <2>1. ~idsReset /\ IdsMeanOneThing
    BY <1>9 DEF Inv
  <2>2. ASSUME NEW b \in AppIds, open'[b] # None PROVE SessionOwns(b)'
    <3>1. CASE b = a
      <4>1. open'[b] = session /\ rows'[sid].app = a
        BY <1>3, <1>4, <1>5, <3>1
      <4>2. QED BY <1>1, <2>1, <3>1, <4>1 DEF SessionOwns
    <3>2. CASE b # a
      <4>1. /\ open'[b] = open[b] /\ SessionOwns(b)
            /\ open[b].sid \in SessionIds /\ open[b].sid <= lastSession
        BY <1>5, <2>1, <2>2, <3>2 DEF IdsMeanOneThing, SessionOwns, Inv, TypeOK, Session
      <4>2. open[b].sid # sid /\ open[b].sid <= sid
        BY <1>1, <4>1 DEF SessionIds
      <4>3. rows'[open[b].sid] = table[open[b].sid]
        BY <1>4, <4>1, <4>2
      <4>4. QED BY <4>1, <4>2, <4>3 DEF SessionOwns, Alike
    <3>3. QED BY <3>1, <3>2
  <2>3. \A t \in todo' : ListOwns(t)'
    BY <2>1 DEF IdsMeanOneThing, ListOwns
  <2>4. ASSUME NEW s \in SessionIds, rows'[s] # None PROVE RowOwns(s)'
    <3>1. CASE s = sid
      BY <1>3, <1>4, <3>1 DEF RowOwns
    <3>2. CASE s # sid
      <4>1. rows'[s] = table[s] /\ rows[s] # None
        BY <1>4, <2>4, <3>2 DEF Alike
      <4>2. QED BY <2>1, <4>1 DEF RowOwns, Alike
    <3>3. QED BY <3>1, <3>2
  <2>5. QED BY <2>2, <2>3, <2>4 DEF IdsMeanOneThing
<1>10. QED BY <1>6, <1>7, <1>8, <1>9 DEF Inv

LEMMA InvInit == Init => Inv
<1> SUFFICES ASSUME Init PROVE Inv
  OBVIOUS
<1> USE DEF Init
<1>1. 0 \in Days /\ 0 \in 0..MaxApps /\ 0 \in 0..MaxSessions
  BY DataAssumption DEF Days
<1>2. TypeOK
  BY <1>1 DEF TypeOK, Stages
<1>3. RemovedIsForgotten /\ AppsCounted
  BY DEF RemovedIsForgotten, AppsCounted
<1>4. IdsMeanOneThing
  BY DEF IdsMeanOneThing
<1>5. QED BY <1>2, <1>3, <1>4 DEF Inv

LEMMA Credited ==
  ASSUME NEW session \in Session, NEW p \in Programs
  PROVE  /\ Credit(session, p) \in Session
         /\ Credit(session, p).sid = session.sid /\ Credit(session, p).gone = session.gone
         /\ Credit(session, p).by = session.by \cup {p}
<1>1. MaxSec \in Nat /\ session.sec \in 0..MaxSec
  BY DataAssumption DEF Session
<1>2. (IF session.sec < MaxSec THEN session.sec + 1 ELSE session.sec) \in 0..MaxSec
  BY <1>1
<1>3. QED BY <1>2 DEF Credit, Session

\* The poll's step for one app: the app is what it was when the poll began, if it is
\* there at all.
LEMMA InvPollApp ==
  ASSUME Inv, NEW t \in todo, PollApp(t) PROVE Inv'
<1> DEFINE a == t[1]
           p == t[2]
<1>1. a \in AppIds /\ p \in Programs /\ t[3] \in BOOLEAN
  BY DEF Inv, TypeOK
<1>2. /\ UNCHANGED <<apps, lastApp, noted, stage, days, pollDay, world, idsReset>>
      /\ todo' \subseteq todo
  BY DEF PollApp
<1>3. /\ stage' \in [Threads -> Stages] /\ days' \in [Threads -> {0} \cup Retentions]
      /\ pollDay' \in Days /\ noted' \in Days
      /\ open \in [AppIds -> Session \cup {None}]
  BY <1>2 DEF Inv, TypeOK
<1>4. ~idsReset => a <= lastApp /\ (apps[a] # None => apps[a] = p)
  BY DEF Inv, IdsMeanOneThing, ListOwns
<1>5. \A b \in AppIds : open[b] # None /\ ~idsReset /\ apps[b] # None =>
        open[b].by \subseteq {apps[b]}
  BY DEF Inv, IdsMeanOneThing, SessionOwns
<1>6. MayInsert(a) =>
        /\ NewSession \in Session /\ NewSession.sid = lastSession + 1
        /\ ~NewSession.gone /\ NewSession.by = {} /\ apps[a] # None
  <2> SUFFICES ASSUME MayInsert(a)
               PROVE  NewSession \in Session /\ apps[a] # None
    BY DEF NewSession
  <2>1. lastSession + 1 \in SessionIds /\ 0 \in 0..MaxSec /\ pollDay \in Days
    BY DataAssumption DEF MayInsert, SessionIds, Inv, TypeOK
  <2>2. QED BY <2>1 DEF NewSession, Session, MayInsert
<1>7. CASE UNCHANGED <<rows, lastSession, open>>
  BY <1>2, <1>3, <1>5, <1>7, RowsAreAlike, InvKept
<1>8. CASE Launched(a, t[3]) /\ MayInsert(a)
  BY <1>1, <1>2, <1>4, <1>6, <1>8, RowsAreAlike, InvInserted DEF Launched
<1>9. CASE Stopped(a, t[3])
  <2>1. rows' = Saved(rows, a) /\ open' = [open EXCEPT ![a] = None]
        /\ open[a] # None /\ UNCHANGED lastSession
    BY <1>9 DEF Stopped
  <2>2. Alike(rows')
    BY <1>1, <2>1, SavedIsAlike
  <2>3. open' \in [AppIds -> Session \cup {None}]
    BY <1>3, <2>1
  <2>4. \A b \in AppIds : open'[b] # None => open'[b] = open[b]
    BY <1>3, <2>1
  <2>5. QED BY <1>2, <1>3, <1>5, <2>1, <2>2, <2>3, <2>4, InvKept
<1>10. CASE Continues(a, p, t[3])
  <2>1. open[a] \in Session /\ open[a] # None
    BY <1>1, <1>3, <1>10 DEF Continues
  <2>2. CASE open[a].day # pollDay /\ MayInsert(a)
    <3>1. /\ rows' = Inserted(Saved(rows, a), a) /\ lastSession' = lastSession + 1
          /\ open' = [open EXCEPT ![a] = Credit(NewSession, p)]
      BY <1>10, <2>2 DEF Continues
    <3>2. /\ Credit(NewSession, p) \in Session
          /\ Credit(NewSession, p).sid = lastSession + 1 /\ ~Credit(NewSession, p).gone
          /\ Credit(NewSession, p).by = {p}
      BY <1>1, <1>6, <2>2, Credited
    <3>3. Alike(Saved(rows, a))
      BY <1>1, <2>1, SavedIsAlike
    <3>4. ~idsReset => Credit(NewSession, p).by \subseteq {apps[a]} /\ a <= lastApp
      BY <1>4, <1>6, <2>2, <3>2
    <3>5. QED BY <1>1, <1>2, <2>2, <3>1, <3>2, <3>3, <3>4, InvInserted
  <2>3. CASE ~(open[a].day # pollDay /\ MayInsert(a))
    <3>1. open' = [open EXCEPT ![a] = Credit(open[a], p)] /\ UNCHANGED lastSession
          /\ (rows' = Saved(rows, a) \/ rows' = rows)
      BY <1>10, <2>3 DEF Continues
    <3>2. Alike(rows')
      BY <1>1, <2>1, <3>1, SavedIsAlike, RowsAreAlike
    <3>3. /\ Credit(open[a], p) \in Session
          /\ Credit(open[a], p).sid = open[a].sid /\ Credit(open[a], p).gone = open[a].gone
          /\ Credit(open[a], p).by = open[a].by \cup {p}
      BY <1>1, <2>1, Credited
    <3>4. open' \in [AppIds -> Session \cup {None}]
      BY <1>3, <3>1, <3>3
    <3>5. ASSUME NEW b \in AppIds, open'[b] # None
          PROVE  /\ open[b] # None
                 /\ open'[b].sid = open[b].sid /\ open'[b].gone = open[b].gone
                 /\ ~idsReset /\ apps[b] # None => open'[b].by \subseteq {apps[b]}
      <4>1. CASE b = a
        <5>1. open'[b] = Credit(open[a], p)
          BY <1>1, <1>3, <3>1, <4>1
        <5>2. ~idsReset /\ apps[a] # None => open[a].by \cup {p} \subseteq {apps[a]}
          BY <1>1, <1>4, <1>5, <2>1
        <5>3. QED BY <2>1, <3>3, <4>1, <5>1, <5>2
      <4>2. CASE b # a
        <5>1. open'[b] = open[b]
          BY <1>1, <1>3, <3>1, <4>2
        <5>2. QED BY <1>5, <3>5, <5>1
      <4>3. QED BY <4>1, <4>2
    <3>6. QED BY <1>2, <1>3, <3>1, <3>2, <3>4, <3>5, InvKept
  <2>4. QED BY <2>2, <2>3
<1>11. CASE Absent(a, t[3]) \/ (Launched(a, t[3]) /\ ~MayInsert(a))
  BY <1>7, <1>11 DEF Absent, Launched
<1>12. QED BY <1>8, <1>9, <1>10, <1>11 DEF PollApp

\* A step of a thread that touches neither table but by a deletion, and no session.
LEMMA InvDeletion ==
  ASSUME Inv, NEW deleted \in SUBSET SessionIds,
         rows' = Without(deleted), open' = Orphaned(deleted),
         UNCHANGED <<apps, lastApp, lastSession, todo, world, idsReset>>,
         stage' \in [Threads -> Stages], days' \in [Threads -> {0} \cup Retentions],
         pollDay' \in Days, noted' \in Days
  PROVE  Inv'
<1>1. TypeOK'
  BY Deletion DEF Inv, TypeOK, world
<1>2. RemovedIsForgotten'
  BY Deletion DEF Inv, RemovedIsForgotten
<1>3. AppsCounted'
  BY DEF Inv, AppsCounted
<1>4. ASSUME ~idsReset' PROVE IdsMeanOneThing'
  BY <1>4, DeletionOwns DEF Inv, IdsMeanOneThing, ListOwns
<1>5. QED BY <1>1, <1>2, <1>3, <1>4 DEF Inv

\* The daily reset, in either thread: nothing of the database changes but by the DELETE.
LEMMA InvReset ==
  ASSUME Inv, NEW t \in Threads, NoteDay(t) \/ ReadRetention(t) \/ Prune(t) PROVE Inv'
<1>1. /\ stage \in [Threads -> Stages] /\ days \in [Threads -> {0} \cup Retentions]
      /\ pollDay \in Days /\ noted \in Days /\ today \in Days /\ keep \in Retentions
      /\ open \in [AppIds -> Session \cup {None}]
      /\ \A b \in AppIds : open[b] # None /\ ~idsReset /\ apps[b] # None =>
           open[b].by \subseteq {apps[b]}
  BY DEF Inv, TypeOK, IdsMeanOneThing, SessionOwns
<1>2. stage' \in [Threads -> Stages]
  BY <1>1 DEF NoteDay, ReadRetention, Prune, Onward, Goto, Stages
<1>3. CASE NoteDay(t) \/ ReadRetention(t)
  <2>1. /\ UNCHANGED <<tables, open, todo, pollDay, world, idsReset>>
        /\ days' \in [Threads -> {0} \cup Retentions] /\ noted' \in Days
    BY <1>1, <1>3 DEF NoteDay, ReadRetention
  <2>2. Alike(rows')
    BY <2>1, RowsAreAlike DEF tables
  <2>3. QED BY <1>1, <1>2, <2>1, <2>2, InvKept DEF tables
<1>4. CASE Prune(t)
  <2>1. Outdated(t) \in SUBSET SessionIds
    BY DEF Outdated, Rows
  <2>2. /\ rows' = Without(Outdated(t)) /\ open' = Orphaned(Outdated(t))
        /\ days' \in [Threads -> {0} \cup Retentions]
        /\ UNCHANGED <<apps, lastApp, lastSession, noted, todo, pollDay, world, idsReset>>
    BY <1>1, <1>4 DEF Prune
  <2>3. QED BY <1>1, <1>2, <2>1, <2>2, InvDeletion
<1>5. QED BY <1>3, <1>4

\* A poll's list is of the apps as they are.
LEMMA InvReadApps == ASSUME Inv, ReadApps PROVE Inv'
<1>1. PICK running \in SUBSET Programs :
        todo' = {<<a, apps[a], apps[a] \in running>> : a \in {b \in AppIds : apps[b] # None}}
  BY DEF ReadApps
<1>2. /\ stage' = [stage EXCEPT !["poll"] = "date"]
      /\ UNCHANGED <<tables, open, noted, days, pollDay, world, idsReset>>
  BY DEF ReadApps, Goto
<1>3. todo' \subseteq AppIds \X Programs \X BOOLEAN
      /\ \A t \in todo' : t[1] \in AppIds /\ apps[t[1]] # None /\ t[2] = apps[t[1]]
  <2> SUFFICES ASSUME NEW t \in todo'
               PROVE  /\ t \in AppIds \X Programs \X BOOLEAN
                      /\ t[1] \in AppIds /\ apps[t[1]] # None /\ t[2] = apps[t[1]]
    OBVIOUS
  <2>1. PICK a \in AppIds : apps[a] # None /\ t = <<a, apps[a], apps[a] \in running>>
    BY <1>1
  <2>2. apps[a] \in Programs /\ (apps[a] \in running) \in BOOLEAN
    BY <2>1 DEF Inv, TypeOK
  <2>3. QED BY <2>1, <2>2
<1>4. TypeOK'
  BY <1>2, <1>3 DEF Inv, TypeOK, Stages, tables, world
<1>5. RemovedIsForgotten' /\ AppsCounted'
  BY <1>2 DEF Inv, RemovedIsForgotten, AppsCounted, tables
<1>6. ASSUME ~idsReset' PROVE IdsMeanOneThing'
  BY <1>2, <1>3, <1>6
     DEF Inv, IdsMeanOneThing, SessionOwns, ListOwns, RowOwns, AppsCounted, tables
<1>7. QED BY <1>4, <1>5, <1>6 DEF Inv

\* An app is removed, and the table's key constraint takes its rows with it.
LEMMA InvRemoveApp == ASSUME Inv, NEW a \in AppIds, RemoveApp(a) PROVE Inv'
<1> DEFINE deleted == Rows(LAMBDA r : r.app = a)
<1>1. /\ deleted \in SUBSET SessionIds
      /\ \A s \in SessionIds : s \in deleted <=> rows[s] # None /\ rows[s].app = a
  BY DEF Rows
<1>2. /\ rows' = Without(deleted) /\ open' = Orphaned(deleted)
      /\ apps' = [apps EXCEPT ![a] = None]
      /\ UNCHANGED <<lastApp, lastSession, passes, world, idsReset>>
  BY DEF RemoveApp
<1> HIDE DEF deleted
<1>3. /\ apps' \in [AppIds -> Programs \cup {None}] /\ apps'[a] = None
      /\ \A b \in AppIds \ {a} : apps'[b] = apps[b]
  BY <1>2 DEF Inv, TypeOK
<1>4. ASSUME NEW s \in SessionIds, rows'[s] # None
      PROVE  rows'[s] = rows[s] /\ rows[s] # None /\ rows[s].app \in AppIds \ {a}
  BY <1>1, <1>2, <1>4, Deletion DEF Inv, TypeOK, Row
<1>5. TypeOK'
  BY <1>1, <1>2, <1>3, Deletion DEF Inv, TypeOK, passes, world
<1>6. RemovedIsForgotten'
  BY <1>2, <1>3, <1>4 DEF Inv, RemovedIsForgotten
<1>7. AppsCounted'
  BY <1>2, <1>3 DEF Inv, AppsCounted, world
<1>8. ASSUME ~idsReset' PROVE IdsMeanOneThing'
  <2>1. ~idsReset /\ IdsMeanOneThing
    BY <1>2, <1>8 DEF Inv
  <2>2. ASSUME NEW b \in AppIds, open'[b] # None PROVE SessionOwns(b)'
    <3>1. /\ open[b] # None /\ open'[b].sid = open[b].sid /\ open'[b].by = open[b].by
          /\ open'[b].gone => open[b].gone \/ open[b].sid \in deleted
      BY <1>1, <1>2, <2>2, Deletion
    <3>2. SessionOwns(b) /\ open[b].sid \in SessionIds
      BY <2>1, <3>1 DEF IdsMeanOneThing, Inv, TypeOK, Session
    <3>3. rows'[open[b].sid] = IF open[b].sid \in deleted THEN None ELSE rows[open[b].sid]
      BY <1>1, <1>2, <3>2, Deletion
    <3>4. QED BY <1>2, <1>3, <3>1, <3>2, <3>3 DEF SessionOwns
  <2>3. \A t \in todo' : ListOwns(t)'
    BY <1>2, <1>3, <2>1 DEF passes, IdsMeanOneThing, ListOwns, Inv, TypeOK
  <2>4. \A s \in SessionIds : rows'[s] # None => RowOwns(s)'
    BY <1>3, <1>4, <2>1 DEF IdsMeanOneThing, RowOwns
  <2>5. QED BY <2>2, <2>3, <2>4 DEF IdsMeanOneThing
<1>9. QED BY <1>5, <1>6, <1>7, <1>8 DEF Inv

\* Today's rows are deleted, and the sessions they were of go on.
LEMMA InvClearToday == ASSUME Inv, ClearToday PROVE Inv'
<1> DEFINE deleted == Rows(LAMBDA r : r.day = today)
<1>1. deleted \in SUBSET SessionIds
  BY DEF Rows
<1>2. /\ rows' = Without(deleted) /\ open' = Orphaned(deleted)
      /\ UNCHANGED <<apps, lastApp, lastSession, passes, world, idsReset>>
  BY DEF ClearToday
<1> HIDE DEF deleted
<1>3. TypeOK'
  BY <1>1, <1>2, Deletion DEF Inv, TypeOK, passes, world
<1>4. RemovedIsForgotten'
  BY <1>1, <1>2, Deletion DEF Inv, RemovedIsForgotten
<1>5. AppsCounted'
  BY <1>2 DEF Inv, AppsCounted, world
<1>6. ASSUME ~idsReset' PROVE IdsMeanOneThing'
  BY <1>1, <1>2, <1>6, DeletionOwns DEF passes, Inv, IdsMeanOneThing, ListOwns
<1>7. QED BY <1>3, <1>4, <1>5, <1>6 DEF Inv

\* Everything is deleted, and the ids begin again.
LEMMA InvDeleteAll == ASSUME Inv, DeleteAll PROVE Inv'
<1>1. /\ rows' = [s \in SessionIds |-> None] /\ apps' = [a \in AppIds |-> None]
      /\ open' = Orphaned(SessionIds) /\ lastApp' = 0 /\ lastSession' = 0
      /\ idsReset' = (idsReset \/ todo # {} \/ \E a \in AppIds : open[a] # None)
      /\ UNCHANGED <<passes, world>>
  BY DEF DeleteAll
<1>2. /\ open' \in [AppIds -> Session \cup {None}]
      /\ \A a \in AppIds : open'[a] # None <=> open[a] # None
  <2>1. rows' = Without(SessionIds) /\ SessionIds \in SUBSET SessionIds
    BY <1>1 DEF Without
  <2>2. QED BY <1>1, <2>1, Deletion
<1>3. TypeOK'
  BY <1>1, <1>2, DataAssumption DEF Inv, TypeOK, passes, world
<1>4. RemovedIsForgotten' /\ AppsCounted'
  BY <1>1 DEF Inv, RemovedIsForgotten, AppsCounted, world
<1>5. ASSUME ~idsReset' PROVE IdsMeanOneThing'
  BY <1>1, <1>2, <1>5 DEF passes, IdsMeanOneThing
<1>6. QED BY <1>3, <1>4, <1>5 DEF Inv

\* An app comes under an id that nothing has had before.
LEMMA InvAddApp == ASSUME Inv, NEW p \in Programs, AddApp(p) PROVE Inv'
<1> DEFINE new == lastApp + 1
<1>1. /\ apps' = [apps EXCEPT ![new] = p] /\ lastApp' = new /\ new <= MaxApps
      /\ UNCHANGED <<rows, lastSession, monitor, world, idsReset>>
  BY DEF AddApp, NextApp
<1>2. new \in AppIds /\ new \in 0..MaxApps /\ lastApp \in Nat
  BY <1>1, DataAssumption DEF AppIds, Inv, TypeOK
<1>3. /\ apps' \in [AppIds -> Programs \cup {None}] /\ apps'[new] = p
      /\ \A a \in AppIds \ {new} : apps'[a] = apps[a]
  BY <1>1, <1>2 DEF Inv, TypeOK
<1>4. TypeOK'
  BY <1>1, <1>2, <1>3 DEF Inv, TypeOK, monitor, passes, world
<1>5. apps[new] = None
  BY <1>2 DEF Inv, AppsCounted
<1>6. ASSUME NEW s \in SessionIds, rows[s] # None
      PROVE  rows[s].app \in AppIds \ {new} /\ apps[rows[s].app] # None
  BY <1>5, <1>6 DEF Inv, TypeOK, Row, RemovedIsForgotten
<1>7. RemovedIsForgotten'
  BY <1>1, <1>3, <1>6
     DEF Inv, RemovedIsForgotten, monitor, world
<1>8. AppsCounted'
  BY <1>1, <1>2, <1>3 DEF Inv, AppsCounted, AppIds
<1>9. ASSUME ~idsReset' PROVE IdsMeanOneThing'
  <2>1. ~idsReset /\ IdsMeanOneThing
    BY <1>1, <1>9 DEF Inv
  <2>2. ASSUME NEW a \in AppIds, open'[a] # None PROVE SessionOwns(a)'
    <3>1. open'[a] = open[a] /\ SessionOwns(a)
      BY <1>1, <2>1, <2>2 DEF monitor, passes, IdsMeanOneThing
    <3>2. a <= lastApp
      BY <3>1 DEF SessionOwns
    <3>3. a # new /\ a <= new
      BY <1>2, <3>2 DEF AppIds
    <3>4. QED BY <1>1, <1>3, <3>1, <3>3 DEF SessionOwns
  <2>3. ASSUME NEW t \in todo' PROVE ListOwns(t)'
    <3>1. ListOwns(t) /\ t[1] \in AppIds
      BY <1>1, <2>1 DEF monitor, passes, IdsMeanOneThing, Inv, TypeOK
    <3>2. t[1] # new /\ t[1] <= new
      BY <1>2, <3>1 DEF AppIds, ListOwns
    <3>3. QED BY <1>1, <1>3, <3>1, <3>2 DEF ListOwns
  <2>4. \A s \in SessionIds : rows'[s] # None => RowOwns(s)'
    BY <1>1, <1>3, <1>6, <2>1 DEF IdsMeanOneThing, RowOwns
  <2>5. QED BY <2>2, <2>3, <2>4 DEF IdsMeanOneThing
<1>10. QED BY <1>4, <1>7, <1>8, <1>9 DEF Inv

LEMMA InvNext == Inv /\ [Next]_vars => Inv'
<1> SUFFICES ASSUME Inv, [Next]_vars PROVE Inv'
  OBVIOUS
<1>1. /\ stage \in [Threads -> Stages] /\ days \in [Threads -> {0} \cup Retentions]
      /\ pollDay \in Days /\ noted \in Days /\ today \in Days /\ 0 \in Days
      /\ open \in [AppIds -> Session \cup {None}]
      /\ \A b \in AppIds : open[b] # None /\ ~idsReset /\ apps[b] # None =>
           open[b].by \subseteq {apps[b]}
  BY DataAssumption DEF Inv, TypeOK, IdsMeanOneThing, SessionOwns, Days
<1>2. SaveSessions => Alike(rows')
  BY AllSavedIsAlike DEF SaveSessions
<1>3. CASE ReadDate
  <2>1. /\ stage' \in [Threads -> Stages] /\ pollDay' \in Days
        /\ UNCHANGED <<tables, open, noted, days, todo, world, idsReset>>
    BY <1>1, <1>3 DEF ReadDate, Goto, Stages
  <2>2. Alike(rows')
    BY <2>1, RowsAreAlike DEF tables
  <2>3. QED BY <1>1, <2>1, <2>2, InvKept DEF tables
<1>4. CASE SaveAll
  <2>1. /\ stage' \in [Threads -> Stages] /\ pollDay' \in Days /\ Alike(rows')
        /\ UNCHANGED <<apps, lastApp, lastSession, open, noted, days, todo, world, idsReset>>
    BY <1>1, <1>2, <1>4 DEF SaveAll, Goto, Stages
  <2>2. QED BY <1>1, <2>1, InvKept
<1>5. CASE Restart
  <2>1. Alike(rows')
    BY <1>2, <1>5, RowsAreAlike DEF Restart
  <2>2. /\ open' = [a \in AppIds |-> None] /\ todo' = {} /\ noted' = today /\ pollDay' = 0
        /\ stage' = [t \in Threads |-> "idle"] /\ days' = [t \in Threads |-> 0]
        /\ UNCHANGED <<apps, lastApp, lastSession, world, idsReset>>
    BY <1>5 DEF Restart
  <2>3. /\ open' \in [AppIds -> Session \cup {None}]
        /\ \A a \in AppIds : ~(open'[a] # None)
        /\ stage' \in [Threads -> Stages] /\ days' \in [Threads -> {0} \cup Retentions]
    BY <2>2 DEF Stages
  <2>4. QED BY <1>1, <2>1, <2>2, <2>3, InvKept
<1>6. ASSUME NEW choice \in Retentions, SetRetention(choice) PROVE Inv'
  BY <1>6 DEF SetRetention, tables, monitor, passes, Inv, TypeOK, RemovedIsForgotten,
     AppsCounted, IdsMeanOneThing, SessionOwns, ListOwns, RowOwns
<1>7. CASE NextDay
  <2>1. today' = today + 1 /\ today < LastDay /\ UNCHANGED <<tables, monitor, keep, idsReset>>
    BY <1>7 DEF NextDay
  <2>2. TypeOK'
    BY <2>1, DataAssumption DEF Inv, TypeOK, tables, monitor, passes, Days
  <2>3. QED BY <2>1, <2>2 DEF tables, monitor, passes, Inv, RemovedIsForgotten, AppsCounted,
            IdsMeanOneThing, SessionOwns, ListOwns, RowOwns
<1>8. CASE UNCHANGED vars
  BY <1>8 DEF vars, tables, monitor, passes, world, Inv, TypeOK, RemovedIsForgotten,
     AppsCounted, IdsMeanOneThing, SessionOwns, ListOwns, RowOwns
<1>9. QED BY <1>3, <1>4, <1>5, <1>6, <1>7, <1>8, InvReset, InvReadApps, InvPollApp,
            InvRemoveApp, InvClearToday, InvDeleteAll, InvAddApp DEF Next, Reset, Poll, User

LEMMA Invariance == Spec => []Inv
BY InvInit, InvNext, PTL DEF Spec

-----------------------------------------------------------------------------
(* The theorems *)

\* The variables stay in their types (database.py:23-48, monitor.py:75-90).
THEOREM TypeCorrect == Spec => []TypeOK
<1>1. Inv => TypeOK BY DEF Inv
<1>2. QED BY <1>1, Invariance, PTL

\* A removed app has no usage, whatever a poll that began before the removal writes
\* after it (files_page.py:410, database.py:40).
THEOREM RemovedAppsAreForgotten == Spec => []RemovedIsForgotten
<1>1. Inv => RemovedIsForgotten BY DEF Inv
<1>2. QED BY <1>1, Invariance, PTL

\* A row that was deleted under a session that goes on does not come back, until
\* everything is deleted under open sessions (settings_page.py:634, database.py:253-270).
THEOREM DeletedRowsStayDeleted == Spec => []DeletedStaysDeleted
<1>1. Inv => DeletedStaysDeleted
  BY DEF Inv, IdsMeanOneThing, SessionOwns, DeletedStaysDeleted
<1>2. QED BY <1>1, Invariance, PTL

\* Every row's seconds were earned by the program of its app, under the same condition
\* (database.py:25, 40).
THEOREM UsageIsEarned == Spec => []UsageIsTheApps
<1>1. Inv => UsageIsTheApps
  BY DEF Inv, IdsMeanOneThing, RowOwns, UsageIsTheApps
<1>2. QED BY <1>1, Invariance, PTL

\* A thread about to prune has read how many days to keep, and it is not all of them.
PruneKnows == \A t \in Threads : stage[t] = "prune" => days[t] > 0

LEMMA PruneIsKnown == Spec => []PruneKnows
<1>1. Init => PruneKnows
  BY DEF Init, PruneKnows
<1>2. ASSUME Inv, PruneKnows, [Next]_vars PROVE PruneKnows'
  <2>1. stage \in [Threads -> Stages] /\ days \in [Threads -> {0} \cup Retentions]
    BY <1>2 DEF Inv, TypeOK
  <2>2. ASSUME NEW t \in Threads, NoteDay(t) \/ Prune(t) PROVE PruneKnows'
    BY <1>2, <2>1, <2>2 DEF NoteDay, Prune, Onward, Goto, PruneKnows
  <2>3. ASSUME NEW t \in Threads, ReadRetention(t) PROVE PruneKnows'
    BY <1>2, <2>1, <2>3 DEF ReadRetention, Onward, Goto, PruneKnows
  <2>4. CASE ReadApps \/ ReadDate \/ SaveAll \/ Restart
    BY <1>2, <2>1, <2>4 DEF ReadApps, ReadDate, SaveAll, Restart, Goto, PruneKnows
  <2>5. ASSUME NEW t \in todo, PollApp(t) PROVE PruneKnows'
    BY <1>2, <2>5 DEF PollApp, PruneKnows
  <2>6. CASE User
    BY <1>2, <2>6 DEF User, ClearToday, DeleteAll, AddApp, RemoveApp, SetRetention, passes,
       monitor, PruneKnows
  <2>7. CASE NextDay \/ UNCHANGED vars
    BY <1>2, <2>7 DEF NextDay, vars, monitor, passes, PruneKnows
  <2>8. QED BY <1>2, <2>2, <2>3, <2>4, <2>5, <2>6, <2>7 DEF Next, Reset, Poll
<1>3. QED BY <1>1, <1>2, Invariance, PTL DEF Spec

\* The monitor deletes nothing but by retention: no UPDATE or INSERT of a poll loses a
\* row, whatever id it goes by.
LEMMA PollAppKeepsRows ==
  ASSUME Inv, NEW t \in todo, PollApp(t), NEW s \in SessionIds, rows[s] # None
  PROVE  rows'[s] # None
<1>1. t[1] \in AppIds
  BY DEF Inv, TypeOK
<1>2. CASE UNCHANGED rows
  BY <1>2
<1>3. ASSUME open[t[1]] # None, rows' = Saved(rows, t[1]) PROVE rows'[s] # None
  BY <1>1, <1>3, SavedIsAlike DEF Alike
<1>4. ASSUME NEW table, Alike(table), rows' = Inserted(table, t[1])
      PROVE  rows'[s] # None
  <2>1. NewRow(t[1]) # None
    <3>1. 0 \in 0..MaxSec /\ pollDay \in Days
      BY DataAssumption DEF Inv, TypeOK
    <3>2. QED BY <1>1, <3>1, NoneIsNothing DEF NewRow, Row
  <2>2. table[s] # None /\ table \in [SessionIds -> Row \cup {None}]
    BY <1>4 DEF Alike
  <2>3. QED BY <1>4, <2>1, <2>2 DEF Inserted
<1>5. CASE Launched(t[1], t[3])
  BY <1>2, <1>4, <1>5, RowsAreAlike DEF Launched
<1>6. CASE Stopped(t[1], t[3])
  BY <1>3, <1>6 DEF Stopped
<1>7. CASE Continues(t[1], t[2], t[3])
  <2>1. open[t[1]] # None /\ Alike(Saved(rows, t[1]))
    BY <1>1, <1>7, SavedIsAlike DEF Continues
  <2>2. QED BY <1>2, <1>3, <1>4, <1>7, <2>1 DEF Continues
<1>8. CASE Absent(t[1], t[3])
  BY <1>2, <1>8 DEF Absent
<1>9. QED BY <1>5, <1>6, <1>7, <1>8 DEF PollApp

\* A row of usage goes when the user deletes it or its app, or when a thread that noticed
\* the new date finds it older than the retention it read, and not otherwise, whatever
\* falls between the two (database.py:343-362, monitor.py:546-567, 688-699).
THEOREM NothingElseDeletes == Spec => HistoryIsKept
<1> DEFINE Allowed(s) ==
             \/ ClearToday /\ rows[s].day = today
             \/ DeleteAll
             \/ RemoveApp(rows[s].app)
             \/ \E t \in Threads : Prune(t) /\ days[t] > 0 /\ rows[s].day < today - days[t]
           Kept == \A s \in SessionIds : rows[s] # None /\ rows'[s] = None => Allowed(s)
<1>1. ASSUME Inv, PruneKnows, [Next]_vars PROVE Kept
  <2> SUFFICES ASSUME NEW s \in SessionIds, rows[s] # None, rows'[s] = None PROVE Allowed(s)
    OBVIOUS
  <2>1. ASSUME NEW t \in Threads, Prune(t) PROVE Allowed(s)
    <3>1. rows' = Without(Outdated(t)) /\ stage[t] = "prune"
      BY <2>1 DEF Prune
    <3>2. s \in Outdated(t)
      BY <3>1 DEF Without
    <3>3. rows[s].day < today - days[t]
      BY <3>2 DEF Outdated, Rows
    <3>4. days[t] > 0
      BY <1>1, <3>1 DEF PruneKnows
    <3>5. QED BY <2>1, <3>3, <3>4
  <2>2. CASE SaveAll \/ Restart
    <3>1. rows' = rows \/ Alike(rows')
      BY <1>1, <2>2, AllSavedIsAlike DEF SaveAll, Restart, SaveSessions
    <3>2. QED BY <3>1 DEF Alike
  <2>3. CASE ClearToday
    BY <2>3 DEF ClearToday, Without, Rows
  <2>4. ASSUME NEW a \in AppIds, RemoveApp(a) PROVE Allowed(s)
    BY <2>4 DEF RemoveApp, Without, Rows
  <2>5. CASE ReadApps \/ ReadDate \/ NextDay \/ UNCHANGED vars
    BY <2>5 DEF ReadApps, ReadDate, NextDay, vars, tables
  <2>6. ASSUME NEW t \in Threads, NoteDay(t) \/ ReadRetention(t) PROVE FALSE
    BY <2>6 DEF NoteDay, ReadRetention, tables
  <2>7. ASSUME \/ \E p \in Programs : AddApp(p)
               \/ \E choice \in Retentions : SetRetention(choice)
        PROVE  FALSE
    BY <2>7 DEF AddApp, SetRetention, tables
  <2>8. QED BY <1>1, <2>1, <2>2, <2>3, <2>4, <2>5, <2>6, <2>7, PollAppKeepsRows
            DEF Next, Reset, Poll, User
<1>2. Inv /\ PruneKnows /\ [Next]_vars => [Kept]_vars
  BY <1>1
<1>3. QED BY <1>2, Invariance, PruneIsKnown, PTL DEF Spec, HistoryIsKept

=============================================================================
