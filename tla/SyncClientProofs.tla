--------------------------- MODULE SyncClientProofs ---------------------------
(***************************************************************************)
(* SyncClient for any number of apps, any totals, days and restarts: the   *)
(* figure for other devices is never too large on a day without a mishap,  *)
(* and exact when a cycle has completed.                                   *)
(***************************************************************************)
EXTENDS SyncClient, TLAPS

LEMMA InitSyncInv == ASSUME SyncAssumption, Init PROVE SyncInv
<1>1. TypeOK
  <2>1. None \in Totals /\ None \in [Apps -> 0..2*MaxUse]
    BY DEF SyncAssumption, None, Totals
  <2>2. 0 \in Dates /\ StaleAfter + 1 \in 0..StaleAfter + 1
    BY DEF SyncAssumption, Dates
  <2>3. /\ NoReply \in [totals : [Apps -> 0..2*MaxUse], others : Totals]
        /\ NeverFetched \in [totals : [Apps -> 0..2*MaxUse],
                             date : Dates \cup {NoDay}, age : 0..StaleAfter + 1]
        /\ NeverUploaded \in [totals : Totals, date : Dates \cup {NoDay}]
    BY <2>1, <2>2 DEF NoReply, NeverFetched, NeverUploaded
  <2>4. /\ reply \in [totals : [Apps -> 0..2*MaxUse], others : Totals]
        /\ group \in [totals : [Apps -> 0..2*MaxUse], date : Dates \cup {NoDay},
                      age : 0..StaleAfter + 1]
        /\ uploaded \in [totals : Totals, date : Dates \cup {NoDay}]
    BY <2>3, Zenon DEF Init
  <2>5. enabled \in BOOLEAN /\ spoiled \in BOOLEAN
    BY Zenon DEF Init
  <2>6. /\ today \in Dates /\ stamp \in Dates /\ day \in Dates
        /\ local \in Totals /\ snap \in Totals /\ stored \in Totals /\ theirs \in Totals
        /\ mapped \subseteq Apps /\ wire \subseteq Totals
        /\ restarts \in 0..MaxRestarts
    BY <2>1, <2>2 DEF SyncAssumption, Init
  <2>7. QED BY <2>4, <2>5, <2>6 DEF Init, TypeOK
<1>2. DatesPast /\ TodayOK
  BY DEF SyncAssumption, Init, None, NeverFetched, NeverUploaded, DatesPast,
     TodayOK, ServerHasAtMost, Countable, DatesAgree, SnapIsLatest,
     OwnPartIsKnown, ReplyIsExact, GroupIsNoMore, Dated
<1>3. QED BY <1>1, <1>2 DEF SyncInv

-----------------------------------------------------------------------------
(* The cycle *)

\* Steps that lead nowhere or to a place where the cycle claims nothing, and
\* change no total and no date that anything is computed from.
LEMMA QuietStep ==
  ASSUME SyncAssumption, SyncInv, TypeOK',
         UNCHANGED <<today, local, mapped, uploaded, stored, theirs, wire, spoiled>>,
         group'.totals = group.totals, group'.date = group.date,
         \/ pc' \in {"sleep", "map", "read"} /\ stamp' <= today /\ day' <= today
         \/ UNCHANGED <<pc, cycle>>
  PROVE  SyncInv'
<1>1. DatesPast'
  BY DEF SyncInv, DatesPast, cycle
<1>2. ASSUME ~spoiled' PROVE TodayOK'
  BY <1>2 DEF SyncInv, TodayOK, ServerHasAtMost, Countable, DatesAgree,
     SnapIsLatest, OwnPartIsKnown, ReplyIsExact, GroupIsNoMore, Own, Dated, cycle
<1>3. QED BY <1>1, <1>2 DEF SyncInv

LEMMA BeginCycleStep == ASSUME SyncAssumption, SyncInv, BeginCycle PROVE SyncInv'
<1>1. TypeOK'
  BY DEF SyncInv, TypeOK, SyncAssumption, Totals, Dates, BeginCycle, cycle,
     memory, server
<1>2. stamp' <= today /\ day' <= today
  BY DEF SyncInv, TypeOK, DatesPast, Dates, SyncAssumption, BeginCycle, cycle,
     memory, server
<1>3. QED BY <1>1, <1>2, QuietStep DEF BeginCycle, cycle, memory, server

LEMMA MapFailsStep == ASSUME SyncAssumption, SyncInv, MapFails PROVE SyncInv'
<1>1. TypeOK'
  BY DEF SyncInv, TypeOK, SyncAssumption, Totals, Dates, MapFails, cycle,
     memory, server
<1>2. stamp' <= today /\ day' <= today
  BY DEF SyncInv, TypeOK, DatesPast, Dates, SyncAssumption, MapFails, cycle,
     memory, server
<1>3. QED BY <1>1, <1>2, QuietStep DEF MapFails, cycle, memory, server

\* More apps are mapped: more may be uploaded.
LEMMA MapAppsStep == ASSUME SyncAssumption, SyncInv, MapApps PROVE SyncInv'
<1>1. TypeOK'
  BY DEF SyncInv, TypeOK, SyncAssumption, Totals, Dates, None, NoReply,
     MapApps, cycle, memory, server
<1>2. DatesPast'
  BY DEF SyncInv, TypeOK, DatesPast, SyncAssumption, Dates, MapApps, cycle,
     memory, server
<1>3. ASSUME ~spoiled' PROVE TodayOK'
  <2> USE <1>3 DEF SyncInv, TypeOK, SyncAssumption, Totals, Dates, None,
     DatesPast, TodayOK, ServerHasAtMost, Dated, MapApps, cycle, memory,
     server
  <2>1. (\A b \in Apps : ServerHasAtMost(Countable(b), b))'
    BY DEF Countable
  <2>2. SnapIsLatest'
    BY DEF SnapIsLatest, Countable, DatesAgree
  <2>3. /\ DatesAgree'
        /\ OwnPartIsKnown'
        /\ ReplyIsExact'
        /\ GroupIsNoMore'
    BY DEF DatesAgree, OwnPartIsKnown, Own, SnapIsLatest, ReplyIsExact,
       GroupIsNoMore
  <2>4. QED BY <2>1, <2>2, <2>3
<1>4. QED BY <1>1, <1>2, <1>3 DEF SyncInv

\* What is read covers all that was uploaded before.
LEMMA ReadTotalsStep ==
  ASSUME SyncAssumption, SyncInv, ReadTotals
  PROVE  SyncInv'
<1>1. TypeOK'
  <2>1. snap' \in Totals
    BY DEF SyncInv, TypeOK, SyncAssumption, Totals, None, ReadTotals
  <2>2. spoiled' \in BOOLEAN
    BY Zenon DEF SyncInv, TypeOK, ReadTotals
  <2>3. QED
    BY <2>1, <2>2 DEF SyncInv, TypeOK, ReadTotals, memory, server
<1>2. DatesPast'
  BY DEF SyncInv, TypeOK, DatesPast, SyncAssumption, Dates, ReadTotals, cycle,
     memory, server
<1>3. ASSUME ~spoiled' PROVE TodayOK'
  <2> USE <1>3 DEF SyncInv, TypeOK, SyncAssumption, Totals, Dates, None,
     DatesPast, TodayOK, ServerHasAtMost, Dated, ReadTotals, cycle, memory,
     server
  <2>1. SnapIsLatest'
    BY DEF SnapIsLatest, Countable, DatesAgree
  <2>2. /\ (\A b \in Apps : ServerHasAtMost(Countable(b), b))'
        /\ DatesAgree'
        /\ OwnPartIsKnown'
        /\ ReplyIsExact'
        /\ GroupIsNoMore'
    BY DEF Countable, DatesAgree, OwnPartIsKnown, Own, SnapIsLatest,
       ReplyIsExact, GroupIsNoMore
  <2>3. QED BY <2>1, <2>2
<1>4. QED BY <1>1, <1>2, <1>3 DEF SyncInv

LEMMA BuildUploadStep ==
  ASSUME SyncAssumption, SyncInv, BuildUpload
  PROVE  SyncInv'
<1>1. TypeOK'
  BY DEF SyncInv, TypeOK, SyncAssumption, Totals, Dates, None, NoReply,
     BuildUpload, cycle, memory, server
<1>2. DatesPast'
  BY DEF SyncInv, TypeOK, DatesPast, SyncAssumption, Dates, BuildUpload,
     cycle, memory, server
<1>3. ASSUME ~spoiled' PROVE TodayOK'
  <2> USE <1>3 DEF SyncInv, TypeOK, SyncAssumption, Totals, Dates, None,
     DatesPast, TodayOK, ServerHasAtMost, Dated, BuildUpload, cycle, memory,
     server
  <2>1. DatesAgree'
    BY DEF DatesAgree
  <2>2. /\ (\A b \in Apps : ServerHasAtMost(Countable(b), b))'
        /\ SnapIsLatest'
        /\ OwnPartIsKnown'
        /\ ReplyIsExact'
        /\ GroupIsNoMore'
    BY DEF Countable, SnapIsLatest, DatesAgree, OwnPartIsKnown, Own,
       ReplyIsExact, GroupIsNoMore
  <2>3. QED BY <2>1, <2>2
<1>4. QED BY <1>1, <1>2, <1>3 DEF SyncInv

\* With nothing to upload, the server has nothing of us today.
LEMMA NoteDateStep == ASSUME SyncAssumption, SyncInv, NoteDate PROVE SyncInv'
<1>1. TypeOK'
  BY DEF SyncInv, TypeOK, SyncAssumption, Totals, Dates, None, NoReply,
     NoteDate, AfterDating, cycle, memory, server
<1>2. DatesPast'
  BY DEF SyncInv, TypeOK, DatesPast, SyncAssumption, Dates, NoteDate,
     AfterDating, cycle, memory, server
<1>3. ASSUME ~spoiled' PROVE TodayOK'
  <2> USE <1>3 DEF SyncInv, TypeOK, SyncAssumption, Totals, Dates, None,
     DatesPast, TodayOK, ServerHasAtMost, Dated, NoteDate, AfterDating, cycle,
     memory, server
  <2>1. DatesAgree'
    BY DEF DatesAgree
  <2>2. SnapIsLatest'
    BY DEF SnapIsLatest, Countable, DatesAgree
  <2>3. OwnPartIsKnown'
    BY DEF OwnPartIsKnown, Own, DatesAgree, SnapIsLatest
  <2>4. GroupIsNoMore'
    BY DEF GroupIsNoMore, Own, DatesAgree, OwnPartIsKnown, ReplyIsExact,
       SnapIsLatest
  <2>5. /\ (\A b \in Apps : ServerHasAtMost(Countable(b), b))'
        /\ ReplyIsExact'
    BY DEF Countable, ReplyIsExact, Own, DatesAgree, OwnPartIsKnown
  <2>6. QED BY <2>1, <2>2, <2>3, <2>4, <2>5
<1>4. QED BY <1>1, <1>2, <1>3 DEF SyncInv

LEMMA PostUploadStep ==
  ASSUME SyncAssumption, SyncInv, PostUpload
  PROVE  SyncInv'
<1>1. TypeOK'
  BY DEF SyncInv, TypeOK, SyncAssumption, Totals, Dates, None, NoReply,
     PostUpload, cycle, memory, server
<1>2. DatesPast'
  BY DEF SyncInv, TypeOK, DatesPast, SyncAssumption, Dates, PostUpload, cycle,
     memory, server
<1>3. ASSUME ~spoiled' PROVE TodayOK'
  <2> USE <1>3 DEF SyncInv, TypeOK, SyncAssumption, Totals, Dates, None,
     DatesPast, TodayOK, ServerHasAtMost, Dated, PostUpload, cycle, memory,
     server
  <2>1. (\A b \in Apps : ServerHasAtMost(Countable(b), b))'
    BY DEF Countable, SnapIsLatest
  <2>2. SnapIsLatest'
    BY DEF SnapIsLatest, Countable, DatesAgree
  <2>3. /\ DatesAgree'
        /\ OwnPartIsKnown'
        /\ ReplyIsExact'
        /\ GroupIsNoMore'
    BY DEF DatesAgree, OwnPartIsKnown, Own, SnapIsLatest, ReplyIsExact,
       GroupIsNoMore
  <2>4. QED BY <2>1, <2>2, <2>3
<1>4. QED BY <1>1, <1>2, <1>3 DEF SyncInv

\* The recorded part grows to what the server has; the others' share only falls.
LEMMA UploadAcceptedStep ==
  ASSUME SyncAssumption, SyncInv, UploadAccepted
  PROVE  SyncInv'
<1>1. TypeOK'
  BY DEF SyncInv, TypeOK, SyncAssumption, Totals, Dates, None, NoReply,
     UploadAccepted, Larger, cycle, memory, server
<1>2. DatesPast'
  BY DEF SyncInv, TypeOK, DatesPast, SyncAssumption, Dates, UploadAccepted,
     Larger, cycle, memory, server
<1>3. ASSUME ~spoiled' PROVE TodayOK'
  <2> USE <1>3 DEF SyncInv, TypeOK, SyncAssumption, Totals, Dates, None,
     DatesPast, TodayOK, ServerHasAtMost, Dated, UploadAccepted, Larger,
     cycle, memory, server
  <2>1. (\A b \in Apps : ServerHasAtMost(Countable(b), b))'
    BY DEF Countable, SnapIsLatest
  <2>2. OwnPartIsKnown'
    BY DEF OwnPartIsKnown, Own, DatesAgree, SnapIsLatest
  <2>3. GroupIsNoMore'
    BY DEF GroupIsNoMore, Own, DatesAgree, OwnPartIsKnown, ReplyIsExact,
       SnapIsLatest
  <2>4. /\ DatesAgree'
        /\ SnapIsLatest'
        /\ ReplyIsExact'
    BY DEF DatesAgree, SnapIsLatest, Countable, ReplyIsExact, Own,
       OwnPartIsKnown
  <2>5. QED BY <2>1, <2>2, <2>3, <2>4
<1>4. QED BY <1>1, <1>2, <1>3 DEF SyncInv

LEMMA FetchAnsweredStep ==
  ASSUME SyncAssumption, SyncInv, FetchAnswered
  PROVE  SyncInv'
<1>1. TypeOK'
  BY DEF SyncInv, TypeOK, SyncAssumption, Totals, Dates, None, NoReply,
     FetchAnswered, GroupTotals, cycle, memory, server
<1>2. DatesPast'
  BY DEF SyncInv, TypeOK, DatesPast, SyncAssumption, Dates, FetchAnswered,
     GroupTotals, cycle, memory, server
<1>3. ASSUME ~spoiled' PROVE TodayOK'
  <2> USE <1>3 DEF SyncInv, TypeOK, SyncAssumption, Totals, Dates, None,
     DatesPast, TodayOK, ServerHasAtMost, Dated, FetchAnswered, GroupTotals,
     cycle, memory, server
  <2>1. ReplyIsExact'
    BY DEF ReplyIsExact, Own, DatesAgree, OwnPartIsKnown
  <2>2. /\ (\A b \in Apps : ServerHasAtMost(Countable(b), b))'
        /\ DatesAgree'
        /\ SnapIsLatest'
        /\ OwnPartIsKnown'
        /\ GroupIsNoMore'
    BY DEF Countable, DatesAgree, SnapIsLatest, OwnPartIsKnown, Own,
       GroupIsNoMore, ReplyIsExact
  <2>3. QED BY <2>1, <2>2
<1>4. QED BY <1>1, <1>2, <1>3 DEF SyncInv

LEMMA ApplyGroupStep ==
  ASSUME SyncAssumption, SyncInv, ApplyGroup
  PROVE  SyncInv'
<1>1. TypeOK'
  BY DEF SyncInv, TypeOK, SyncAssumption, Totals, Dates, None, NoReply,
     ApplyGroup, Return, UploadOf, cycle, memory, server
<1>2. DatesPast'
  BY DEF SyncInv, TypeOK, DatesPast, SyncAssumption, Dates, ApplyGroup,
     Return, UploadOf, cycle, memory, server
<1>3. ASSUME ~spoiled' PROVE TodayOK'
  <2> USE <1>3 DEF SyncInv, TypeOK, SyncAssumption, Totals, Dates, None,
     DatesPast, TodayOK, ServerHasAtMost, Dated, ApplyGroup, Return, UploadOf,
     cycle, memory, server
  <2>1. OwnPartIsKnown'
    BY DEF OwnPartIsKnown, Own, DatesAgree, SnapIsLatest
  <2>2. GroupIsNoMore'
    BY DEF GroupIsNoMore, Own, DatesAgree, OwnPartIsKnown, ReplyIsExact,
       SnapIsLatest
  <2>3. /\ (\A b \in Apps : ServerHasAtMost(Countable(b), b))'
        /\ DatesAgree'
        /\ SnapIsLatest'
        /\ ReplyIsExact'
    BY DEF Countable, DatesAgree, SnapIsLatest, ReplyIsExact, Own,
       OwnPartIsKnown
  <2>4. QED BY <2>1, <2>2, <2>3
<1>4. QED BY <1>1, <1>2, <1>3 DEF SyncInv

LEMMA UploadFailsStep == ASSUME SyncAssumption, SyncInv, UploadFails PROVE SyncInv'
<1>1. TypeOK'
  BY DEF SyncInv, TypeOK, SyncAssumption, Totals, Dates, None, NoReply,
     UploadFails, Return, memory, server
<1>2. stamp' <= today /\ day' <= today
  BY DEF SyncInv, TypeOK, DatesPast, Dates, SyncAssumption, UploadFails,
     Return, memory, server
<1>3. QED BY <1>1, <1>2, QuietStep DEF UploadFails, Return, memory, server

LEMMA FetchFailsStep == ASSUME SyncAssumption, SyncInv, FetchFails PROVE SyncInv'
<1>1. TypeOK'
  BY DEF SyncInv, TypeOK, SyncAssumption, Totals, Dates, None, NoReply,
     FetchFails, Return, memory, server
<1>2. stamp' <= today /\ day' <= today
  BY DEF SyncInv, TypeOK, DatesPast, Dates, SyncAssumption, FetchFails,
     Return, memory, server
<1>3. QED BY <1>1, <1>2, QuietStep DEF FetchFails, Return, memory, server

-----------------------------------------------------------------------------
(* The world *)

LEMMA SwitchSyncStep == ASSUME SyncAssumption, SyncInv, SwitchSync PROVE SyncInv'
<1>1. TypeOK'
  BY DEF SyncInv, TypeOK, SyncAssumption, Totals, Dates, SwitchSync, cycle,
     memory, server
<1>2. QED BY <1>1, QuietStep DEF SyncInv, TypeOK, SwitchSync, cycle, memory, server

LEMMA TickStep == ASSUME SyncAssumption, SyncInv, Tick PROVE SyncInv'
<1>1. TypeOK'
  BY DEF SyncInv, TypeOK, SyncAssumption, Totals, Dates, Tick, cycle, memory,
     server
<1>2. QED BY <1>1, QuietStep DEF SyncInv, TypeOK, Tick, cycle, memory, server

LEMMA UseHereStep ==
  ASSUME SyncAssumption, SyncInv, NEW a \in Apps, UseHere(a)
  PROVE  SyncInv'
<1>1. TypeOK'
  BY DEF SyncInv, TypeOK, SyncAssumption, Totals, Dates, None, NoReply,
     UseHere, cycle, memory, server
<1>2. DatesPast'
  BY DEF SyncInv, TypeOK, DatesPast, SyncAssumption, Dates, UseHere, cycle,
     memory, server
<1>3. ASSUME ~spoiled' PROVE TodayOK'
  <2> USE <1>3 DEF SyncInv, TypeOK, SyncAssumption, Totals, Dates, None,
     DatesPast, TodayOK, ServerHasAtMost, Dated, UseHere, cycle, memory,
     server
  <2>1. (\A b \in Apps : ServerHasAtMost(Countable(b), b))'
    BY DEF Countable
  <2>2. SnapIsLatest'
    BY DEF SnapIsLatest, Countable, DatesAgree
  <2>3. /\ DatesAgree'
        /\ OwnPartIsKnown'
        /\ ReplyIsExact'
        /\ GroupIsNoMore'
    BY DEF DatesAgree, OwnPartIsKnown, Own, SnapIsLatest, ReplyIsExact,
       GroupIsNoMore
  <2>4. QED BY <2>1, <2>2, <2>3
<1>4. QED BY <1>1, <1>2, <1>3 DEF SyncInv

LEMMA UseElsewhereStep ==
  ASSUME SyncAssumption, SyncInv, NEW a \in Apps, UseElsewhere(a)
  PROVE  SyncInv'
<1>1. TypeOK'
  BY DEF SyncInv, TypeOK, SyncAssumption, Totals, Dates, None, NoReply,
     UseElsewhere, cycle, memory, server
<1>2. DatesPast'
  BY DEF SyncInv, TypeOK, DatesPast, SyncAssumption, Dates, UseElsewhere,
     cycle, memory, server
<1>3. ASSUME ~spoiled' PROVE TodayOK'
  <2> USE <1>3 DEF SyncInv, TypeOK, SyncAssumption, Totals, Dates, None,
     DatesPast, TodayOK, ServerHasAtMost, Dated, UseElsewhere, cycle, memory,
     server
  <2>1. ReplyIsExact'
    BY DEF ReplyIsExact, Own, DatesAgree, OwnPartIsKnown
  <2>2. GroupIsNoMore'
    BY DEF GroupIsNoMore, Own, DatesAgree, OwnPartIsKnown, ReplyIsExact,
       SnapIsLatest
  <2>3. /\ (\A b \in Apps : ServerHasAtMost(Countable(b), b))'
        /\ DatesAgree'
        /\ SnapIsLatest'
        /\ OwnPartIsKnown'
    BY DEF Countable, DatesAgree, SnapIsLatest, OwnPartIsKnown, Own
  <2>4. QED BY <2>1, <2>2, <2>3
<1>4. QED BY <1>1, <1>2, <1>3 DEF SyncInv

\* A late or repeated upload tells the server nothing new.
LEMMA ReceiveStep ==
  ASSUME SyncAssumption, SyncInv, NEW m \in wire, Receive(m)
  PROVE  SyncInv'
<1>1. TypeOK'
  BY DEF SyncInv, TypeOK, SyncAssumption, Totals, Dates, None, NoReply,
     Receive, Larger, cycle, memory, server
<1>2. DatesPast'
  BY DEF SyncInv, TypeOK, DatesPast, SyncAssumption, Dates, Receive, Larger,
     cycle, memory, server
<1>3. ASSUME ~spoiled' PROVE TodayOK'
  <2> USE <1>3 DEF SyncInv, TypeOK, SyncAssumption, Totals, Dates, None,
     DatesPast, TodayOK, ServerHasAtMost, Dated, Receive, Larger, cycle,
     memory, server
  <2>1. (\A b \in Apps : ServerHasAtMost(Countable(b), b))'
    BY DEF Countable
  <2>2. SnapIsLatest'
    BY DEF SnapIsLatest, Countable, DatesAgree
  <2>3. OwnPartIsKnown'
    BY DEF OwnPartIsKnown, Own, DatesAgree, SnapIsLatest
  <2>4. /\ DatesAgree'
        /\ ReplyIsExact'
        /\ GroupIsNoMore'
    BY DEF DatesAgree, ReplyIsExact, Own, OwnPartIsKnown, GroupIsNoMore,
       SnapIsLatest
  <2>5. QED BY <2>1, <2>2, <2>3, <2>4
<1>4. QED BY <1>1, <1>2, <1>3 DEF SyncInv

\* All that was dated is of yesterday now, and yesterday's mishaps are over.
LEMMA MidnightStep == ASSUME SyncAssumption, SyncInv, Midnight PROVE SyncInv'
<1>1. TypeOK'
  <2>1. spoiled' \in BOOLEAN
    BY DEF Midnight
  <2>2. today' \in Dates
    BY DEF SyncInv, TypeOK, SyncAssumption, Dates, Midnight
  <2>3. QED
    BY <2>1, <2>2 DEF SyncInv, TypeOK, SyncAssumption, Totals, None, Midnight,
       cycle, memory
<1>2. DatesPast'
  BY DEF SyncInv, TypeOK, DatesPast, SyncAssumption, Dates, Midnight, cycle,
     memory, server
<1>3. ASSUME ~spoiled' PROVE TodayOK'
  <2>0. pc \notin {"build", "date"}
    BY <1>3, Zenon DEF Midnight
  <2> USE <1>3, <2>0 DEF SyncInv, TypeOK, SyncAssumption, Totals, Dates, None,
     DatesPast, TodayOK, ServerHasAtMost, Dated, Midnight, cycle, memory,
     server
  <2>1. (\A b \in Apps : ServerHasAtMost(Countable(b), b))'
    BY DEF Countable
  <2>2. DatesAgree'
    BY DEF DatesAgree
  <2>3. SnapIsLatest'
    BY DEF SnapIsLatest, Countable, DatesAgree
  <2>4. OwnPartIsKnown'
    BY DEF OwnPartIsKnown, Own, DatesAgree, SnapIsLatest
  <2>5. ReplyIsExact'
    BY DEF ReplyIsExact, Own, DatesAgree, OwnPartIsKnown
  <2>6. GroupIsNoMore'
    BY DEF GroupIsNoMore, Own, DatesAgree, OwnPartIsKnown, ReplyIsExact,
       SnapIsLatest
  <2>7. QED BY <2>1, <2>2, <2>3, <2>4, <2>5, <2>6
<1>4. QED BY <1>1, <1>2, <1>3 DEF SyncInv

LEMMA RestartStep == ASSUME SyncAssumption, SyncInv, Restart PROVE SyncInv'
<1>1. TypeOK'
  BY DEF SyncInv, TypeOK, SyncAssumption, Totals, Dates, None, NoReply,
     Restart, Return, NeverFetched, NeverUploaded, cycle, memory, server
<1>2. DatesPast'
  BY DEF SyncInv, TypeOK, DatesPast, SyncAssumption, Dates, Restart, Return,
     NeverFetched, NeverUploaded, NoReply, cycle, memory, server
<1>3. ASSUME ~spoiled' PROVE TodayOK'
  <2> USE <1>3 DEF SyncInv, TypeOK, SyncAssumption, Totals, Dates, None,
     DatesPast, TodayOK, ServerHasAtMost, Dated, Restart, Return,
     NeverFetched, NeverUploaded, NoReply, cycle, memory, server
  <2>1. OwnPartIsKnown'
    BY DEF OwnPartIsKnown, Own, DatesAgree, SnapIsLatest
  <2>2. GroupIsNoMore'
    BY DEF GroupIsNoMore, Own, DatesAgree, OwnPartIsKnown, ReplyIsExact,
       SnapIsLatest
  <2>3. /\ (\A b \in Apps : ServerHasAtMost(Countable(b), b))'
        /\ DatesAgree'
        /\ SnapIsLatest'
        /\ ReplyIsExact'
    BY DEF Countable, DatesAgree, SnapIsLatest, ReplyIsExact, Own,
       OwnPartIsKnown
  <2>4. QED BY <2>1, <2>2, <2>3
<1>4. QED BY <1>1, <1>2, <1>3 DEF SyncInv

-----------------------------------------------------------------------------
LEMMA NextSyncInv == ASSUME SyncAssumption, SyncInv, [Next]_vars PROVE SyncInv'
<1>1. CASE Cycle
  BY <1>1, BeginCycleStep, MapAppsStep, MapFailsStep, ReadTotalsStep,
     BuildUploadStep, NoteDateStep, PostUploadStep, UploadAcceptedStep,
     UploadFailsStep, FetchAnsweredStep, FetchFailsStep, ApplyGroupStep DEF Cycle
<1>2. CASE World
  BY <1>2, UseHereStep, UseElsewhereStep, ReceiveStep, SwitchSyncStep,
     MidnightStep,
     TickStep, RestartStep DEF World
<1>3. CASE UNCHANGED vars
  <2>1. TypeOK'
    BY <1>3 DEF SyncInv, TypeOK, vars, cycle, memory, server
  <2>2. QED BY <1>3, <2>1, QuietStep DEF vars, cycle, memory, server
<1>4. QED BY <1>1, <1>2, <1>3 DEF Next

\* The invariant that carries the rest.
THEOREM SyncInvariance == Spec => []SyncInv
<1>1. SyncAssumption
  BY SyncAssumption
<1>2. Init => SyncInv
  BY <1>1, InitSyncInv
<1>3. SyncInv /\ [Next]_vars => SyncInv'
  BY <1>1, NextSyncInv
<1>4. QED BY <1>2, <1>3, PTL DEF Spec

\* Every variable of the sync client and of its server keeps its type
\* (syncclient.py:129-151); in particular the server never holds more of a day
\* than the device can have used.
THEOREM SyncTypeCorrect == Spec => []TypeOK
<1>1. SyncInv => TypeOK
  BY DEF SyncInv
<1>2. QED BY <1>1, SyncInvariance, PTL

\* Lost, late and repeated uploads, restarts and midnights never make the figure
\* exceed what other devices used today, for any number of apps and any totals
\* (syncclient.py:177-208).
THEOREM NeverOvercounted == Spec => []RemoteNeverOvercounts
<1>1. SyncInv => RemoteNeverOvercounts
  <2> SUFFICES ASSUME SyncInv, ~spoiled, NEW a \in Apps
               PROVE  Remote(a) <= theirs[a]
    BY DEF RemoteNeverOvercounts, NeverStricter
  <2>1. group.totals[a] \in Nat /\ theirs[a] \in Nat /\ Own(a) \in Nat
    BY SyncAssumption DEF SyncAssumption, SyncInv, TypeOK, Totals, Own
  <2>2. Usable => group.totals[a] <= Own(a) + theirs[a]
    BY DEF Usable, SyncInv, TodayOK, GroupIsNoMore
  <2>3. QED BY <2>1, <2>2 DEF Remote
<1>2. QED BY <1>1, SyncInvariance, PTL

\* A cycle that completes on its own day leaves, for every mapped app, exactly
\* what the other devices had used when it was answered (syncproto.py:41-47).
THEOREM ExactAfterCycle == Spec => CycleIsExact
<1> DEFINE Exact == ApplyGroup /\ day = today /\ enabled /\ ~spoiled =>
                      \A a \in mapped : Remote(a)' = reply.others[a]
<1>1. SyncInv /\ [Next]_vars => Exact
  <2> SUFFICES ASSUME SyncInv, ApplyGroup, day = today, enabled, ~spoiled,
                      NEW a \in mapped
               PROVE  Remote(a)' = reply.others[a]
    OBVIOUS
  <2>1. a \in Apps /\ reply.others[a] \in Nat /\ Own(a) \in Nat
    BY SyncAssumption DEF SyncAssumption, SyncInv, TypeOK, Totals, Own
  <2>2. reply.totals[a] = Own(a) + reply.others[a]
    BY <2>1 DEF ApplyGroup, SyncInv, TodayOK, ReplyIsExact
  <2>3. Own(a)' = Own(a)
    BY <2>1 DEF ApplyGroup, UploadOf, Own, None, SyncInv, TypeOK
  <2>4. /\ Usable' /\ enabled' /\ a \in mapped'
        /\ group'.totals[a] = reply.totals[a]
    BY SyncAssumption DEF SyncAssumption, ApplyGroup, Usable
  <2>5. QED BY <2>1, <2>2, <2>3, <2>4 DEF Remote
<1>2. QED BY <1>1, SyncInvariance, PTL DEF Spec, CycleIsExact

=============================================================================
