---------------------------- MODULE Calculations ----------------------------
(***************************************************************************)
(* The parts of ProtBot that only calculate, each put to the questions of  *)
(* a bounded set and held against a reference: whether focus hours are on  *)
(* and which limit is in force, the key two platforms know an app by, the  *)
(* figures shown and handed out, and the symbol of a link code.            *)
(*                                                                         *)
(* A question is put in one step and answered in the next, so that TLC's   *)
(* workers share the answers.                                              *)
(***************************************************************************)
EXTENDS Integers, Sequences, FiniteSets

CONSTANTS Junk,       \* a setting that cannot be read
          Times,      \* the stored times of the window
          Instants,   \* the moments asked about
          Caps,       \* limits in minutes, of an app and of the window
          Names,      \* the app names
          Stores,     \* the stores
          Symbols     \* the symbols: <<bytes of text, level, forced mask or -1>>

S == INSTANCE Schedule
K == INSTANCE AppKeys
V == INSTANCE UsageViews
R == INSTANCE QRReader

VARIABLES asked, answer

vars == <<asked, answer>>

None == [about |-> "nothing"]
Today == 100      \* the date of today in every store

ASSUME CalculationsAssumption ==
  /\ Times \subseteq S!Texts
  /\ Instants \subseteq S!Moments
  /\ Caps \subseteq Int
  /\ Names \subseteq Seq(STRING)
  /\ \A db \in Stores : V!StoreOK(db, Today)

Init == asked = None /\ answer = None

-----------------------------------------------------------------------------
(* Questions *)

DayLists == {Junk, {}, {0}, {4, 6}, {6, 7}}

AskLimit ==
  \E start, end \in Times, days \in DayLists, now \in Instants, own \in Caps,
     cap \in Caps \cup {Junk}, on \in BOOLEAN :
    asked' = [about |-> "limit", own |-> own, now |-> now,
              cfg |-> [enabled |-> on, days |-> days, start |-> start, end |-> end,
                       limit |-> cap]]

AskKey == \E name \in Names : asked' = [about |-> "key", name |-> name]

AskFigures ==
  \E db \in Stores, unreadable \in {{}, {"settings"}, {"tracked_apps"}, {"usage_sessions"}} :
    asked' = [about |-> "figures", db |-> db, unreadable |-> unreadable]

AskSymbol == \E symbol \in Symbols : asked' = [about |-> "symbol", symbol |-> symbol]

Ask == asked = None /\ (AskLimit \/ AskKey \/ AskFigures \/ AskSymbol) /\ UNCHANGED answer

-----------------------------------------------------------------------------
(* Answers *)

Put(about) == asked.about = about /\ answer = None /\ UNCHANGED asked

AnswerLimit ==
  /\ Put("limit")
  /\ answer' = [active |-> S!IsActive(asked.cfg, asked.now),
                limit |-> S!EffectiveLimit(asked.own, asked.cfg, asked.now)]

AnswerKey ==
  /\ Put("key")
  /\ answer' = [desktop |-> K!CanonicalKey(asked.name), phone |-> K!PhoneKey(asked.name)]

AnswerFigures ==
  /\ Put("figures")
  /\ \E order \in V!Orders(V!AppsThisWeek(asked.db, Today)) :
       answer' = [tab |-> V!Insights(asked.db, Today, order),
                  csv |-> V!Csv(asked.db, Today),
                  export |-> V!Export(asked.db, Today, asked.unreadable)]

\* Bytes of every kind.
Text(n) == SubSeq([i \in 1..n |-> R!Byte((37 * i + 5) % 256)], 1, n)

\* encode()
AnswerSymbol ==
  /\ Put("symbol")
  /\ LET text == Text(asked.symbol[1])
         ecl == asked.symbol[2]
         version == R!SmallestVersion(Len(text), ecl)
         drawn == R!Drawn(text, ecl, version)
         mask == IF asked.symbol[3] # -1 THEN asked.symbol[3]
                 ELSE R!BestMask(drawn, ecl, version)
     IN  answer' = IF version = 0 THEN [version |-> 0]
                   ELSE [version |-> version, mask |-> mask,
                         dark |-> R!Masked(drawn, ecl, mask, version)]

Forget == answer # None /\ asked' = None /\ answer' = None

Next == Ask \/ AnswerLimit \/ AnswerKey \/ AnswerFigures \/ AnswerSymbol \/ Forget

Spec == Init /\ [][Next]_vars

-----------------------------------------------------------------------------
(* Properties *)

Answered(about) == asked.about = about /\ answer # None

\* Focus hours are on exactly while a window that opened on a chosen day is open, which
\* for one that passes midnight goes on into the day after, and they only ever tighten
\* a limit (is_active, effective_daily_limit).
FocusHoursTighten ==
  Answered("limit") =>
    /\ answer.active = S!InWindow(asked.cfg, asked.now)
    /\ S!Tightens(asked.own, asked.cfg, asked.now)

\* The desktop and the phone give a name the same key, a name with a word in it has one
\* unless a segment of it is blank, and the shapes the description lists for one product
\* meet in one key (canonical_app_key, canonicalAppKey).
SameKeyEverywhere ==
  Answered("key") =>
    /\ K!OneKey(asked.name)
    /\ \A product \in {"spotify", "chat"} :
         asked.name \in K!Shapes(product, "vendor") => answer.desktop = <<product>>

\* The week, the day and the categories add up to the same time, and to that of the
\* history and of the Insights tab's hours less what is dated after today, which those
\* two alone do not leave out; the tab shows what is heaviest; the CSV has the last
\* thirty days; the full export holds no credential and, unless a table it reads for
\* them cannot be read, every session, and names each section that is not whole
\* (database.py:256-341, insights_page.py, dataexport.py:56-121).
FiguresAgree ==
  Answered("figures") =>
    /\ V!WeekAddsUp(asked.db, Today)
    /\ V!InsightsAgree(asked.db, Today, answer.tab)
    /\ answer.csv = {r \in V!HistoryRows(asked.db, 36500, Today) : r.day > Today - 30}
    /\ V!ExportIsWhole(asked.db, Today, asked.unreadable, answer.export)

\* A scanner that knows only how a symbol is laid out reads the text back: every module
\* carries one bit, both copies of the format name the mask that was used, no block has
\* an error, and the text comes out whole; only a text too long for version 10 is
\* refused (qrcode.py encode).
SymbolIsRead ==
  Answered("symbol") =>
    LET text == Text(asked.symbol[1])
    IN  IF answer.version = 0
          THEN 8 * Len(text) + 20 > 8 * R!Capacity(10, asked.symbol[2])
          ELSE R!Reads(answer.dark, text, asked.symbol[2], answer.version, answer.mask)
=============================================================================
