------------------------------ MODULE Schedule ------------------------------
(***************************************************************************)
(* Focus hours (core/schedule.py): one weekly window in which apps that    *)
(* already have a limit get a tighter one.                                 *)
(*                                                                         *)
(* A text holds what partition() and int() make of a stored time: <<hour,  *)
(* minute>>, any two integers, or Junk.  A moment is [weekday, minute], the *)
(* minute counted from midnight.  A configuration is what the five settings *)
(* hold; its days are the entries that are numbers, or Junk for no list.   *)
(***************************************************************************)
EXTENDS Integers

CONSTANT Junk      \* what cannot be read as a time, a list of days or a number

\* parse_time()
ParseTime(text, fallback) ==
  IF text # Junk /\ text[1] \in 0..23 /\ text[2] \in 0..59 THEN text ELSE fallback

Minutes(time) == 60 * time[1] + time[2]
DefaultStart == <<9, 0>>
DefaultEnd == <<17, 0>>

Start(cfg) == Minutes(ParseTime(cfg.start, DefaultStart))
End(cfg) == Minutes(ParseTime(cfg.end, DefaultEnd))

\* Fault: before the end of a window over midnight the day asked for is today.
IsActive_ByToday(cfg, now) ==
  /\ cfg.enabled
  /\ cfg.days # Junk
  /\ now.weekday \in cfg.days
  /\ IF Start(cfg) < End(cfg) THEN now.minute \in Start(cfg)..End(cfg) - 1
     ELSE Start(cfg) # End(cfg) /\ (now.minute >= Start(cfg) \/ now.minute < End(cfg))

\* is_active()
IsActive(cfg, now) ==
  /\ cfg.enabled
  /\ cfg.days # Junk
  /\ \/ /\ Start(cfg) < End(cfg)
        /\ now.weekday \in cfg.days
        /\ Start(cfg) <= now.minute /\ now.minute < End(cfg)
     \/ /\ Start(cfg) > End(cfg)
        /\ \/ now.minute >= Start(cfg) /\ now.weekday \in cfg.days
           \/ now.minute < End(cfg) /\ (now.weekday - 1) % 7 \in cfg.days

\* effective_daily_limit(); 0 is no limit and -1 is not at all.
EffectiveLimit(own, cfg, now) ==
  IF own <= 0 THEN 0
  ELSE IF ~IsActive(cfg, now) \/ cfg.limit = Junk THEN own
  ELSE IF cfg.limit <= 0 THEN -1
  ELSE IF own < cfg.limit THEN own ELSE cfg.limit

-----------------------------------------------------------------------------
(* What the module's description promises *)

Weekdays == 0..6
Moments == [weekday : Weekdays, minute : 0..1439]
Texts == (Int \X Int) \cup {Junk}
Configs == [enabled : BOOLEAN, days : (SUBSET Int) \cup {Junk}, start : Texts, end : Texts,
            limit : Int \cup {Junk}]

Tomorrow(day) == IF day = 6 THEN 0 ELSE day + 1

\* How long the window stays open; one that ends when it starts never opens.
Length(cfg) ==
  IF End(cfg) >= Start(cfg) THEN End(cfg) - Start(cfg) ELSE End(cfg) - Start(cfg) + 1440

\* The window that opened on day is open now.
OpenSince(cfg, day, now) ==
  \/ now.weekday = day /\ now.minute - Start(cfg) \in 0..Length(cfg) - 1
  \/ now.weekday = Tomorrow(day) /\ now.minute + 1440 - Start(cfg) \in 0..Length(cfg) - 1

InWindow(cfg, now) ==
  cfg.enabled /\ cfg.days # Junk /\ \E day \in Weekdays \cap cfg.days : OpenSince(cfg, day, now)

\* "Inside them it is the tighter of the two": a limit is never looser than the app's
\* own, in the window never looser than the cap, and another one only there; a cap of
\* nothing forbids, and an app without a limit never gets one.
Tightens(own, cfg, now) ==
  LET limit == EffectiveLimit(own, cfg, now)
  IN  /\ own <= 0 <=> limit = 0
      /\ own > 0 => limit <= own /\ limit >= -1
      /\ limit \notin {0, own} => InWindow(cfg, now) /\ cfg.limit # Junk
      /\ own > 0 /\ cfg.limit # Junk /\ InWindow(cfg, now) =>
           IF cfg.limit <= 0 THEN limit = -1 ELSE limit <= cfg.limit
=============================================================================
