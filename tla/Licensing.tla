------------------------------ MODULE Licensing ------------------------------
(***************************************************************************)
(* The licence of the desktop (core/licensing.py): what the server last    *)
(* said is kept in the settings, signed for this machine, and is worth     *)
(* something until it expires or has gone unverified for the grace period. *)
(* The start-up of ProtBot re-verifies it when it is stale (main.py), and  *)
(* the Devices tab activates a key; both ask on a thread of their own.     *)
(*                                                                         *)
(* Time is counted in days.  A request lasts seconds, so no day passes     *)
(* while one is on its way.  The server is modelled from what the client   *)
(* expects of it: a paid licence is premium, any other one is rejected.    *)
(***************************************************************************)
EXTENDS Naturals, FiniteSets

CONSTANTS Keys,         \* licence keys
          None,         \* no entitlement is stored
          Grace,        \* GRACE_PERIOD_DAYS
          StaleAfter,   \* REVERIFY_AFTER_HOURS, in days
          Term,         \* days a payment lasts
          MaxRequests,  \* bound: requests on their way at once
          MaxMoves      \* bound: changes of the machine's binding

ASSUME LicensingAssumption ==
  /\ Grace \in Nat /\ StaleAfter \in Nat /\ StaleAfter < Grace
  /\ Term \in Nat \ {0}
  /\ MaxRequests \in Nat /\ MaxMoves \in Nat

VARIABLES
  cache,     \* config["entitlement"]; "age" is the days since verified_at,
             \* "left" the days to expires_at, "bound" the machine that signed it
  machine,   \* _machine_binding()
  asked,     \* the requests of threads that have not ended
  paid,      \* the server: days that each licence is paid for
  unpaid,    \* history: days that each licence has not been paid for
  tried      \* history: the server was asked since the entitlement was stored

vars == <<cache, machine, asked, paid, unpaid, tried>>

Never == Term + 1          \* a licence that does not expire: expires_at is 0
Lasts == 0..Never
Answers == {"awaited", "none", "rejected", "premium"}
Requests == [by : {"refresh", "activate"}, key : Keys, answer : Answers, left : Lasts]
Entitlements == [key : Keys, age : 0..(Grace + 1), left : Lasts, bound : 0..MaxMoves]

ASSUME NoneAssumption == None \notin Entitlements

\* A day later, and a history's count a day later.
Sooner(days) == IF days \in {0, Never} THEN days ELSE days - 1
Older(days) == IF days > Grace THEN days ELSE days + 1

-----------------------------------------------------------------------------
(* What this install is entitled to *)

Free == [plan |-> "free", stale |-> FALSE]

\* Fault: the grace period does not end.
Entitlement_NoGrace ==
  IF cache = None THEN Free
  ELSE IF cache.bound # machine \/ cache.left = 0 THEN Free
  ELSE [plan |-> "premium", stale |-> cache.age > StaleAfter]

\* current_entitlement()
Entitlement ==
  IF cache = None THEN Free
  ELSE IF cache.bound # machine \/ cache.left = 0 \/ cache.age > Grace THEN Free
  ELSE [plan |-> "premium", stale |-> cache.age > StaleAfter]

IsPremium == Entitlement.plan = "premium"

\* Fault: the entitlement is stored without its signature.
Stored_Unsigned(r) == [key |-> r.key, age |-> 0, left |-> r.left]

\* store_entitlement(), with what the request r brought.
Stored(r) == [key |-> r.key, age |-> 0, left |-> r.left, bound |-> machine]

Init ==
  /\ cache = None
  /\ machine = 0
  /\ asked = {}
  /\ paid = [k \in Keys |-> 0]
  /\ unpaid = [k \in Keys |-> Grace + 1]
  /\ tried = FALSE

-----------------------------------------------------------------------------
(* The program *)

Ask(by, key) == [by |-> by, key |-> key, answer |-> "awaited", left |-> 0]

\* ProtBot starts anew, whatever its threads were doing, and refresh() asks for
\* the stored licence if it is due.
StartUp ==
  /\ IF cache # None /\ Entitlement.stale
       THEN asked' = {Ask("refresh", cache.key)} /\ tried' = TRUE
       ELSE asked' = {} /\ UNCHANGED tried
  /\ UNCHANGED <<cache, machine, paid, unpaid>>

\* The Activate button; nothing stops a second click.
Activate(key) ==
  /\ Cardinality(asked) < MaxRequests
  /\ Ask("activate", key) \notin asked
  /\ asked' = asked \cup {Ask("activate", key)}
  /\ UNCHANGED <<cache, machine, paid, unpaid, tried>>

\* activate() goes on with its answer: only a premium one changes anything.
FinishActivate(r) ==
  /\ r \in asked /\ r.by = "activate" /\ r.answer # "awaited"
  /\ IF r.answer = "premium" THEN cache' = Stored(r) /\ tried' = FALSE
                             ELSE UNCHANGED <<cache, tried>>
  /\ asked' = asked \ {r}
  /\ UNCHANGED <<machine, paid, unpaid>>

\* Fault: no answer is taken for a rejection.
FinishRefresh_OutageRevokes(r) ==
  /\ r \in asked /\ r.by = "refresh" /\ r.answer # "awaited"
  /\ IF r.answer = "premium" THEN cache' = Stored(r) /\ tried' = FALSE
                             ELSE cache' = None /\ UNCHANGED tried
  /\ asked' = asked \ {r}
  /\ UNCHANGED <<machine, paid, unpaid>>

\* refresh() goes on with its answer, whatever is stored by now.
FinishRefresh(r) ==
  /\ r \in asked /\ r.by = "refresh" /\ r.answer # "awaited"
  /\ \/ r.answer = "premium" /\ cache' = Stored(r) /\ tried' = FALSE
     \/ r.answer = "rejected" /\ cache' = None /\ UNCHANGED tried
     \/ r.answer = "none" /\ UNCHANGED <<cache, tried>>
  /\ asked' = asked \ {r}
  /\ UNCHANGED <<machine, paid, unpaid>>

-----------------------------------------------------------------------------
(* The server and the world *)

\* verify_with_server() ends: with the server's answer, or with none.
Reply(r) ==
  /\ r \in asked /\ r.answer = "awaited"
  /\ \E answer \in {"none", IF paid[r.key] > 0 THEN "premium" ELSE "rejected"} :
       asked' = (asked \ {r}) \cup
         {[r EXCEPT !.answer = answer,
                    !.left = IF answer = "premium" THEN paid[r.key] ELSE 0]}
  /\ UNCHANGED <<cache, machine, paid, unpaid, tried>>

\* A licence is bought or renewed, for a term or for good.
Pay(k) ==
  /\ \E days \in {Term, Never} : paid' = [paid EXCEPT ![k] = days]
  /\ unpaid' = [unpaid EXCEPT ![k] = 0]
  /\ UNCHANGED <<cache, machine, asked, tried>>

\* A licence is taken back before its time.
Revoke(k) ==
  /\ paid' = [paid EXCEPT ![k] = 0]
  /\ UNCHANGED <<cache, machine, asked, unpaid, tried>>

Tick ==
  /\ asked = {}
  /\ cache' = IF cache = None THEN None
              ELSE [cache EXCEPT !.age = Older(@), !.left = Sooner(@)]
  /\ paid' = [k \in Keys |-> Sooner(paid[k])]
  /\ unpaid' = [k \in Keys |-> IF paid[k] > 0 THEN 0 ELSE Older(unpaid[k])]
  /\ UNCHANGED <<machine, asked, tried>>

\* The settings come to another machine, or uuid.getnode() gives another answer.
Move ==
  /\ machine < MaxMoves
  /\ machine' = machine + 1
  /\ UNCHANGED <<cache, asked, paid, unpaid, tried>>

Next ==
  \/ StartUp \/ Tick \/ Move
  \/ \E k \in Keys : Activate(k) \/ Pay(k) \/ Revoke(k)
  \/ \E r \in asked : Reply(r) \/ FinishActivate(r) \/ FinishRefresh(r)

Spec == Init /\ [][Next]_vars

-----------------------------------------------------------------------------
(* Properties *)

\* Every variable stays in its type (licensing.py:108-128, 139-151).
TypeOK ==
  /\ cache \in Entitlements \cup {None}
  /\ machine \in 0..MaxMoves
  /\ asked \subseteq Requests
  /\ paid \in [Keys -> Lasts]
  /\ unpaid \in [Keys -> 0..(Grace + 1)]
  /\ tried \in BOOLEAN

\* A licence that is no longer paid for opens the paid features for the grace period
\* and not a day longer, whatever the network does, however often ProtBot starts, and
\* whichever keys are activated meanwhile (licensing.py:21-25).
PremiumIsBacked ==
  IsPremium => unpaid[cache.key] <= Grace

\* "A network failure must never revoke a paying customer's access"
\* (licensing.py:165-167): Premium ends with the licence or its grace period, on
\* another machine, or when the server's rejection has come; a request without an
\* answer, or with one for a mistyped key, takes nothing away.
OutageNeverRevokes ==
  [][IsPremium /\ ~IsPremium' =>
       \/ Tick \/ Move
       \/ \E r \in asked : r.by = "refresh" /\ r.answer = "rejected"]_vars

\* "Re-verification is attempted well before that" (licensing.py:25): no entitlement
\* that has not expired loses its grace period without the server having been asked.
ReverifiedInTime ==
  cache # None => (cache.left > 0 /\ cache.age > Grace => tried)

=============================================================================
