----------------------------- MODULE UsageLedger -----------------------------
(***************************************************************************)
(* What the usage accounting promises whoever relies on the figures: how   *)
(* many seconds each app was used on each day, and how many of them        *)
(* ProtBot would still know of if it were killed now.                      *)
(*                                                                         *)
(* Nothing is used while something is still to be kept, so a crash costs   *)
(* an app one interval at most, of one day.  UsageReads implements this,   *)
(* with its threads, sessions, midnight splits and checkpoints.            *)
(***************************************************************************)
EXTENDS Naturals

CONSTANTS Apps, Days,
          Cap   \* most seconds one interval can earn

VARIABLES
  used,  \* seconds of use, by app and day
  kept   \* seconds the next start would find

ledger == <<used, kept>>

Nothing == [a \in Apps |-> [d \in Days |-> 0]]

Settled(a, ds) == \A d \in ds : kept[a][d] = used[a][d]

Init == used = Nothing /\ kept = Nothing

\* An interval of use is credited.
Use(a, d) ==
  /\ Settled(a, Days)
  /\ \E n \in 1..Cap : used' = [used EXCEPT ![a][d] = @ + n]
  /\ UNCHANGED kept

\* A figure of the app's last interval is kept, not necessarily the newest: stop()
\* may write one that a poll in flight has overtaken.
Keep(a, d) ==
  /\ Settled(a, Days \ {d})
  /\ \E n \in 0..used[a][d] :
       /\ used[a][d] <= n + Cap
       /\ kept' = [kept EXCEPT ![a][d] = n]
  /\ UNCHANGED used

\* The process dies; what was not kept is lost.
Lose == used' = kept /\ UNCHANGED kept

Next == Lose \/ \E a \in Apps, d \in Days : Use(a, d) \/ Keep(a, d)

Spec == Init /\ [][Next]_ledger

\* A crash costs an app the seconds of one interval at most, and of one day only
\* ("so data survives crashes", monitor.py:379-388).
CrashCostsOneInterval ==
  \A a \in Apps, d \in Days :
    /\ kept[a][d] <= used[a][d]
    /\ used[a][d] <= kept[a][d] + Cap
    /\ kept[a][d] # used[a][d] => Settled(a, Days \ {d})

=============================================================================
