-------------------------- MODULE MCLimitEnforcement --------------------------
(* Constants for checking LimitEnforcement with TLC. *)
EXTENDS LimitEnforcement

\* Apps share the two passes of the threads and nothing else, so one app shows
\* every interleaving of what the threads do to it.
OneApp == {"app"}

Plain == {"plain"}
PlainOrStubborn == {"plain", "stubborn"}

=============================================================================
