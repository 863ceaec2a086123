---------------------------- MODULE MCSyncClient ----------------------------
(* Constants for checking SyncClient with TLC. *)
EXTENDS SyncClient

\* Apps do not influence each other's totals, and a cycle treats them alike:
\* one shows every interleaving.
OneApp == {"app"}

AnyMishap == {"midnight", "read"}
OnlyMidnight == {"midnight"}
NoMishap == {}

=============================================================================
