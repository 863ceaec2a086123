----------------------------- MODULE MCUsageReads -----------------------------
(* Symmetry for checking UsageReads with TLC; see MCUsageSessions. *)
EXTENDS UsageReads, TLC

Symmetry == Permutations(SessionIds)

=============================================================================
