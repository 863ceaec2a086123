--------------------------- MODULE MCUsageSessions ---------------------------
(* Model values and symmetry for checking UsageSessions with TLC. *)
EXTENDS UsageSessions, TLC

\* Sessions are interchangeable, and so are apps: no action and no property
\* names one or compares two of them by anything but equality.
Symmetry == Permutations(SessionIds)
SymmetryOfApps == Permutations(Apps) \cup Permutations(SessionIds)

=============================================================================
