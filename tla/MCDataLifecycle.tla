--------------------------- MODULE MCDataLifecycle ---------------------------
(* Symmetry for checking DataLifecycle with TLC: programs are interchangeable. *)
EXTENDS DataLifecycle, TLC

ProgramSymmetry == Permutations(Programs)

=============================================================================
