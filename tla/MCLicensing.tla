---------------------------- MODULE MCLicensing ------------------------------
(* Constants for checking Licensing with TLC. *)
EXTENDS Licensing, TLC

KeySymmetry == Permutations(Keys)

=============================================================================
