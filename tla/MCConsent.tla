------------------------------ MODULE MCConsent ------------------------------
(* Constants for checking Consent, and the settings file under it, with TLC. *)
EXTENDS Consent

\* Consent, and one other setting that changes meanwhile.
SomeKeys == {"consent_version", "consent_accepted", "consent_at", "poll_interval"}
Flags == BOOLEAN
NothingSet == [k \in SomeKeys |-> FALSE]

=============================================================================
