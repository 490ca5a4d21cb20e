----------------------------- MODULE MCHoneypot -----------------------------
(* Honeypot for TLC: two enclaves, the administrator and one more account.  *)
EXTENDS Honeypot

CONSTANTS admin, informant, e1, e2

MCAddress == {admin, informant}
MCEnclave == {e1, e2}
=============================================================================
