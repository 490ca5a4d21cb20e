------------------------------ MODULE MCSting ------------------------------
(* Sting for TLC. *)
EXTENDS Sting
=============================================================================
