---------------------------- MODULE MCReorgLoop ----------------------------
(* ReorgLoop for TLC; the callers are model values.                         *)
EXTENDS ReorgLoop

CONSTANTS a1, a2
=============================================================================
