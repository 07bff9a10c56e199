-------------------------- MODULE MCResponseClose --------------------------
(* ResponseClose on a small instance. *)
EXTENDS ResponseClose

CONSTANTS k1, k2, r1
=============================================================================
