--------------------------- MODULE MCAgentUpdate ---------------------------
(* AgentUpdate on a small instance. *)
EXTENDS AgentUpdate

CONSTANTS a, b, c1, c2, w1
=============================================================================
