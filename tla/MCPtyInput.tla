----------------------------- MODULE MCPtyInput -----------------------------
(* PtyInput on small instances. *)
EXTENDS PtyInput, TLC

CONSTANTS a, b, t1, w1, w2

OneTarget == [o \in Ops |-> t1]

Symmetry == Permutations(Workers)
=============================================================================
