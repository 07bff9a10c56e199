-------------------------- MODULE MCLoopScheduler --------------------------
(* LoopScheduler on small instances: one occurrence, or two. *)
EXTENDS LoopScheduler

OneDue == {2}
TwoDue == {2, 3}
=============================================================================
