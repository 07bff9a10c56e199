---------------------------- MODULE MCMessageBus ----------------------------
(* MessageBus on small instances. *)
EXTENDS MessageBus

CONSTANTS a, b, c, t1, t2, d1, d2

OneTarget == [o \in Ops |-> t1]
OwnTargets == [o \in Ops |-> IF o = a THEN t1 ELSE t2]
=============================================================================
