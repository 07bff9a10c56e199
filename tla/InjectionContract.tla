--------------------------- MODULE InjectionContract ------------------------
(***************************************************************************)
(* What a PTY input operation promises its sender: the text is typed at    *)
(* most once, and only after a durable point of no return.  Before that    *)
(* point the operation may be rejected; after it, it was injected or its   *)
(* fate is indeterminate.                                                  *)
(***************************************************************************)
EXTENDS Naturals

CONSTANT Ops

VARIABLES outcome, writes

vars == <<outcome, writes>>

Init ==
  /\ outcome = [o \in Ops |-> "absent"]
  /\ writes = [o \in Ops |-> 0]

Becomes(o, from, to) ==
  /\ outcome[o] = from
  /\ outcome' = [outcome EXCEPT ![o] = to]
  /\ UNCHANGED writes

Accept(o) == Becomes(o, "absent", "accepted")

\* Rejected outright, or after it was accepted.
Refuse(o) == Becomes(o, "absent", "rejected") \/ Becomes(o, "accepted", "rejected")

Cross(o) == Becomes(o, "accepted", "crossed")

Type(o) ==
  /\ outcome[o] = "crossed" /\ writes[o] = 0
  /\ writes' = [writes EXCEPT ![o] = 1]
  /\ UNCHANGED outcome

Confirm(o) == writes[o] = 1 /\ Becomes(o, "crossed", "injected")

\* Nobody knows, or will find out, whether it was typed.
GiveUp(o) == Becomes(o, "crossed", "indeterminate")

Next ==
  \E o \in Ops : Accept(o) \/ Refuse(o) \/ Cross(o) \/ Type(o) \/ Confirm(o) \/ GiveUp(o)

Spec == Init /\ [][Next]_vars
=============================================================================
