------------------------------ MODULE QuitVote ------------------------------
(***************************************************************************)
(* What the quit gate promises: rounds are voted on one after the other.   *)
(* A round has one outcome; it is an exit only when every window it asked  *)
(* has agreed, or when main forces it.  A veto ends it: a refusal, a window *)
(* that goes without an answer, a timeout, a cancellation.  The process    *)
(* exits at most once for a round, and only for the last one decided.      *)
(***************************************************************************)
EXTENDS Naturals

CONSTANTS Gates, Epochs

VARIABLES round, asked, consents, forced, decided, exits

vars == <<round, asked, consents, forced, decided, exits>>

None == 0

Init ==
  /\ round = None
  /\ asked = [e \in Epochs |-> {}]
  /\ consents = [e \in Epochs |-> {}]
  /\ forced = {}
  /\ decided = [epoch |-> None, kind |-> "None"]
  /\ exits = [e \in Epochs |-> 0]

\* The windows that still have to answer.
Missing == asked[round] \ consents[round]

Decide(kind) ==
  /\ round # None
  /\ decided' = [epoch |-> round, kind |-> kind]
  /\ round' = None

Ask(e) ==
  /\ round = None /\ e > decided.epoch
  /\ round' = e
  /\ \E windows \in SUBSET Gates : asked' = [asked EXCEPT ![e] = windows]
  /\ UNCHANGED <<consents, forced, decided, exits>>

\* The last window to agree carries the vote.
Agree(g) ==
  /\ round # None /\ g \in Missing
  /\ consents' = [consents EXCEPT ![round] = @ \cup {g}]
  /\ IF Missing = {g} THEN Decide("Exiting") ELSE UNCHANGED <<round, decided>>
  /\ UNCHANGED <<asked, forced, exits>>

\* There was nobody to ask.
AgreeAll ==
  /\ round # None /\ Missing = {}
  /\ Decide("Exiting")
  /\ UNCHANGED <<asked, consents, forced, exits>>

Force ==
  /\ Decide("Exiting")
  /\ forced' = forced \cup {round}
  /\ UNCHANGED <<asked, consents, exits>>

Veto == Decide("Aborted") /\ UNCHANGED <<asked, consents, forced, exits>>

Exit(e) ==
  /\ decided = [epoch |-> e, kind |-> "Exiting"]
  /\ exits[e] = 0
  /\ exits' = [exits EXCEPT ![e] = 1]
  /\ UNCHANGED <<round, asked, consents, forced, decided>>

Next ==
  \/ \E e \in Epochs : Ask(e) \/ Exit(e)
  \/ \E g \in Gates : Agree(g)
  \/ AgreeAll \/ Force \/ Veto

Spec == Init /\ [][Next]_vars
=============================================================================
