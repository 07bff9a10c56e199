------------------------ MODULE ResponseCloseProofs ------------------------
(***************************************************************************)
(* Type correctness of response close, that a closing session is left      *)
(* alone, and that a close is committed only for a session that answered   *)
(* and that nothing happened to since its ticket was taken, for any        *)
(* messages, answers, publishers, settings and number of faults.           *)
(*                                                                         *)
(* The argument: whatever happens to the session restarts the quiet time   *)
(* of its policy or drops the policy, and takes the ticket with it         *)
(* (Watched); and what counts as an answer was begun after the last input  *)
(* (Honest).                                                               *)
(***************************************************************************)
EXTENDS ResponseClose, TLAPS

USE KeyAssumption, BoundsAssumption

\* The quiet time of a policy is real, and a ticket that stands was not disturbed.
Watched ==
  /\ pol = "registered" => quiet <= still
  /\ selected = "yes" => disturbed = "no"

\* What counts as an answer was begun after the last input.
Honest == (success = "yes" => answered = "yes") /\ returns \subseteq late

\* A route and a close have a generation.
Routed == route # "none" \/ pc # "idle" => gen # 0

Inv == TypeOK /\ ClosingExcludesWork /\ Watched /\ Honest /\ Routed

-----------------------------------------------------------------------------
(* The inductive step.                                                     *)

\* A message that is accepted keeps the invariant.
LEMMA AdmissionKeeps ==
  ASSUME Inv, NEW k \in Keys, Admission(k) PROVE Inv'
<1> USE DEF trackerVars, polVars, sessionVars, closeVars, answerVars, histVars, Touch, Invalidate, DropPolicy,
            Disturb, NewInput
<1>1. ASSUME Reserve(k) PROVE Inv'
  <2>1. TypeOK'
    BY <1>1 DEF Inv, TypeOK, Reserve, Advance, Stages, Provisional
  <2>2. ClosingExcludesWork'
    BY <1>1 DEF Inv, ClosingExcludesWork, NoWriter, Dispatched, Reserve, Advance
  <2>3. (Watched /\ Honest /\ Routed)'
    BY <1>1 DEF Inv, Watched, Honest, Routed, Reserve
  <2> QED
    BY <2>1, <2>2, <2>3 DEF Inv
<1>2. ASSUME Accept(k) PROVE Inv'
  <2>1. TypeOK'
    BY <1>2 DEF Inv, TypeOK, Accept, Advance, Stages, Pending
  <2>2. ClosingExcludesWork'
    BY <1>2 DEF Inv, ClosingExcludesWork, NoWriter, Dispatched, Accept, Advance
  <2>3. (Watched /\ Honest /\ Routed)'
    BY <1>2 DEF Inv, Watched, Honest, Routed, Accept
  <2> QED
    BY <2>1, <2>2, <2>3 DEF Inv
<1>3. ASSUME Admitted(k) PROVE Inv'
  <2>1. TypeOK'
    BY <1>3 DEF Inv, TypeOK, Admitted, Advance, Stages, Pending
  <2>2. ClosingExcludesWork'
    BY <1>3 DEF Inv, ClosingExcludesWork, NoWriter, Dispatched, Admitted, Advance
  <2>3. (Watched /\ Honest /\ Routed)'
    BY <1>3 DEF Inv, Watched, Honest, Routed, Admitted
  <2> QED
    BY <2>1, <2>2, <2>3 DEF Inv
<1> QED
  BY <1>1, <1>2, <1>3 DEF Admission

\* A delivery keeps the invariant, up to its text.
LEMMA DeliveryKeeps ==
  ASSUME Inv, NEW k \in Keys, Claim(k) \/ Create(k) \/ Created(k) \/ Admit(k) \/ Candidate(k) \/ Typed(k) PROVE Inv'
<1> USE DEF trackerVars, polVars, sessionVars, closeVars, answerVars, histVars, Touch, Invalidate, DropPolicy,
            Disturb, NewInput
<1>1. ASSUME Claim(k) PROVE Inv'
  <2>1. TypeOK'
    BY <1>1 DEF Inv, TypeOK, Claim, Advance, Stages, Pending
  <2>2. ClosingExcludesWork'
    BY <1>1 DEF ClosingExcludesWork, Claim
  <2>3. (Watched /\ Honest /\ Routed)'
    BY <1>1 DEF Inv, Watched, Honest, Routed, Claim
  <2> QED
    BY <2>1, <2>2, <2>3 DEF Inv
<1>2. ASSUME Create(k) PROVE Inv'
  <2>1. TypeOK'
    BY <1>2 DEF Inv, TypeOK, Create, Advance, Stages, Pending
  <2>2. ClosingExcludesWork'
    BY <1>2 DEF ClosingExcludesWork, Create
  <2>3. (Watched /\ Honest /\ Routed)'
    BY <1>2 DEF Inv, Watched, Honest, Routed, Create
  <2> QED
    BY <2>1, <2>2, <2>3 DEF Inv
<1>3. ASSUME Created(k) PROVE Inv'
  <2>1. TypeOK'
    BY <1>3 DEF Inv, TypeOK, Created, Advance, Stages, Pending
  <2>2. ClosingExcludesWork'
    BY <1>3 DEF ClosingExcludesWork, Created
  <2>3. (Watched /\ Honest /\ Routed)'
    BY <1>3 DEF Inv, TypeOK, Watched, Honest, Routed, Created
  <2> QED
    BY <2>1, <2>2, <2>3 DEF Inv
<1>4. ASSUME Admit(k) PROVE Inv'
  <2>1. TypeOK'
    BY <1>4 DEF Inv, TypeOK, Admit, Advance, Stages, Pending
  <2>2. ClosingExcludesWork'
    BY <1>4 DEF ClosingExcludesWork, Admit, Writable
  <2>3. (Watched /\ Honest /\ Routed)'
    BY <1>4 DEF Inv, Watched, Honest, Routed, Admit
  <2> QED
    BY <2>1, <2>2, <2>3 DEF Inv
<1>5. ASSUME Candidate(k) PROVE Inv'
  <2>1. TypeOK'
    BY <1>5 DEF Inv, TypeOK, Candidate
  <2>2. ClosingExcludesWork'
    BY <1>5 DEF ClosingExcludesWork, Candidate
  <2>3. (Watched /\ Honest /\ Routed)'
    BY <1>5 DEF Inv, Watched, Honest, Routed, Candidate
  <2> QED
    BY <2>1, <2>2, <2>3 DEF Inv
<1>6. ASSUME Typed(k) PROVE Inv'
  <2>1. TypeOK'
    BY <1>6 DEF Inv, TypeOK, Typed, Advance, Stages, Pending
  <2>2. ClosingExcludesWork'
    BY <1>6 DEF Inv, ClosingExcludesWork, Dispatched, Typed, Advance
  <2>3. (Watched /\ Honest /\ Routed)'
    BY <1>6 DEF Inv, Watched, Honest, Routed, Typed
  <2> QED
    BY <2>1, <2>2, <2>3 DEF Inv
<1> QED
  BY <1>1, <1>2, <1>3, <1>4, <1>5, <1>6

\* The end of a delivery keeps the invariant.
LEMMA FinishKeeps ==
  ASSUME Inv, NEW k \in Keys, Finish(k) \/ DeliveryFails(k) \/ Retained(k) PROVE Inv'
<1> USE DEF trackerVars, polVars, sessionVars, closeVars, answerVars, histVars, Touch, Invalidate, DropPolicy,
            Disturb, NewInput
<1>1. ASSUME Submit(k) PROVE Inv'
  <2>1. TypeOK'
    BY <1>1 DEF Inv, TypeOK, Submit, Advance, Stages, Pending
  <2>2. ClosingExcludesWork'
    BY <1>1 DEF Inv, ClosingExcludesWork, Dispatched, Submit, Advance
  <2>3. (Watched /\ Honest /\ Routed)'
    BY <1>1 DEF Inv, Watched, Honest, Routed, Submit
  <2> QED
    BY <2>1, <2>2, <2>3 DEF Inv
<1>2. ASSUME Register(k) PROVE Inv'
  <2>1. TypeOK'
    BY <1>2 DEF Inv, TypeOK, Register, Registrable, OwnPolicy, Advance, Stages, Dispatched
  <2>2. ClosingExcludesWork'
    BY <1>2 DEF Inv, ClosingExcludesWork, Dispatched, Register, Advance
  <2>3. (Watched /\ Honest /\ Routed)'
    BY <1>2 DEF Inv, TypeOK, Watched, Honest, Routed, Register, Registrable, OwnPolicy
  <2> QED
    BY <2>1, <2>2, <2>3 DEF Inv
<1>3. ASSUME RegisterRefused(k) PROVE Inv'
  <2>1. TypeOK'
    BY <1>3 DEF Inv, TypeOK, RegisterRefused, Advance, Stages, Pending
  <2>2. ClosingExcludesWork'
    BY <1>3 DEF Inv, ClosingExcludesWork, Dispatched, RegisterRefused, Advance
  <2>3. (Watched /\ Honest /\ Routed)'
    BY <1>3 DEF Inv, Watched, Honest, Routed, RegisterRefused
  <2> QED
    BY <2>1, <2>2, <2>3 DEF Inv
<1>4. ASSUME NotPublished(k) PROVE Inv'
  <2>1. TypeOK'
    BY <1>4 DEF Inv, TypeOK, NotPublished, Advance, Stages, Pending
  <2>2. ClosingExcludesWork'
    BY <1>4 DEF Inv, ClosingExcludesWork, Dispatched, NotPublished, Advance
  <2>3. (Watched /\ Honest /\ Routed)'
    BY <1>4 DEF Inv, Watched, Honest, Routed, NotPublished
  <2> QED
    BY <2>1, <2>2, <2>3 DEF Inv
<1>5. ASSUME Settle(k) PROVE Inv'
  <2>1. TypeOK'
    BY <1>5 DEF Inv, TypeOK, Settle, Advance, Stages, Dispatched
  <2>2. ClosingExcludesWork'
    BY <1>5 DEF Inv, ClosingExcludesWork, Dispatched, Settle, Advance
  <2>3. (Watched /\ Honest /\ Routed)'
    BY <1>5 DEF Inv, Watched, Honest, Routed, Settle
  <2> QED
    BY <2>1, <2>2, <2>3 DEF Inv
<1>6. ASSUME Release(k) PROVE Inv'
  <2>1. TypeOK'
    BY <1>6 DEF Inv, TypeOK, Release, Dispose, Advance, Stages
  <2>2. ClosingExcludesWork'
    BY <1>6 DEF Inv, ClosingExcludesWork, Dispatched, Release, Advance
  <2>3. (Watched /\ Honest /\ Routed)'
    BY <1>6 DEF Inv, Watched, Honest, Routed, Release, Dispose
  <2> QED
    BY <2>1, <2>2, <2>3 DEF Inv
<1>7. ASSUME CreateFails(k) PROVE Inv'
  <2>1. TypeOK'
    BY <1>7 DEF Inv, TypeOK, CreateFails, Fault, Advance, Stages, Pending
  <2>2. ClosingExcludesWork'
    BY <1>7 DEF Inv, ClosingExcludesWork, Dispatched, CreateFails, Advance
  <2>3. (Watched /\ Honest /\ Routed)'
    BY <1>7 DEF Inv, Watched, Honest, Routed, CreateFails
  <2> QED
    BY <2>1, <2>2, <2>3 DEF Inv
<1>8. ASSUME Requeue(k) PROVE Inv'
  <2>1. TypeOK'
    BY <1>8 DEF Inv, TypeOK, Requeue, Fault, Dispose, Advance, Stages, Pending
  <2>2. ClosingExcludesWork'
    BY <1>8 DEF Inv, ClosingExcludesWork, Dispatched, Requeue, Advance
  <2>3. (Watched /\ Honest /\ Routed)'
    BY <1>8 DEF Inv, Watched, Honest, Routed, Requeue, Dispose
  <2> QED
    BY <2>1, <2>2, <2>3 DEF Inv
<1>9. ASSUME Reject(k) PROVE Inv'
  <2>1. TypeOK'
    BY <1>9 DEF Inv, TypeOK, Reject, Fault, Advance, Stages, Pending
  <2>2. ClosingExcludesWork'
    BY <1>9 DEF Inv, ClosingExcludesWork, Dispatched, Reject, Advance
  <2>3. (Watched /\ Honest /\ Routed)'
    BY <1>9 DEF Inv, Watched, Honest, Routed, Reject
  <2> QED
    BY <2>1, <2>2, <2>3 DEF Inv
<1>10. ASSUME Retained(k) PROVE Inv'
  <2>1. TypeOK'
    BY <1>10 DEF Inv, TypeOK, Retained, Advance, Stages, Pending
  <2>2. ClosingExcludesWork'
    BY <1>10 DEF Inv, ClosingExcludesWork, Dispatched, Retained, Advance
  <2>3. (Watched /\ Honest /\ Routed)'
    BY <1>10 DEF Inv, Watched, Honest, Routed, Retained
  <2> QED
    BY <2>1, <2>2, <2>3 DEF Inv
<1> QED
  BY <1>1, <1>2, <1>3, <1>4, <1>5, <1>6, <1>7, <1>8, <1>9, <1>10 DEF Finish, DeliveryFails

\* An answer keeps the invariant.
LEMMA AnswerKeeps ==
  ASSUME Inv, NEW r \in Returns, Answer(r) PROVE Inv'
<1> USE DEF trackerVars, polVars, sessionVars, closeVars, answerVars, histVars, Touch, Invalidate, DropPolicy,
            Disturb, NewInput
<1>1. ASSUME AdmitReturn(r) PROVE Inv'
  <2>1. TypeOK'
    BY <1>1 DEF Inv, TypeOK, AdmitReturn
  <2>2. ClosingExcludesWork'
    BY <1>1 DEF Inv, ClosingExcludesWork, NoWriter, AdmitReturn
  <2>3. (Watched /\ Honest /\ Routed)'
    BY <1>1 DEF Inv, Watched, Honest, Routed, AdmitReturn
  <2> QED
    BY <2>1, <2>2, <2>3 DEF Inv
<1>2. ASSUME ReturnDelivered(r) PROVE Inv'
  <2>1. TypeOK'
    BY <1>2 DEF Inv, TypeOK, ReturnDelivered, SettleReturn
  <2>2. ClosingExcludesWork'
    BY <1>2 DEF Inv, ClosingExcludesWork, NoWriter, ReturnDelivered
  <2>3. (Watched /\ Honest /\ Routed)'
    BY <1>2 DEF Inv, Watched, Honest, Routed, ReturnDelivered, SettleReturn
  <2> QED
    BY <2>1, <2>2, <2>3 DEF Inv
<1>3. ASSUME ReturnLost(r) PROVE Inv'
  <2>1. TypeOK'
    BY <1>3 DEF Inv, TypeOK, ReturnLost, SettleReturn
  <2>2. ClosingExcludesWork'
    BY <1>3 DEF Inv, ClosingExcludesWork, NoWriter, ReturnLost
  <2>3. (Watched /\ Honest /\ Routed)'
    BY <1>3 DEF Inv, Watched, Honest, Routed, ReturnLost, SettleReturn
  <2> QED
    BY <2>1, <2>2, <2>3 DEF Inv
<1> QED
  BY <1>1, <1>2, <1>3 DEF Answer

\* The session, its user and its observers keep the invariant.
LEMMA SessionKeeps ==
  ASSUME Inv, Session PROVE Inv'
<1> USE DEF trackerVars, polVars, sessionVars, closeVars, answerVars, histVars, Touch, Invalidate, DropPolicy,
            Disturb, NewInput
<1>1. ASSUME Output PROVE Inv'
  <2>1. TypeOK'
    BY <1>1 DEF Inv, TypeOK, Output
  <2>2. ClosingExcludesWork'
    BY <1>1 DEF ClosingExcludesWork, Output
  <2>3. (Watched /\ Honest /\ Routed)'
    BY <1>1 DEF Inv, Watched, Honest, Routed, Output
  <2> QED
    BY <2>1, <2>2, <2>3 DEF Inv
<1>2. ASSUME Publish PROVE Inv'
  <2>1. TypeOK'
    BY <1>2 DEF Inv, TypeOK, Publish
  <2>2. ClosingExcludesWork'
    BY <1>2 DEF ClosingExcludesWork, Publish
  <2>3. (Watched /\ Honest /\ Routed)'
    BY <1>2 DEF Inv, Watched, Honest, Routed, Publish
  <2> QED
    BY <2>1, <2>2, <2>3 DEF Inv
<1>3. ASSUME RowChanges PROVE Inv'
  <2>1. TypeOK'
    BY <1>3 DEF Inv, TypeOK, RowChanges
  <2>2. ClosingExcludesWork'
    BY <1>3 DEF ClosingExcludesWork, RowChanges
  <2>3. (Watched /\ Honest /\ Routed)'
    BY <1>3 DEF Inv, Watched, Honest, Routed, RowChanges
  <2> QED
    BY <2>1, <2>2, <2>3 DEF Inv
<1>4. ASSUME BeginTyping PROVE Inv'
  <2>1. TypeOK'
    BY <1>4 DEF Inv, TypeOK, BeginTyping
  <2>2. ClosingExcludesWork'
    BY <1>4 DEF ClosingExcludesWork, BeginTyping, Writable
  <2>3. (Watched /\ Honest /\ Routed)'
    BY <1>4 DEF Inv, Watched, Honest, Routed, BeginTyping
  <2> QED
    BY <2>1, <2>2, <2>3 DEF Inv
<1>5. ASSUME EndTyping PROVE Inv'
  <2>1. TypeOK'
    BY <1>5 DEF Inv, TypeOK, EndTyping
  <2>2. ClosingExcludesWork'
    BY <1>5 DEF Inv, ClosingExcludesWork, Routed, NoWriter, EndTyping
  <2>3. (Watched /\ Honest /\ Routed)'
    BY <1>5 DEF Inv, Watched, Honest, Routed, EndTyping
  <2> QED
    BY <2>1, <2>2, <2>3 DEF Inv
<1>6. ASSUME Destroy PROVE Inv'
  <2>1. TypeOK'
    BY <1>6 DEF Inv, TypeOK, Destroy, Fault
  <2>2. ClosingExcludesWork'
    BY <1>6 DEF ClosingExcludesWork, Destroy
  <2>3. (Watched /\ Honest /\ Routed)'
    BY <1>6 DEF Watched, Honest, Routed, Destroy
  <2> QED
    BY <2>1, <2>2, <2>3 DEF Inv
<1> QED
  BY <1>1, <1>2, <1>3, <1>4, <1>5, <1>6 DEF Session

\* A close keeps the invariant, however it ends.
LEMMA CloseKeeps ==
  ASSUME Inv, Select \/ RunTicket \/ Effects \/ EffectsFail PROVE Inv'
<1> USE DEF trackerVars, polVars, sessionVars, closeVars, answerVars, histVars, Touch, Invalidate, DropPolicy,
            Disturb, NewInput, othersOfEffect
<1>1. ASSUME Select PROVE Inv'
  <2>1. TypeOK'
    BY <1>1 DEF Inv, TypeOK, Select, Safe, Answered
  <2>2. ClosingExcludesWork'
    BY <1>1 DEF ClosingExcludesWork, Select, Safe, Answered
  <2>3. (Watched /\ Honest /\ Routed)'
    BY <1>1 DEF Inv, Watched, Honest, Routed, Select
  <2> QED
    BY <2>1, <2>2, <2>3 DEF Inv
<1>2. ASSUME NEW g \in tickets, Commit(g) PROVE Inv'
  <2>1. TypeOK'
    BY <1>2 DEF Inv, TypeOK, Commit, Owners
  <2>2. ClosingExcludesWork'
    BY <1>2 DEF ClosingExcludesWork, NoWriter, Dispatched, Commit, Safe, Answered, NoWork
  <2>3. (Watched /\ Honest /\ Routed)'
    BY <1>2 DEF Inv, Watched, Honest, Routed, Commit, Safe, Answered
  <2> QED
    BY <2>1, <2>2, <2>3 DEF Inv
<1>3. ASSUME NEW g \in tickets, Discard(g) PROVE Inv'
  <2>1. TypeOK'
    BY <1>3 DEF Inv, TypeOK, Discard
  <2>2. ClosingExcludesWork'
    BY <1>3 DEF Inv, ClosingExcludesWork, NoWriter, Discard
  <2>3. (Watched /\ Honest /\ Routed)'
    BY <1>3 DEF Inv, Watched, Honest, Routed, Discard
  <2> QED
    BY <2>1, <2>2, <2>3 DEF Inv
<1>4. ASSUME Kill PROVE Inv'
  <2>1. TypeOK'
    BY <1>4 DEF Inv, TypeOK, Kill, Owners
  <2>2. ClosingExcludesWork'
    BY <1>4 DEF Inv, ClosingExcludesWork, NoWriter, Kill
  <2>3. (Watched /\ Honest /\ Routed)'
    BY <1>4 DEF Inv, Watched, Honest, Routed, Kill
  <2> QED
    BY <2>1, <2>2, <2>3 DEF Inv
<1>5. ASSUME KillLeaves PROVE Inv'
  <2>1. TypeOK'
    BY <1>5 DEF Inv, TypeOK, KillLeaves, Fault, Owners
  <2>2. ClosingExcludesWork'
    BY <1>5 DEF Inv, ClosingExcludesWork, NoWriter, KillLeaves
  <2>3. (Watched /\ Honest /\ Routed)'
    BY <1>5 DEF Inv, Watched, Honest, Routed, KillLeaves
  <2> QED
    BY <2>1, <2>2, <2>3 DEF Inv
<1>6. ASSUME Retain PROVE Inv'
  <2>1. TypeOK'
    BY <1>6 DEF Inv, TypeOK, Retain, Owners
  <2>2. ClosingExcludesWork'
    BY <1>6 DEF Inv, ClosingExcludesWork, NoWriter, Retain
  <2>3. (Watched /\ Honest /\ Routed)'
    BY <1>6 DEF Inv, Watched, Honest, Routed, Retain
  <2> QED
    BY <2>1, <2>2, <2>3 DEF Inv
<1>7. ASSUME EffectLost PROVE Inv'
  <2>1. TypeOK'
    BY <1>7 DEF Inv, TypeOK, EffectLost, Fault, Owners
  <2>2. ClosingExcludesWork'
    BY <1>7 DEF Inv, ClosingExcludesWork, NoWriter, EffectLost
  <2>3. (Watched /\ Honest /\ Routed)'
    BY <1>7 DEF Inv, Watched, Honest, Routed, EffectLost
  <2> QED
    BY <2>1, <2>2, <2>3 DEF Inv
<1>8. ASSUME FinishDormant PROVE Inv'
  <2>1. TypeOK'
    BY <1>8 DEF Inv, TypeOK, FinishDormant, Owners
  <2>2. ClosingExcludesWork'
    BY <1>8 DEF ClosingExcludesWork, FinishDormant
  <2>3. (Watched /\ Honest /\ Routed)'
    BY <1>8 DEF Watched, Honest, Routed, FinishDormant
  <2> QED
    BY <2>1, <2>2, <2>3 DEF Inv
<1>9. ASSUME Reopen PROVE Inv'
  <2>1. TypeOK'
    BY <1>9 DEF Inv, TypeOK, Reopen, Owners
  <2>2. ClosingExcludesWork'
    BY <1>9 DEF ClosingExcludesWork, Reopen
  <2>3. (Watched /\ Honest /\ Routed)'
    BY <1>9 DEF Inv, Watched, Honest, Routed, Reopen
  <2> QED
    BY <2>1, <2>2, <2>3 DEF Inv
<1>10. ASSUME GroupEffect PROVE Inv'
  <2>1. TypeOK'
    BY <1>10 DEF Inv, TypeOK, GroupEffect, Owners
  <2>2. ClosingExcludesWork'
    BY <1>10 DEF Inv, ClosingExcludesWork, NoWriter, GroupEffect
  <2>3. (Watched /\ Honest /\ Routed)'
    BY <1>10 DEF Inv, Watched, Honest, Routed, GroupEffect
  <2> QED
    BY <2>1, <2>2, <2>3 DEF Inv
<1>11. ASSUME Dies PROVE Inv'
  <2>1. TypeOK'
    BY <1>11 DEF Inv, TypeOK, Dies, Fault
  <2>2. ClosingExcludesWork'
    BY <1>11 DEF Inv, ClosingExcludesWork, NoWriter, Dies
  <2>3. (Watched /\ Honest /\ Routed)'
    BY <1>11 DEF Inv, Watched, Honest, Routed, Dies
  <2> QED
    BY <2>1, <2>2, <2>3 DEF Inv
<1> QED
  BY <1>1, <1>2, <1>3, <1>4, <1>5, <1>6, <1>7, <1>8, <1>9, <1>10, <1>11 DEF RunTicket, Effects, EffectsFail

\* Settings, the clock and a failed tracker keep the invariant.
LEMMA OthersKeep ==
  ASSUME Inv, SaveSettings \/ Tick \/ FailClosed \/ UNCHANGED vars PROVE Inv'
<1> USE DEF trackerVars, polVars, sessionVars, closeVars, answerVars, histVars, Touch, Invalidate, DropPolicy,
            Disturb, NewInput
<1>1. ASSUME SaveSettings PROVE Inv'
  <2>1. TypeOK'
    BY <1>1 DEF Inv, TypeOK, SaveSettings
  <2>2. ClosingExcludesWork'
    BY <1>1 DEF Inv, ClosingExcludesWork, NoWriter, SaveSettings
  <2>3. (Watched /\ Honest /\ Routed)'
    BY <1>1 DEF Inv, Watched, Honest, Routed, SaveSettings
  <2> QED
    BY <2>1, <2>2, <2>3 DEF Inv
<1>2. ASSUME Tick PROVE Inv'
  <2>1. TypeOK'
    BY <1>2 DEF Inv, TypeOK, Tick
  <2>2. ClosingExcludesWork'
    BY <1>2 DEF Inv, ClosingExcludesWork, NoWriter, Tick
  <2>3. (Watched /\ Honest /\ Routed)'
    BY <1>2 DEF Inv, TypeOK, Watched, Honest, Routed, Tick
  <2> QED
    BY <2>1, <2>2, <2>3 DEF Inv
<1>3. ASSUME FailClosed PROVE Inv'
  <2>1. TypeOK'
    BY <1>3 DEF Inv, TypeOK, FailClosed, Fault
  <2>2. ClosingExcludesWork'
    BY <1>3 DEF Inv, ClosingExcludesWork, NoWriter, FailClosed
  <2>3. (Watched /\ Honest /\ Routed)'
    BY <1>3 DEF Inv, Watched, Honest, Routed, FailClosed
  <2> QED
    BY <2>1, <2>2, <2>3 DEF Inv
<1>4. ASSUME UNCHANGED vars PROVE Inv'
  <2>1. TypeOK'
    BY <1>4 DEF Inv, TypeOK, vars
  <2>2. ClosingExcludesWork'
    BY <1>4 DEF Inv, ClosingExcludesWork, NoWriter, vars
  <2>3. (Watched /\ Honest /\ Routed)'
    BY <1>4 DEF Inv, Watched, Honest, Routed, vars
  <2> QED
    BY <2>1, <2>2, <2>3 DEF Inv
<1> QED
  BY <1>1, <1>2, <1>3, <1>4

\* The initial states satisfy the invariant.
LEMMA InvInit == Init => Inv
  BY DEF Init, Inv, TypeOK, ClosingExcludesWork, Watched, Honest, Routed, Stages, Owners

\* Every step keeps the invariant.
LEMMA InvStep == Inv /\ [Next]_vars => Inv'
  BY AdmissionKeeps, DeliveryKeeps, FinishKeeps, AnswerKeeps, SessionKeeps, CloseKeeps, OthersKeep DEF Next, Deliver

\* The invariant holds always.
THEOREM AlwaysInv == Spec => []Inv
<1>1. Init => Inv
  BY InvInit
<1>2. Inv /\ [Next]_vars => Inv'
  BY InvStep
<1> QED
  BY <1>1, <1>2, PTL DEF Spec

-----------------------------------------------------------------------------
(* The theorems.                                                           *)

\* The tracker, the session, the deliveries and the close keep their types.
THEOREM TypeCorrect == Spec => []TypeOK
<1>1. Inv => TypeOK
  BY DEF Inv
<1> QED
  BY <1>1, AlwaysInv, PTL

\* Nobody writes to a session that is being closed, and no message is on its way to it.
THEOREM ClosingIsLeftAlone == Spec => []ClosingExcludesWork
<1>1. Inv => ClosingExcludesWork
  BY DEF Inv
<1> QED
  BY <1>1, AlwaysInv, PTL

\* Only a commit closes an open route.
LEMMA OnlyCommitCloses ==
  ASSUME [Next]_vars, route = "open", route' = "closing" PROVE \E g \in tickets : Commit(g)
<1> USE DEF trackerVars
<1>1. ~(\E k \in Keys : Admission(k) \/ Deliver(k) \/ Candidate(k) \/ DeliveryFails(k) \/ Retained(k))
  BY DEF Admission, Reserve, Accept, Admitted, Deliver, Claim, Create, Created, Admit, Typed, Finish, Submit, Register,
     RegisterRefused, NotPublished, Settle, Release, Candidate, DeliveryFails, CreateFails, Requeue, Reject, Retained
<1>2. ~(\E r \in Returns : Answer(r))
  BY DEF Answer, AdmitReturn, ReturnDelivered, ReturnLost
<1>3. ~(Session \/ SaveSettings \/ Select \/ Effects \/ EffectsFail \/ FailClosed \/ Tick \/ UNCHANGED vars)
  BY DEF Session, Output, Publish, RowChanges, BeginTyping, EndTyping, Destroy, SaveSettings, Select, Effects, GroupEffect,
     Kill, Retain, FinishDormant, Reopen, EffectsFail, KillLeaves, Dies, EffectLost, othersOfEffect, FailClosed, Tick, vars
<1>4. \A g \in tickets : ~Discard(g)
  BY DEF Discard
<1> QED
  BY <1>1, <1>2, <1>3, <1>4 DEF Next, RunTicket

\* A close is committed only if nothing happened to the session since its ticket was
\* taken, and for as long as the settings of that moment ask for.
THEOREM ClosesAreUndisturbed == Spec => ClosesUndisturbed
<1>1. Inv /\ [Next]_vars
        => (route = "open" /\ route' = "closing" => disturbed = "no" /\ seconds > 0 /\ still >= seconds)
  <2> SUFFICES ASSUME Inv, [Next]_vars, route = "open", route' = "closing"
               PROVE  disturbed = "no" /\ seconds > 0 /\ still >= seconds
    OBVIOUS
  <2>1. PICK g \in tickets : Commit(g)
    BY OnlyCommitCloses
  <2> QED
    BY <2>1 DEF Commit, Safe, Current, Inv, TypeOK, Watched
<1> QED
  BY <1>1, AlwaysInv, PTL DEF ClosesUndisturbed, Spec

\* A close is committed only when every accepted message is settled, and an answer
\* begun after the last input was delivered.
THEOREM ClosesAreAnswered == Spec => ClosesOnlyAnswered
<1>1. Inv /\ [Next]_vars => (route = "open" /\ route' = "closing" => NoWork /\ answered = "yes")
  <2> SUFFICES ASSUME Inv, [Next]_vars, route = "open", route' = "closing" PROVE NoWork /\ answered = "yes"
    OBVIOUS
  <2>1. PICK g \in tickets : Commit(g)
    BY OnlyCommitCloses
  <2> QED
    BY <2>1 DEF Commit, Safe, Answered, Inv, Honest
<1> QED
  BY <1>1, AlwaysInv, PTL DEF ClosesOnlyAnswered, Spec
=============================================================================
