--------------------------- MODULE QuitGateProofs ---------------------------
(***************************************************************************)
(* Proofs about QuitGate, for every set of gates, every Timeout and every  *)
(* bound.                                                                  *)
(***************************************************************************)
EXTENDS QuitGate, TLAPS

\* The epochs in order: a live round is the youngest epoch allocated, the
\* terminal belongs to an older one, and an epoch not allocated has no task.
EpochOrder ==
  /\ live # NoEpoch => live = nextEpoch /\ terminal.epoch < live
  /\ terminal.epoch <= nextEpoch
  /\ \A e \in Epochs : pc[e] # "none" => e <= nextEpoch

IndType == TypeOK /\ EpochOrder

\* The types, and the order of the epochs that bounds the allocator.
LEMMA TypeInit == Init => IndType
  BY TimeoutAssumption, BoundsAssumption
  DEF Init, IndType, TypeOK, EpochOrder, Epochs, NoEpoch, NoTerminal, Paused,
      Deadlines, Steps, Reasons

\* Ending a round keeps the types, whichever outcome it writes.
LEMMA FinishType ==
  ASSUME IndType, NEW e \in Epochs, NEW outcome, outcome.epoch = e,
         outcome \in [epoch : 0..MaxEpoch, kind : {"None", "Exiting", "Aborted"},
                     reason : Reasons],
         Finish(outcome)
  PROVE  /\ live = e /\ live' = NoEpoch /\ terminal'.epoch = e
         /\ pending' \subseteq Gates /\ busy' \subseteq Gates
         /\ remaining' \in Nat /\ deadline' \in Deadlines
         /\ live' \in 0..MaxEpoch
         /\ terminal' \in [epoch : 0..MaxEpoch, kind : {"None", "Exiting", "Aborted"},
                           reason : Reasons]
         /\ exitClaimed' \in {"no", "yes"}
  BY BoundsAssumption DEF Finish, LiveRound, NoEpoch, Deadlines

\* The outcomes finish is given are well typed and carry their epoch.
LEMMA OutcomeTypes ==
  ASSUME NEW e \in Epochs, NEW why \in Reasons
  PROVE  /\ Exiting(e) \in [epoch : 0..MaxEpoch, kind : {"None", "Exiting", "Aborted"},
                            reason : Reasons]
         /\ Aborted(e, why) \in [epoch : 0..MaxEpoch, kind : {"None", "Exiting", "Aborted"},
                                 reason : Reasons]
         /\ Exiting(e).epoch = e /\ Aborted(e, why).epoch = e
  BY BoundsAssumption DEF Exiting, Aborted, Epochs, Reasons

\* notify_waiters wakes tasks only.
LEMMA NotifyType == ASSUME IndType, NotifyWaiters PROVE woken' \subseteq Epochs
  BY DEF IndType, TypeOK, NotifyWaiters

\* resume_if_idle keeps the types of the round's clock.
LEMMA ResumeType ==
  ASSUME IndType, NEW g, ResumeIfIdle(g)
  PROVE  busy' \subseteq Gates /\ remaining' \in Nat /\ deadline' \in Deadlines
  BY DEF IndType, TypeOK, ResumeIfIdle, Deadlines, Paused

\* pause keeps the types of the round's clock: its subtraction saturates.
LEMMA PauseType ==
  ASSUME IndType, Pause PROVE remaining' \in Nat /\ deadline' \in Deadlines
  BY DEF IndType, TypeOK, Pause, Deadlines, Paused

\* An abort keeps the types, whatever its task does besides.
LEMMA AbortType ==
  ASSUME IndType, NEW e \in Epochs, NEW why \in Reasons, Abort(e, why),
         UNCHANGED <<nextEpoch, now, armed, forceClaims, exits, enrolled, consents,
                     forced, ran, idled>>,
         registered' \subseteq Gates, pc' \in [Epochs -> Steps],
         \A f \in Epochs : pc[f] = "none" => pc'[f] = "none"
  PROVE  IndType'
<1>1. Finish(Aborted(e, why)) /\ NotifyWaiters
  BY DEF Abort
<1> QED
  BY <1>1, FinishType, OutcomeTypes, NotifyType, BoundsAssumption
  DEF IndType, TypeOK, EpochOrder, NoEpoch

\* Every step keeps the types and the order of the epochs.
LEMMA TypeStep == IndType /\ [Next]_vars => IndType'
<1> SUFFICES ASSUME IndType, [Next]_vars PROVE IndType'
  OBVIOUS
<1> USE TimeoutAssumption, BoundsAssumption
    DEF IndType, TypeOK, EpochOrder, NoEpoch
<1>1. CASE Start
  BY <1>1 DEF Start, Steps, Epochs, Deadlines
<1>2. CASE Tick
  BY <1>2 DEF Tick, taskVars, roundVars
<1>3. ASSUME NEW g \in Gates, Register(g) PROVE IndType'
  BY <1>3 DEF Register, taskVars, histVars, roundVars
<1>4. ASSUME NEW g \in Gates, NEW why \in Reasons, Teardown(g, why) PROVE IndType'
  <2>1. CASE live # NoEpoch /\ g \in pending
    <3>1. live \in Epochs /\ Abort(live, why) /\ registered' \subseteq Gates
      BY <1>4, <2>1 DEF Teardown, Epochs
    <3> QED
      BY <1>4, <3>1, AbortType DEF Teardown, histVars
  <2>2. CASE live # NoEpoch /\ g \notin pending
    <3>1. ResumeIfIdle(g)
      BY <1>4, <2>2 DEF Teardown
    <3> QED
      BY <1>4, <2>2, <3>1, ResumeType DEF Teardown, histVars
  <2>3. CASE live = NoEpoch
    BY <1>4, <2>3 DEF Teardown, histVars, roundVars
  <2> QED
    BY <2>1, <2>2, <2>3
<1>5. ASSUME NEW g \in Gates, NEW e \in Epochs, Consent(g, e) PROVE IndType'
  <2>1. woken' \subseteq Epochs
    BY <1>5, NotifyType DEF Consent
  <2>2. CASE FinalizeConsent(pending \ {g})
    <3>1. Finish(Exiting(e))
      BY <1>5, <2>2 DEF Consent
    <3> QED
      BY <1>5, <2>1, <3>1, FinishType, OutcomeTypes DEF Consent
  <2>3. CASE ~FinalizeConsent(pending \ {g})
    <3>1. ResumeIfIdle(g)
      BY <1>5, <2>3 DEF Consent
    <3> QED
      BY <1>5, <2>1, <2>3, <3>1, ResumeType DEF Consent
  <2> QED
    BY <2>2, <2>3
<1>6. ASSUME NEW g \in Gates, NEW e \in Epochs, Refuse(g, e) PROVE IndType'
  BY <1>6, AbortType DEF Refuse, histVars, Reasons
<1>7. ASSUME NEW g \in Gates, NEW e \in Epochs, ReportBusy(g, e) PROVE IndType'
  BY <1>7, PauseType, NotifyType DEF ReportBusy, Progress, histVars
<1>8. ASSUME NEW g \in Gates, NEW e \in Epochs, ReportIdle(g, e) PROVE IndType'
  BY <1>8, ResumeType, NotifyType DEF ReportIdle, Progress, histVars
<1>9. ASSUME NEW e \in Epochs, ForceQuit(e) PROVE IndType'
  <2>1. nextEpoch' \in 0..(MaxEpoch + 1)
    BY <1>9 DEF ForceQuit, LiveRound, Epochs
  <2>2. Finish(Exiting(e)) /\ woken' \subseteq Epochs /\ nextEpoch' = nextEpoch + 1
    BY <1>9, NotifyType DEF ForceQuit
  <2>3. EpochOrder'
    <3>1. live = e /\ terminal'.epoch = e /\ live' = NoEpoch /\ pc' = pc
      BY <1>9, <2>2, FinishType, OutcomeTypes DEF ForceQuit, Reasons
    <3> QED
      BY <2>1, <2>2, <3>1 DEF Epochs
  <2>4. TypeOK'
    BY <1>9, <2>1, <2>2, FinishType, OutcomeTypes DEF ForceQuit
  <2> QED
    BY <2>3, <2>4
<1>10. ASSUME NEW e \in Epochs, ForceClaim(e) PROVE IndType'
  BY <1>10 DEF ForceClaim, ClaimExit, histVars, roundVars
<1>11. ASSUME NEW e \in Epochs, EmitStarted(e) \/ EmitRequested(e) \/ Enrol(e)
       PROVE IndType'
  BY <1>11 DEF EmitStarted, EmitRequested, Enrol, Goto, Steps, gateVars, roundVars, histVars
<1>12. ASSUME NEW e \in Epochs, CheckTerminal(e) \/ Wake(e) \/ TimerFires(e)
       PROVE IndType'
  <2>1. woken' \subseteq Epochs /\ armed' \in [Epochs -> Deadlines]
    BY <1>12 DEF CheckTerminal, Wake, TimerFires, LeaveIteration, Deadlines
  <2>2. /\ pc' \in [Epochs -> Steps] /\ pc[e] # "none"
        /\ \A f \in Epochs : pc[f] = "none" => pc'[f] = "none"
    BY <1>12 DEF CheckTerminal, Wake, TimerFires, Goto, Steps
  <2> QED
    BY <1>12, <2>1, <2>2 DEF CheckTerminal, Wake, TimerFires, gateVars, roundVars, histVars
<1>13. ASSUME NEW e \in Epochs, ReadDeadline(e) PROVE IndType'
  BY <1>13 DEF ReadDeadline, Goto, Steps, Deadlines, gateVars, roundVars, histVars
<1>14. ASSUME NEW e \in Epochs, NEW why \in Reasons, pc[e] # "none",
              NEW to \in Steps, pc' = [pc EXCEPT ![e] = to],
              IF LiveRound(e) THEN Abort(e, why)
              ELSE UNCHANGED <<roundVars, terminal, exitClaimed, woken>>,
              UNCHANGED <<nextEpoch, registered, now, armed, forceClaims, exits, histVars>>
       PROVE IndType'
  BY <1>14, AbortType DEF histVars, roundVars
<1>15. ASSUME NEW e \in Epochs, EmitStartedFails(e) PROVE IndType'
  BY <1>14, <1>15 DEF EmitStartedFails, Goto, Steps, Reasons
<1>16. ASSUME NEW e \in Epochs, Expire(e) PROVE IndType'
  BY <1>14, <1>16 DEF Expire, Goto, Steps, Reasons
<1>17. ASSUME NEW e \in Epochs, DropTask(e) PROVE IndType'
  BY <1>14, <1>17 DEF DropTask, Guarded, Steps, Reasons
<1>18. ASSUME NEW e \in Epochs, FinalizeRound(e) PROVE IndType'
  <2>1. /\ pc' \in [Epochs -> Steps] /\ pc[e] # "none"
        /\ \A f \in Epochs : pc[f] = "none" => pc'[f] = "none"
    BY <1>18 DEF FinalizeRound, Goto, Steps
  <2>2. CASE LiveRound(e) /\ FinalizeConsent(pending)
    BY <1>18, <2>1, <2>2, FinishType, OutcomeTypes, NotifyType DEF FinalizeRound, histVars
  <2>3. CASE ~(LiveRound(e) /\ FinalizeConsent(pending))
    BY <1>18, <2>1, <2>3 DEF FinalizeRound, histVars, roundVars
  <2> QED
    BY <2>2, <2>3
<1>19. ASSUME NEW e \in Epochs, Return(e) PROVE IndType'
  BY <1>19 DEF Return, ClaimExit, Goto, Steps, histVars, roundVars
<1>20. CASE UNCHANGED vars
  BY <1>20 DEF vars
<1>21. ASSUME NEW g \in Gates, Window(g) PROVE IndType'
  BY <1>3, <1>4, <1>5, <1>6, <1>7, <1>8, <1>21 DEF Window, Unregister, WindowGone, Reasons
<1>22. ASSUME NEW e \in Epochs, Task(e) PROVE IndType'
  BY <1>11, <1>12, <1>13, <1>15, <1>16, <1>18, <1>19, <1>22 DEF Task
<1> QED
  BY <1>1, <1>2, <1>9, <1>10, <1>17, <1>20, <1>21, <1>22 DEF Next

\* Type correctness of the quit gate: the allocator, the round, the terminal
\* slot and the tasks stay in their ranges whatever the windows do.
THEOREM TypeCorrect == Spec => []TypeOK
<1>1. Spec => []IndType
  BY TypeInit, TypeStep, PTL DEF Spec
<1> QED
  BY <1>1, PTL DEF IndType
-----------------------------------------------------------------------------
(* The exit: who may cause it, and how often.                              *)

\* What the exit rests on: a gate of the live round's snapshot that is no
\* longer missing has consented; a written Exiting is backed by a force or by
\* every consent; an exit belongs to the epoch of the terminal or an older one,
\* and the claim of the terminal's own epoch is recorded.
ExitBacked ==
  /\ live # NoEpoch => enrolled[live] \subseteq pending \cup consents[live]
  /\ \A e \in Epochs : terminal = Exiting(e) =>
       e \in forced \/ enrolled[e] \subseteq consents[e]
  /\ \A e \in Epochs : exits[e] > 0 =>
       /\ e <= terminal.epoch
       /\ e = terminal.epoch => exitClaimed = "yes"

IndExit == ExitBacked /\ NoUnconsentedExit /\ ExitAtMostOnce

\* No round, no terminal, no exit at the start.
LEMMA ExitInit == Init => IndExit
  BY DEF Init, IndExit, ExitBacked, NoUnconsentedExit, ExitAtMostOnce, NoEpoch,
         NoTerminal, Exiting, Epochs

\* A step that touches none of the variables of IndExit.
LEMMA ExitFrame ==
  ASSUME IndExit,
         UNCHANGED <<live, pending, terminal, exitClaimed, exits, enrolled, consents, forced>>
  PROVE  IndExit'
  BY DEF IndExit, ExitBacked, NoUnconsentedExit, ExitAtMostOnce

\* Ending the round with an outcome that is backed.
LEMMA FinishExit ==
  ASSUME IndType, IndExit, NEW e \in Epochs, NEW outcome, outcome.epoch = e, Finish(outcome),
         outcome = Exiting(e) => e \in forced' \/ enrolled[e] \subseteq consents'[e],
         UNCHANGED <<exits, enrolled>>, forced \subseteq forced',
         \A f \in Epochs : consents[f] \subseteq consents'[f]
  PROVE  IndExit'
<1> USE DEF IndType, TypeOK, Epochs, NoEpoch
<1>1. live = e /\ live' = NoEpoch /\ terminal' = outcome /\ terminal.epoch < e
  BY DEF Finish, LiveRound, EpochOrder
<1>2. \A f \in Epochs : Exiting(f).epoch = f
  BY DEF Exiting
<1>3. \A f \in Epochs : exits'[f] > 0 => f < e
  BY <1>1 DEF IndExit, ExitBacked
<1>4. ExitBacked'
  BY <1>1, <1>2, <1>3 DEF ExitBacked
<1>5. NoUnconsentedExit' /\ ExitAtMostOnce'
  BY DEF IndExit, NoUnconsentedExit, ExitAtMostOnce
<1> QED
  BY <1>4, <1>5 DEF IndExit

\* Claiming the exit counts it once, for a backed terminal.
LEMMA ClaimStep ==
  ASSUME IndType, IndExit, NEW e \in Epochs, ClaimExit(e),
         UNCHANGED <<live, pending, terminal, enrolled, consents, forced>>
  PROVE  IndExit'
<1> USE DEF IndType, TypeOK, Epochs
<1>1. CASE terminal = Exiting(e) /\ exitClaimed = "no"
  <2>1. terminal.epoch = e /\ exitClaimed' = "yes" /\ exits' = [exits EXCEPT ![e] = @ + 1]
    BY <1>1 DEF ClaimExit, Exiting
  <2>2. exits[e] = 0
    BY <1>1, <2>1 DEF IndExit, ExitBacked
  <2>3. ExitBacked'
    BY <2>1, <2>2 DEF IndExit, ExitBacked
  <2>4. NoUnconsentedExit' /\ ExitAtMostOnce'
    BY <1>1, <2>1, <2>2 DEF IndExit, ExitBacked, NoUnconsentedExit, ExitAtMostOnce
  <2> QED
    BY <2>3, <2>4 DEF IndExit
<1>2. CASE ~(terminal = Exiting(e) /\ exitClaimed = "no")
  BY <1>2, ExitFrame DEF ClaimExit
<1> QED
  BY <1>1, <1>2

\* An aborted round backs no exit and needs no backing.
LEMMA AbortExit ==
  ASSUME IndType, IndExit, NEW e \in Epochs, NEW why \in Reasons, Abort(e, why),
         UNCHANGED <<exits, enrolled, consents, forced>>
  PROVE  IndExit'
<1>1. Finish(Aborted(e, why)) /\ Aborted(e, why) # Exiting(e) /\ Aborted(e, why).epoch = e
  BY DEF Abort, Aborted, Exiting
<1> QED
  BY <1>1, FinishExit

\* Every step keeps the exit backed.
LEMMA ExitStep == IndType /\ IndExit /\ [Next]_vars => IndExit'
<1> SUFFICES ASSUME IndType, IndExit, [Next]_vars PROVE IndExit'
  OBVIOUS
<1> USE DEF histVars, roundVars, gateVars, taskVars
<1>1. CASE Start
  <2> DEFINE e == nextEpoch + 1
  <2>1. /\ e \in Epochs /\ live' = e /\ pending' = registered
        /\ enrolled' = [enrolled EXCEPT ![e] = registered]
        /\ UNCHANGED <<terminal, exitClaimed, exits, consents, forced>>
    BY <1>1, BoundsAssumption DEF Start, IndType, TypeOK, Epochs
  <2>2. \A f \in Epochs : exits[f] > 0 \/ terminal = Exiting(f) => f # e
    BY <2>1, BoundsAssumption
    DEF IndType, TypeOK, EpochOrder, IndExit, ExitBacked, Exiting, Epochs
  <2>3. enrolled'[e] = registered /\ \A f \in Epochs : f # e => enrolled'[f] = enrolled[f]
    BY <2>1 DEF IndType, TypeOK
  <2>4. ExitBacked'
    BY <2>1, <2>2, <2>3 DEF IndExit, ExitBacked
  <2>5. NoUnconsentedExit' /\ ExitAtMostOnce'
    BY <2>1, <2>2, <2>3 DEF IndExit, NoUnconsentedExit, ExitAtMostOnce
  <2> QED
    BY <2>4, <2>5 DEF IndExit
<1>2. CASE Tick
  BY <1>2, ExitFrame DEF Tick
<1>3. ASSUME NEW g \in Gates, Register(g) PROVE IndExit'
  BY <1>3, ExitFrame DEF Register
<1>4. ASSUME NEW g \in Gates, NEW why \in Reasons, Teardown(g, why) PROVE IndExit'
  <2>1. CASE live # NoEpoch /\ g \in pending
    <3>1. live \in Epochs /\ Abort(live, why)
      BY <1>4, <2>1 DEF Teardown, IndType, TypeOK, Epochs, NoEpoch
    <3> QED
      BY <1>4, <3>1, AbortExit DEF Teardown
  <2>2. CASE ~(live # NoEpoch /\ g \in pending)
    BY <1>4, <2>2, ExitFrame DEF Teardown
  <2> QED
    BY <2>1, <2>2
<1>5. ASSUME NEW g \in Gates, NEW e \in Epochs, Consent(g, e) PROVE IndExit'
  <2>1. /\ live = e /\ g \in pending
        /\ consents' = [consents EXCEPT ![e] = @ \cup {g}]
        /\ UNCHANGED <<exits, enrolled, forced>>
    BY <1>5 DEF Consent, LiveRound
  <2>2. /\ consents'[e] = consents[e] \cup {g}
        /\ \A f \in Epochs : f # e => consents'[f] = consents[f]
        /\ \A f \in Epochs : consents[f] \subseteq consents'[f]
    BY <2>1 DEF IndType, TypeOK
  <2>3. enrolled[e] \subseteq (pending \ {g}) \cup consents'[e]
    BY <2>1, <2>2 DEF IndExit, ExitBacked, Epochs, NoEpoch
  <2>4. CASE FinalizeConsent(pending \ {g})
    <3>1. Finish(Exiting(e)) /\ enrolled[e] \subseteq consents'[e] /\ Exiting(e).epoch = e
      BY <1>5, <2>3, <2>4 DEF Consent, FinalizeConsent, Exiting
    <3> QED
      BY <2>1, <2>2, <3>1, FinishExit
  <2>5. CASE ~FinalizeConsent(pending \ {g})
    <3>1. pending' = pending \ {g} /\ UNCHANGED <<live, terminal, exitClaimed>>
      BY <1>5, <2>5 DEF Consent
    <3>2. ExitBacked'
      BY <2>1, <2>2, <2>3, <3>1 DEF IndExit, ExitBacked
    <3>3. NoUnconsentedExit' /\ ExitAtMostOnce'
      BY <2>1, <2>2 DEF IndExit, NoUnconsentedExit, ExitAtMostOnce
    <3> QED
      BY <3>2, <3>3 DEF IndExit
  <2> QED
    BY <2>4, <2>5
<1>6. ASSUME NEW g \in Gates, NEW e \in Epochs, Refuse(g, e) PROVE IndExit'
  BY <1>6, AbortExit DEF Refuse, Reasons
<1>7. ASSUME NEW g \in Gates, NEW e \in Epochs, ReportBusy(g, e) \/ ReportIdle(g, e)
      PROVE IndExit'
  BY <1>7, ExitFrame DEF ReportBusy, ReportIdle, Progress
<1>8. ASSUME NEW e \in Epochs, ForceQuit(e) PROVE IndExit'
  <2>1. /\ Finish(Exiting(e)) /\ forced' = forced \cup {e} /\ Exiting(e).epoch = e
        /\ UNCHANGED <<exits, enrolled, consents>>
    BY <1>8 DEF ForceQuit, Exiting
  <2> QED
    BY <2>1, FinishExit
<1>9. ASSUME NEW e \in Epochs, ForceClaim(e) \/ Return(e) PROVE IndExit'
  BY <1>9, ClaimStep DEF ForceClaim, Return
<1>10. ASSUME NEW e \in Epochs,
              EmitStarted(e) \/ EmitRequested(e) \/ Enrol(e) \/ CheckTerminal(e)
              \/ ReadDeadline(e) \/ Wake(e) \/ TimerFires(e)
       PROVE IndExit'
  BY <1>10, ExitFrame DEF EmitStarted, EmitRequested, Enrol, CheckTerminal, ReadDeadline,
     Wake, TimerFires
<1>11. ASSUME NEW e \in Epochs, EmitStartedFails(e) \/ Expire(e) \/ DropTask(e)
       PROVE IndExit'
  BY <1>11, AbortExit, ExitFrame DEF EmitStartedFails, Expire, DropTask, Reasons
<1>12. ASSUME NEW e \in Epochs, FinalizeRound(e) PROVE IndExit'
  <2>1. CASE LiveRound(e) /\ FinalizeConsent(pending)
    <3>1. /\ Finish(Exiting(e)) /\ Exiting(e).epoch = e
          /\ UNCHANGED <<exits, enrolled, consents, forced>>
      BY <1>12, <2>1 DEF FinalizeRound, Exiting
    <3>2. enrolled[e] \subseteq consents[e]
      BY <2>1 DEF IndExit, ExitBacked, LiveRound, FinalizeConsent
    <3> QED
      BY <3>1, <3>2, FinishExit
  <2>2. CASE ~(LiveRound(e) /\ FinalizeConsent(pending))
    BY <1>12, <2>2, ExitFrame DEF FinalizeRound
  <2> QED
    BY <2>1, <2>2
<1>13. CASE UNCHANGED vars
  BY <1>13, ExitFrame DEF vars
<1>14. ASSUME NEW g \in Gates, Window(g) PROVE IndExit'
  BY <1>3, <1>4, <1>5, <1>6, <1>7, <1>14 DEF Window, Unregister, WindowGone, Reasons
<1>15. ASSUME NEW e \in Epochs, Task(e) PROVE IndExit'
  BY <1>9, <1>10, <1>11, <1>12, <1>15 DEF Task
<1> QED
  BY <1>1, <1>2, <1>8, <1>9, <1>11, <1>13, <1>14, <1>15 DEF Next

\* The quit gate's purpose: whatever main and the gates do, in any order, the
\* process exits for a round only with the consent of every gate of its
\* snapshot, or by force.
THEOREM ExitIsConsented == Spec => []NoUnconsentedExit
<1>1. IndType /\ IndExit /\ [Next]_vars => (IndType /\ IndExit)'
  BY TypeStep, ExitStep
<1>2. Init => IndType /\ IndExit
  BY TypeInit, ExitInit
<1> QED
  BY <1>1, <1>2, PTL DEF Spec, IndExit

\* The one-exit rule of try_claim_exit: the quit task and a force call never
\* both exit.
THEOREM ExitsOnce == Spec => []ExitAtMostOnce
<1>1. IndType /\ IndExit /\ [Next]_vars => (IndType /\ IndExit)'
  BY TypeStep, ExitStep
<1>2. Init => IndType /\ IndExit
  BY TypeInit, ExitInit
<1> QED
  BY <1>1, <1>2, PTL DEF Spec, IndExit
-----------------------------------------------------------------------------
(* The terminal slot and the budget.                                       *)

\* finish "never replaces an existing terminal for the same epoch": what a
\* waiter may already have read for its epoch is never rewritten.
TerminalIsFinal ==
  [][terminal' # terminal => terminal'.epoch > terminal.epoch]_vars

\* Only ending a round writes the terminal, and the round that ends is younger
\* than the terminal it replaces.
LEMMA TerminalStep ==
  ASSUME IndType, [Next]_vars
  PROVE  terminal' # terminal => terminal'.epoch > terminal.epoch
<1> USE DEF IndType, EpochOrder
<1>1. ASSUME NEW e \in Epochs, NEW why \in Reasons, Abort(e, why)
      PROVE  terminal'.epoch > terminal.epoch
  BY <1>1 DEF Abort, Finish, Aborted, LiveRound
<1>2. ASSUME NEW e \in Epochs, Finish(Exiting(e)) PROVE terminal'.epoch > terminal.epoch
  BY <1>2 DEF Finish, Exiting, LiveRound
<1>3. ASSUME NEW g \in Gates, Window(g), terminal' # terminal
      PROVE  terminal'.epoch > terminal.epoch
  <2>1. CASE \E why \in Reasons : live # NoEpoch /\ Abort(live, why)
    BY <1>1, <2>1 DEF TypeOK, Epochs, NoEpoch
  <2>2. CASE \E e \in Epochs : Finish(Exiting(e)) \/ Abort(e, "Refused")
    BY <1>1, <1>2, <2>2 DEF Reasons
  <2> QED
    BY <1>3, <2>1, <2>2 DEF Window, Register, Unregister, WindowGone, Teardown, Consent,
       Refuse, ReportBusy, ReportIdle, Progress, Reasons
<1>4. ASSUME NEW e \in Epochs, Task(e) \/ DropTask(e), terminal' # terminal
      PROVE  terminal'.epoch > terminal.epoch
  <2>1. CASE \E why \in Reasons : Abort(e, why)
    BY <1>1, <2>1
  <2>2. CASE Finish(Exiting(e))
    BY <1>2, <2>2
  <2> QED
    BY <1>4, <2>1, <2>2 DEF Task, DropTask, EmitStarted, EmitStartedFails, EmitRequested,
       FinalizeRound, Enrol, CheckTerminal, ReadDeadline, Wake, TimerFires, Expire, Return,
       gateVars, Reasons
<1>5. ASSUME NEW e \in Epochs, ForceQuit(e) \/ ForceClaim(e), terminal' # terminal
      PROVE  terminal'.epoch > terminal.epoch
  BY <1>2, <1>5 DEF ForceQuit, ForceClaim
<1>6. CASE Start \/ Tick \/ UNCHANGED vars
  BY <1>6 DEF Start, Tick, vars
<1> QED
  BY <1>3, <1>4, <1>5, <1>6 DEF Next

\* finish never rewrites an outcome a waiter may have read.
THEOREM TerminalNeverRewritten == Spec => TerminalIsFinal
<1>1. Spec => []IndType
  BY TypeInit, TypeStep, PTL DEF Spec
<1>2. IndType /\ [Next]_vars => [terminal' # terminal => terminal'.epoch > terminal.epoch]_vars
  BY TerminalStep
<1> QED
  BY <1>1, <1>2, PTL DEF Spec, TerminalIsFinal

\* No round is live at the start.
LEMMA BudgetInit == Init => BudgetIsExact
  BY DEF Init, BudgetIsExact

\* Pausing and resuming neither refund nor charge budget.
LEMMA BudgetStep ==
  ASSUME IndType, BudgetIsExact, [Next]_vars
  PROVE  BudgetIsExact'
<1> USE TimeoutAssumption DEF IndType, TypeOK, Deadlines, Paused, NoEpoch, roundVars, histVars
<1>1. ASSUME live' = NoEpoch PROVE BudgetIsExact'
  BY <1>1 DEF BudgetIsExact
<1>2. ASSUME UNCHANGED <<live, pending, busy, remaining, deadline, now, ran>>
      PROVE BudgetIsExact'
  BY <1>2 DEF BudgetIsExact
<1>3. ASSUME NEW g \in Gates, live # NoEpoch, ResumeIfIdle(g), UNCHANGED <<live, now, ran>>,
             pending' = pending \/ pending' = pending \ {g}
      PROVE BudgetIsExact'
  BY <1>3 DEF BudgetIsExact, ResumeIfIdle
<1>4. CASE Start
  BY <1>4, BoundsAssumption DEF Start, BudgetIsExact
<1>5. CASE Tick
  BY <1>5 DEF Tick, BudgetIsExact
<1>6. ASSUME NEW g \in Gates, Register(g) PROVE BudgetIsExact'
  BY <1>2, <1>6 DEF Register
<1>7. ASSUME NEW g \in Gates, NEW why, Teardown(g, why) PROVE BudgetIsExact'
  BY <1>1, <1>2, <1>3, <1>7 DEF Teardown, Abort, Finish
<1>8. ASSUME NEW g \in Gates, NEW e \in Epochs, Consent(g, e) PROVE BudgetIsExact'
  <2>1. live # NoEpoch
    BY <1>8 DEF Consent, LiveRound
  <2> QED
    BY <1>1, <1>3, <1>8, <2>1 DEF Consent, Finish
<1>9. ASSUME NEW g \in Gates, NEW e \in Epochs, Refuse(g, e) PROVE BudgetIsExact'
  BY <1>1, <1>9 DEF Refuse, Abort, Finish
<1>10. ASSUME NEW g \in Gates, NEW e \in Epochs, ReportBusy(g, e) PROVE BudgetIsExact'
  BY <1>10 DEF ReportBusy, Progress, Pause, LiveRound, BudgetIsExact
<1>11. ASSUME NEW g \in Gates, NEW e \in Epochs, ReportIdle(g, e) PROVE BudgetIsExact'
  BY <1>3, <1>11 DEF ReportIdle, Progress, LiveRound
<1>12. ASSUME NEW e \in Epochs, Task(e) \/ DropTask(e) \/ ForceQuit(e) \/ ForceClaim(e)
       PROVE BudgetIsExact'
  BY <1>1, <1>2, <1>12 DEF Task, DropTask, EmitStarted, EmitStartedFails, EmitRequested,
     FinalizeRound, Enrol, CheckTerminal, ReadDeadline, Wake, TimerFires, Expire, Return,
     ForceQuit, ForceClaim, Abort, Finish, gateVars
<1>13. CASE UNCHANGED vars
  BY <1>2, <1>13 DEF vars
<1>14. ASSUME NEW g \in Gates, Window(g) PROVE BudgetIsExact'
  BY <1>6, <1>7, <1>8, <1>9, <1>10, <1>11, <1>14 DEF Window, Unregister, WindowGone
<1> QED
  BY <1>4, <1>5, <1>12, <1>13, <1>14 DEF Next

\* QUIT_GATE_TIMEOUT is an unpaused budget: the deadline arithmetic is exact
\* for every Timeout and every history of pauses.
THEOREM BudgetExact == Spec => []BudgetIsExact
<1>1. IndType /\ BudgetIsExact /\ [Next]_vars => (IndType /\ BudgetIsExact)'
  BY TypeStep, BudgetStep
<1>2. Init => IndType /\ BudgetIsExact
  BY TypeInit, BudgetInit
<1> QED
  BY <1>1, <1>2, PTL DEF Spec
-----------------------------------------------------------------------------
(* The waiter: no wakeup is lost, and no timeout comes early.               *)

\* Between enrolling and parking: a task that read "no terminal" and was not
\* notified since still has none; a task about to expire its live round saw the
\* whole budget gone.
WaiterStays ==
  /\ \A e \in Epochs : pc[e] = "arm" /\ e \notin woken => terminal.epoch # e
  /\ \A e \in Epochs : pc[e] = "expire" /\ LiveRound(e) => ran >= Timeout

IndWaiter == NoLostWakeup /\ WaiterStays

\* No task waits at the start.
LEMMA WaiterInit == Init => IndWaiter
  BY DEF Init, IndWaiter, NoLostWakeup, WaiterStays

\* notify_waiters after a change reaches every task it could concern.
LEMMA NotifyStep ==
  ASSUME IndType, IndWaiter, NEW e, NotifyWaiters, NEW to \in Steps,
         to \notin {"arm", "parked", "expire"},
         pc' = pc \/ pc' = [pc EXCEPT ![e] = to],
         live' \in {live, NoEpoch}, ran' = ran
  PROVE  IndWaiter'
  BY DEF IndType, TypeOK, IndWaiter, NoLostWakeup, WaiterStays, NotifyWaiters, Enrolled,
         LiveRound, NoEpoch

\* A step of the task that leaves the gate alone.
LEMMA QuietStep ==
  ASSUME IndType, IndWaiter, NEW e, NEW to \in Steps,
         to \notin {"arm", "parked", "expire"},
         pc' = pc \/ pc' = [pc EXCEPT ![e] = to],
         \A f \in Epochs : f # e => (f \in woken <=> f \in woken') /\ armed'[f] = armed[f],
         pc' = pc => UNCHANGED <<woken, armed>>,
         UNCHANGED <<live, deadline, terminal, ran>>
  PROVE  IndWaiter'
  BY DEF IndType, TypeOK, IndWaiter, NoLostWakeup, WaiterStays, LiveRound

\* Every step keeps the waiter sound, given the exact budget.
LEMMA WaiterStep ==
  ASSUME IndType, BudgetIsExact, IndWaiter, [Next]_vars
  PROVE  IndWaiter'
<1> USE DEF histVars, roundVars, gateVars, taskVars
<1>0. "enrol" \in Steps /\ "request" \in Steps /\ "finalize" \in Steps /\ "check" \in Steps
      /\ "claim" \in Steps /\ "returned" \in Steps /\ "dropped" \in Steps
  BY DEF Steps
<1>1. CASE Start
  BY <1>1 DEF Start, IndType, TypeOK, EpochOrder, IndWaiter, NoLostWakeup, WaiterStays,
     LiveRound, NoEpoch, Steps
<1>2. CASE Tick
  <2>1. /\ UNCHANGED <<pc, woken, armed, live, deadline, terminal>>
        /\ ran' = ran \/ ran' = ran + 1
    BY <1>2 DEF Tick
  <2> QED
    BY <2>1, TimeoutAssumption DEF IndType, TypeOK, IndWaiter, NoLostWakeup, WaiterStays,
       LiveRound
<1>3. ASSUME NEW g \in Gates, Register(g) PROVE IndWaiter'
  BY <1>0, <1>3, QuietStep DEF Register
<1>4. ASSUME NEW g \in Gates, NEW why \in Reasons, Teardown(g, why) PROVE IndWaiter'
  <2>1. CASE live # NoEpoch /\ g \in pending
    <3>1. NotifyWaiters /\ live' = NoEpoch
      BY <1>4, <2>1 DEF Teardown, Abort, Finish
    <3> QED
      BY <1>0, <1>4, <3>1, NotifyStep DEF Teardown
  <2>2. CASE live # NoEpoch /\ g \notin pending
    <3>1. UNCHANGED <<live, deadline, terminal, woken>>
      BY <1>4, <2>2 DEF Teardown, ResumeIfIdle, BudgetIsExact
    <3> QED
      BY <1>0, <1>4, <3>1, QuietStep DEF Teardown
  <2>3. CASE live = NoEpoch
    BY <1>0, <1>4, <2>3, QuietStep DEF Teardown
  <2> QED
    BY <2>1, <2>2, <2>3
<1>5. ASSUME NEW g \in Gates, NEW e \in Epochs,
             Consent(g, e) \/ Refuse(g, e) \/ ReportBusy(g, e) \/ ReportIdle(g, e)
      PROVE IndWaiter'
  <2>1. NotifyWaiters /\ live' \in {live, NoEpoch} /\ pc' = pc /\ ran' = ran
    BY <1>5 DEF Consent, Refuse, ReportBusy, ReportIdle, Progress, Abort, Finish
  <2> QED
    BY <1>0, <2>1, NotifyStep
<1>6. ASSUME NEW e \in Epochs, ForceQuit(e) PROVE IndWaiter'
  <2>1. NotifyWaiters /\ live' = NoEpoch /\ pc' = pc /\ ran' = ran
    BY <1>6 DEF ForceQuit, Finish
  <2> QED
    BY <1>0, <2>1, NotifyStep
<1>7. ASSUME NEW e \in Epochs, ForceClaim(e) PROVE IndWaiter'
  BY <1>0, <1>7, QuietStep DEF ForceClaim
<1>8. ASSUME NEW e \in Epochs,
             EmitStarted(e) \/ EmitRequested(e) \/ Enrol(e) \/ Wake(e) \/ Return(e)
      PROVE IndWaiter'
  <2>1. \E to \in {"request", "finalize", "check", "enrol", "returned"} :
           pc' = [pc EXCEPT ![e] = to] /\ pc[e] # to
    BY <1>8 DEF EmitStarted, EmitRequested, Enrol, Wake, Return, Goto
  <2>2. /\ \A f \in Epochs : f # e => (f \in woken <=> f \in woken') /\ armed'[f] = armed[f]
        /\ UNCHANGED <<live, deadline, terminal, ran>>
    BY <1>8 DEF EmitStarted, EmitRequested, Enrol, Wake, Return, LeaveIteration,
       IndType, TypeOK
  <2>3. pc' # pc
    BY <2>1 DEF IndType, TypeOK
  <2> QED
    BY <1>0, <2>1, <2>2, <2>3, QuietStep
<1>9. ASSUME NEW e \in Epochs, CheckTerminal(e) PROVE IndWaiter'
  BY <1>9 DEF CheckTerminal, Goto, LeaveIteration, IndType, TypeOK, IndWaiter, NoLostWakeup,
     WaiterStays, LiveRound
<1>10. ASSUME NEW e \in Epochs, ReadDeadline(e) PROVE IndWaiter'
  BY <1>10 DEF ReadDeadline, Goto, IndType, TypeOK, IndWaiter, NoLostWakeup, WaiterStays,
     LiveRound
<1>11. ASSUME NEW e \in Epochs, TimerFires(e) PROVE IndWaiter'
  <2>1. TimeoutDue(e) => ran >= Timeout
    BY TimeoutAssumption DEF TimeoutDue, LiveRound, BudgetIsExact, IndType, TypeOK,
       Deadlines, Paused
  <2> QED
    BY <1>11, <2>1 DEF TimerFires, Goto, LeaveIteration, IndType, TypeOK, IndWaiter,
       NoLostWakeup, WaiterStays, LiveRound, TimeoutDue
<1>12. ASSUME NEW e \in Epochs, EmitStartedFails(e) \/ FinalizeRound(e) \/ Expire(e)
              \/ DropTask(e)
       PROVE IndWaiter'
  <2>1. \E to \in {"dropped", "enrol"} : pc' = [pc EXCEPT ![e] = to] /\ pc[e] # to
    BY <1>12 DEF EmitStartedFails, FinalizeRound, Expire, DropTask, Goto, Guarded
  <2>2. pc' # pc
    BY <2>1 DEF IndType, TypeOK
  <2>3. CASE NotifyWaiters /\ live' = NoEpoch
    BY <1>0, <1>12, <2>1, <2>3, NotifyStep
    DEF EmitStartedFails, FinalizeRound, Expire, DropTask
  <2>4. CASE UNCHANGED <<live, deadline, terminal, woken>>
    BY <1>0, <1>12, <2>1, <2>2, <2>4, QuietStep
    DEF EmitStartedFails, FinalizeRound, Expire, DropTask
  <2> QED
    BY <1>12, <2>3, <2>4 DEF EmitStartedFails, FinalizeRound, Expire, DropTask, Abort, Finish
<1>13. CASE UNCHANGED vars
  BY <1>0, <1>13, QuietStep DEF vars
<1>14. ASSUME NEW g \in Gates, Window(g) PROVE IndWaiter'
  BY <1>3, <1>4, <1>5, <1>14 DEF Window, Unregister, WindowGone, Reasons
<1>15. ASSUME NEW e \in Epochs, Task(e) PROVE IndWaiter'
  BY <1>8, <1>9, <1>10, <1>11, <1>12, <1>15 DEF Task
<1> QED
  BY <1>1, <1>2, <1>6, <1>7, <1>12, <1>13, <1>14, <1>15 DEF Next

IndAll == IndType /\ BudgetIsExact /\ IndWaiter

\* The three inductive parts and the exact budget hold together.
LEMMA AllInvariant == Spec => []IndAll
<1>1. IndAll /\ [Next]_vars => IndAll'
  <2> SUFFICES ASSUME IndAll, [Next]_vars PROVE IndAll'
    OBVIOUS
  <2>1. IndType /\ BudgetIsExact /\ IndWaiter
    BY DEF IndAll
  <2>2. IndType' /\ BudgetIsExact' /\ IndWaiter'
    BY <2>1, TypeStep, BudgetStep, WaiterStep
  <2> QED
    BY <2>2 DEF IndAll
<1>2. Init => IndAll
  BY TypeInit, BudgetInit, WaiterInit DEF IndAll
<1> QED
  BY <1>1, <1>2, PTL DEF Spec

\* Enrolling before reading is enough: however the notifications interleave
\* with the reads, a parked task sleeps on the current deadline or is woken.
THEOREM WakeupsNotLost == Spec => []NoLostWakeup
  BY AllInvariant, PTL DEF IndAll, IndWaiter

\* Only Expire writes a Timeout outcome.
LEMMA TimeoutStep ==
  ASSUME IndAll, [Next]_vars, terminal' # terminal, terminal'.reason = "Timeout"
  PROVE  ran >= Timeout
<1>1. ASSUME NEW e, NEW why, Finish(Aborted(e, why)), why # "Timeout" PROVE FALSE
  BY <1>1 DEF Finish, Aborted
<1>2. ASSUME NEW e, Finish(Exiting(e)) PROVE FALSE
  BY <1>2 DEF Finish, Exiting
<1>3. ASSUME NEW g \in Gates, Window(g) PROVE FALSE
  BY <1>1, <1>2, <1>3 DEF Window, Register, Unregister, WindowGone, Teardown, Consent,
     Refuse, ReportBusy, ReportIdle, Progress, Abort
<1>4. ASSUME NEW e \in Epochs, Expire(e) PROVE ran >= Timeout
  BY <1>4 DEF Expire, Goto, IndAll, IndWaiter, WaiterStays
<1>5. ASSUME NEW e \in Epochs, Task(e) \/ DropTask(e), ~Expire(e) PROVE FALSE
  BY <1>1, <1>2, <1>5 DEF Task, DropTask, EmitStarted, EmitStartedFails, EmitRequested,
     FinalizeRound, Enrol, CheckTerminal, ReadDeadline, Wake, TimerFires, Return, Abort, gateVars
<1>6. ASSUME NEW e \in Epochs, ForceQuit(e) \/ ForceClaim(e) PROVE FALSE
  BY <1>2, <1>6 DEF ForceQuit, ForceClaim
<1>7. CASE Start \/ Tick \/ UNCHANGED vars
  BY <1>7 DEF Start, Tick, vars
<1> QED
  BY <1>3, <1>4, <1>5, <1>6, <1>7 DEF Next

\* No round is timed out before it has run Timeout unpaused ticks.
THEOREM NeverEarly == Spec => TimeoutAfterFullBudget
<1>1. IndAll /\ [Next]_vars =>
        [terminal' # terminal /\ terminal'.reason = "Timeout" => ran >= Timeout]_vars
  BY TimeoutStep
<1> QED
  BY AllInvariant, <1>1, PTL DEF Spec, TimeoutAfterFullBudget
-----------------------------------------------------------------------------
(* The gate implements the vote.                                           *)

\* What is pending are the windows that were asked and have not agreed; nobody
\* has agreed in a round that was not allocated.
Ballot ==
  /\ live # NoEpoch => pending = enrolled[live] \ consents[live]
  /\ \A e \in Epochs : e > nextEpoch => consents[e] = {}

\* No round and no consent at the start.
LEMMA BallotInit == Init => Ballot /\ Vote!Init
  BY DEF Init, Ballot, Vote!Init, Vote!None, NoEpoch, NoTerminal

\* A step that the vote does not see.
Offstage == UNCHANGED <<live, pending, terminal, exits, enrolled, consents, forced>>

\* What a step of the gate must be for the vote.
VoteStep == Vote!Next \/ UNCHANGED Vote!vars

\* Such a step keeps the ballot.
LEMMA OffstageStep ==
  ASSUME IndType, Ballot, Offstage, nextEpoch' = nextEpoch
  PROVE  Ballot' /\ VoteStep
  BY DEF Offstage, Ballot, VoteStep, Vote!vars

\* Ending the round decides the vote, and leaves no ballot.
LEMMA FinishDecides ==
  ASSUME IndType, Ballot, NEW e \in Epochs, NEW outcome, outcome.epoch = e, Finish(outcome),
         enrolled' = enrolled, nextEpoch' \in Nat, nextEpoch' >= nextEpoch,
         \A f \in Epochs : f # e => consents'[f] = consents[f]
  PROVE  Ballot' /\ Vote!Decide(outcome.kind)
<1>1. live = e /\ live' = NoEpoch /\ terminal' = outcome /\ e # NoEpoch
  BY DEF Finish, LiveRound
<1>2. Vote!Decide(outcome.kind)
  BY <1>1 DEF Vote!Decide, Vote!None, NoEpoch
<1>3. ASSUME NEW f \in Epochs, f > nextEpoch' PROVE consents'[f] = {}
  <2>1. f > nextEpoch /\ f # e
    BY <1>1, <1>3 DEF IndType, TypeOK, EpochOrder, Epochs
  <2> QED
    BY <2>1 DEF Ballot
<1> QED
  BY <1>1, <1>2, <1>3 DEF Ballot

\* Whatever aborts a round is a veto.
LEMMA AbortVetoes ==
  ASSUME IndType, Ballot, NEW e \in Epochs, NEW why \in Reasons, Abort(e, why),
         UNCHANGED <<nextEpoch, enrolled, consents, forced, exits>>
  PROVE  Ballot' /\ VoteStep
<1>1. /\ Finish(Aborted(e, why)) /\ Aborted(e, why).epoch = e
      /\ Aborted(e, why).kind = "Aborted" /\ nextEpoch \in Nat
  BY DEF Abort, Aborted, IndType, TypeOK
<1>2. Ballot' /\ Vote!Decide("Aborted")
  BY <1>1, FinishDecides
<1> QED
  BY <1>2 DEF VoteStep, Vote!Next, Vote!Veto

\* A claim of the exit is the one exit of the outcome that stands.
LEMMA ClaimIsExit ==
  ASSUME IndType, IndExit, Ballot, NEW e \in Epochs, ClaimExit(e),
         UNCHANGED <<nextEpoch, live, pending, terminal, enrolled, consents, forced>>
  PROVE  Ballot' /\ VoteStep
<1>1. Ballot'
  BY DEF Ballot
<1>2. CASE terminal = Exiting(e) /\ exitClaimed = "no"
  <2>1. /\ terminal.epoch = e /\ terminal.kind = "Exiting"
        /\ exits' = [exits EXCEPT ![e] = @ + 1]
    BY <1>2 DEF ClaimExit, Exiting
  <2>2. exits[e] = 0
    BY <1>2, <2>1 DEF IndExit, ExitBacked, IndType, TypeOK
  <2>3. exits' = [exits EXCEPT ![e] = 1]
    BY <2>1, <2>2
  <2>4. Vote!Exit(e)
    BY <2>1, <2>2, <2>3 DEF Vote!Exit
  <2> QED
    BY <1>1, <2>4 DEF VoteStep, Vote!Next
<1>3. CASE ~(terminal = Exiting(e) /\ exitClaimed = "no")
  BY <1>1, <1>3, OffstageStep DEF ClaimExit, Offstage
<1> QED
  BY <1>2, <1>3

\* A consent that counts is a vote, and the last one carries it.
LEMMA ConsentAgrees ==
  ASSUME IndType, Ballot, NEW g \in Gates, NEW e \in Epochs, Consent(g, e)
  PROVE  Ballot' /\ VoteStep
<1>1. /\ live = e /\ e # NoEpoch /\ g \in pending
      /\ consents' = [consents EXCEPT ![e] = @ \cup {g}]
      /\ UNCHANGED <<nextEpoch, exits, enrolled, forced>>
      /\ pending = enrolled[e] \ consents[e]
  BY DEF Consent, LiveRound, Ballot
<1>2. /\ consents'[e] = consents[e] \cup {g} /\ e <= nextEpoch /\ nextEpoch \in Nat
      /\ \A f \in Epochs : f # e => consents'[f] = consents[f]
  BY <1>1 DEF IndType, TypeOK, EpochOrder
<1>3. Vote!Missing = pending
  BY <1>1 DEF Vote!Missing
<1>4. CASE pending = {g}
  <2>1. Finish(Exiting(e)) /\ Exiting(e).epoch = e /\ Exiting(e).kind = "Exiting"
    BY <1>4 DEF Consent, FinalizeConsent, Exiting
  <2>2. Ballot' /\ Vote!Decide("Exiting")
    BY <1>1, <1>2, <2>1, FinishDecides
  <2>3. Vote!Agree(g)
    BY <1>1, <1>3, <1>4, <2>2 DEF Vote!Agree, Vote!None, NoEpoch
  <2> QED
    BY <2>2, <2>3 DEF VoteStep, Vote!Next
<1>5. CASE pending # {g}
  <2>1. pending' = pending \ {g} /\ UNCHANGED <<live, terminal>>
    BY <1>1, <1>5 DEF Consent, FinalizeConsent
  <2>2. Ballot'
    <3>1. pending' = enrolled'[live'] \ consents'[live']
      BY <1>1, <1>2, <2>1
    <3>2. \A f \in Epochs : f > nextEpoch' => consents'[f] = {}
      BY <1>1, <1>2 DEF Ballot, Epochs
    <3> QED
      BY <3>1, <3>2 DEF Ballot
  <2>3. Vote!Agree(g)
    BY <1>1, <1>3, <1>5, <2>1 DEF Vote!Agree, Vote!None, NoEpoch
  <2> QED
    BY <2>2, <2>3 DEF VoteStep, Vote!Next
<1> QED
  BY <1>4, <1>5

\* Every step is a step of the vote or one it does not see.
LEMMA GateStep == IndType /\ IndExit /\ Ballot /\ [Next]_vars => Ballot' /\ VoteStep
<1> SUFFICES ASSUME IndType, IndExit, Ballot, [Next]_vars PROVE Ballot' /\ VoteStep
  OBVIOUS
<1> USE DEF histVars, roundVars, gateVars, taskVars
<1>1. CASE Start
  <2> DEFINE e == nextEpoch + 1
  <2>1. /\ e \in Epochs /\ e # NoEpoch /\ live = NoEpoch /\ live' = e /\ nextEpoch' = e
        /\ pending' = registered /\ registered \in SUBSET Gates /\ terminal.epoch < e
        /\ enrolled' = [enrolled EXCEPT ![e] = registered]
        /\ UNCHANGED <<terminal, exits, consents, forced>>
    BY <1>1, BoundsAssumption DEF Start, IndType, TypeOK, EpochOrder, Epochs, NoEpoch
  <2>2. enrolled'[e] = registered /\ consents[e] = {}
    BY <2>1 DEF IndType, TypeOK, Ballot
  <2>3. Ballot'
    BY <2>1, <2>2 DEF Ballot, IndType, TypeOK, Epochs
  <2>4. Vote!Ask(e)
    BY <2>1 DEF Vote!Ask, Vote!None, NoEpoch, IndType, TypeOK
  <2> QED
    BY <2>1, <2>3, <2>4 DEF VoteStep, Vote!Next
<1>2. CASE Tick \/ UNCHANGED vars
  BY <1>2, OffstageStep DEF Tick, vars, Offstage
<1>3. ASSUME NEW g \in Gates, Register(g) PROVE Ballot' /\ VoteStep
  BY <1>3, OffstageStep DEF Register, Offstage
<1>4. ASSUME NEW g \in Gates, NEW why \in Reasons, Teardown(g, why) PROVE Ballot' /\ VoteStep
  <2>1. CASE live # NoEpoch /\ g \in pending
    <3>1. live \in Epochs /\ Abort(live, why)
      BY <1>4, <2>1 DEF Teardown, IndType, TypeOK, Epochs, NoEpoch
    <3> QED
      BY <1>4, <3>1, AbortVetoes DEF Teardown
  <2>2. CASE ~(live # NoEpoch /\ g \in pending)
    BY <1>4, <2>2, OffstageStep DEF Teardown, Offstage
  <2> QED
    BY <2>1, <2>2
<1>5. ASSUME NEW g \in Gates, NEW e \in Epochs, Refuse(g, e) PROVE Ballot' /\ VoteStep
  BY <1>5, AbortVetoes DEF Refuse, Reasons
<1>6. ASSUME NEW g \in Gates, NEW e \in Epochs, ReportBusy(g, e) \/ ReportIdle(g, e)
      PROVE  Ballot' /\ VoteStep
  BY <1>6, OffstageStep DEF ReportBusy, ReportIdle, Progress, Offstage
<1>7. ASSUME NEW e \in Epochs, ForceQuit(e) PROVE Ballot' /\ VoteStep
  <2>1. /\ Finish(Exiting(e)) /\ Exiting(e).epoch = e /\ Exiting(e).kind = "Exiting"
        /\ forced' = forced \cup {e} /\ live = e /\ nextEpoch' = nextEpoch + 1
        /\ nextEpoch \in Nat
        /\ UNCHANGED <<exits, enrolled, consents>>
    BY <1>7 DEF ForceQuit, LiveRound, Exiting, IndType, TypeOK
  <2>2. Ballot' /\ Vote!Decide("Exiting")
    BY <2>1, FinishDecides
  <2> QED
    BY <2>1, <2>2 DEF VoteStep, Vote!Next, Vote!Force
<1>8. ASSUME NEW e \in Epochs, ForceClaim(e) \/ Return(e) PROVE Ballot' /\ VoteStep
  BY <1>8, ClaimIsExit DEF ForceClaim, Return
<1>9. ASSUME NEW e \in Epochs,
             EmitStarted(e) \/ EmitRequested(e) \/ Enrol(e) \/ CheckTerminal(e)
             \/ ReadDeadline(e) \/ Wake(e) \/ TimerFires(e)
      PROVE  Ballot' /\ VoteStep
  BY <1>9, OffstageStep DEF EmitStarted, EmitRequested, Enrol, CheckTerminal, ReadDeadline,
     Wake, TimerFires, Offstage
<1>10. ASSUME NEW e \in Epochs, EmitStartedFails(e) \/ Expire(e) \/ DropTask(e)
       PROVE  Ballot' /\ VoteStep
  BY <1>10, AbortVetoes, OffstageStep
  DEF EmitStartedFails, Expire, DropTask, Reasons, Offstage
<1>11. ASSUME NEW e \in Epochs, FinalizeRound(e) PROVE Ballot' /\ VoteStep
  <2>1. CASE LiveRound(e) /\ FinalizeConsent(pending)
    <3>1. /\ Finish(Exiting(e)) /\ Exiting(e).epoch = e /\ Exiting(e).kind = "Exiting"
          /\ live = e /\ e # NoEpoch /\ pending = {} /\ nextEpoch \in Nat
          /\ UNCHANGED <<nextEpoch, exits, enrolled, consents, forced>>
      BY <1>11, <2>1 DEF FinalizeRound, FinalizeConsent, LiveRound, Exiting, IndType, TypeOK
    <3>2. Ballot' /\ Vote!Decide("Exiting")
      BY <3>1, FinishDecides
    <3>3. Vote!AgreeAll
      BY <3>1, <3>2 DEF Vote!AgreeAll, Vote!Missing, Vote!None, NoEpoch, Ballot
    <3> QED
      BY <3>2, <3>3 DEF VoteStep, Vote!Next
  <2>2. CASE ~(LiveRound(e) /\ FinalizeConsent(pending))
    BY <1>11, <2>2, OffstageStep DEF FinalizeRound, Offstage
  <2> QED
    BY <2>1, <2>2
<1>12. ASSUME NEW g \in Gates, Window(g) PROVE Ballot' /\ VoteStep
  BY <1>3, <1>4, <1>5, <1>6, <1>12, ConsentAgrees DEF Window, Unregister, WindowGone, Reasons
<1>13. ASSUME NEW e \in Epochs, Task(e) PROVE Ballot' /\ VoteStep
  BY <1>8, <1>9, <1>10, <1>11, <1>13 DEF Task
<1> QED
  BY <1>1, <1>2, <1>7, <1>8, <1>10, <1>12, <1>13 DEF Next

\* The gate, its tasks and the force calls keep the promise of a vote
\* (quit_gate.rs: install_quit_round, resolve, abort, force_quit_round,
\* try_claim_exit), whatever the windows do and however many rounds there are.
THEOREM KeepsVote == Spec => ImplementsVote
<1>1. Init => IndType /\ IndExit /\ Ballot
  BY TypeInit, ExitInit, BallotInit
<1>2. IndType /\ IndExit /\ Ballot /\ [Next]_vars => (IndType /\ IndExit /\ Ballot)'
  BY TypeStep, ExitStep, GateStep
<1>3. IndType /\ IndExit /\ Ballot /\ [Next]_vars => [Vote!Next]_Vote!vars
  BY GateStep DEF VoteStep
<1>4. Init => Vote!Init
  BY BallotInit
<1> QED
  BY <1>1, <1>2, <1>3, <1>4, PTL DEF Spec, ImplementsVote, Vote!Spec
=============================================================================
