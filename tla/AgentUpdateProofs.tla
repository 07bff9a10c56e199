------------------------- MODULE AgentUpdateProofs -------------------------
(***************************************************************************)
(* Type correctness of the update pass, that no process starts without     *)
(* consent or after its cancellation was accepted, and that nothing of the *)
(* pass is left when launches are let through, for any targets, prompts,   *)
(* steps, calls, launches and number of faults.                            *)
(*                                                                         *)
(* The argument: a target is with one of the prompt, the list of updates   *)
(* and its task at a time (Placed), so a target that is asked about has no *)
(* task an answer could disturb.  A target whose task is about to spawn is *)
(* committed and not accepted (Spawning).  And a target that has published *)
(* is never reserved after it succeeded (Kept).                            *)
(***************************************************************************)
EXTENDS AgentUpdate, TLAPS

USE TargetAssumption, BoundsAssumption

Busy == {"begin", "commit", "spawn", "running", "settling"}
Publishing == {"publish", "release", "emit"}
Over == {"stored", "notify", "done"}

\* A target has one place: to be asked about, in a prompt, to be updated, or in its task.
PlacedAt(t) ==
  /\ t \in updates \/ (sup = "body" /\ t \in todo)
       => task[t] = "none" /\ t \notin pending /\ phase[t] \notin {"terminal", "gone"}
  /\ t \in updates \cap Prompts => answered[t] = "yes"
  /\ t \in pending => /\ t \in Prompts /\ task[t] \notin Busy
                      /\ task[t] = "none" \/ t \in reserved \/ phase[t] = "gone"
  /\ task[t] \in Busy => /\ phase[t] \notin {"terminal", "gone"}
                         /\ t \in Prompts => answered[t] = "yes"

\* A target whose process may be spawned is committed and not accepted.
SpawningAt(t) ==
  /\ task[t] = "spawn" => phase[t] = "committed" /\ t \notin acceptance
  /\ t \in acceptance => t \in reserved \/ phase[t] = "gone"
  /\ t \in reserved => phase[t] # "gone"

\* What was published keeps what it says.
KeptAt(t) ==
  /\ task[t] \in Publishing \cup {"settling", "done"} => outcome[t] # "none"
  /\ t \in announced => task[t] \in Publishing \cup {"done"}
  /\ phase[t] = "terminal" => task[t] # "none"
  /\ task[t] \in {"emit", "done"} => phase[t] \in {"terminal", "gone"} \/ t \in reserved
  /\ task[t] \in {"emit", "done"} /\ t \in reserved => outcome[t] # "succeeded"

\* What the supervisor has left behind.
LeftAt(t) ==
  /\ sup = "joining" /\ t \in Unfinished => t \in reserved
  /\ sup = "settle" /\ t \in todo => t \in reserved \/ phase[t] = "gone"
  /\ sup \in Over \cup {"settle"} => task[t] \notin Busy
  /\ sup \in Over => task[t] \in {"none", "done"} /\ (phase[t] # "gone" => t \in announced)

Placed == \A t \in Targets : PlacedAt(t)
Spawning == \A t \in Targets : SpawningAt(t)
Kept == \A t \in Targets : KeptAt(t)
Left == \A t \in Targets : LeftAt(t)

\* The supervisor's own place, and the answer that is persisted.
Asking ==
  /\ rx # "none" => /\ sup = "body" /\ cur \in Prompts /\ cur \notin todo \cup updates
                    /\ task[cur] = "none"
  /\ rx \in {"register", "waiting", "yes"} => phase[cur] # "gone"
  /\ rx = "yes" => phase[cur] # "terminal" /\ answered[cur] = "yes"
  /\ rx \in {"register", "yes"} => cur \notin pending
  /\ cur # NoTarget /\ rx = "none" => task[cur] \in Publishing
  /\ todo \cap updates = {}
  /\ sup = "body" => todo \subseteq Prompts
  /\ sup # "body" => updates = {} /\ rx = "none"
  /\ sup \in Over => todo = {} /\ cur = NoTarget
  /\ answering # NoTarget => answered[answering] = "none"
  /\ finished = "yes" => sup \in {"notify", "done"}

\* What windows and launches do.
Client ==
  \/ \E t \in Targets : AnswerBegin(t)
  \/ Persisted \/ AnswerFails
  \/ \E c \in Calls : CancelAll(c) \/ CallReturns(c) \/ CallDropped(c)
  \/ \E c \in Calls, t \in Targets : CancelRow(c, t)
  \/ \E w \in Waiters : Launch(w)

Inv == TypeOK /\ Placed /\ Spawning /\ Kept /\ Left /\ Asking

-----------------------------------------------------------------------------
(* Types.                                                                  *)

\* The supervisor keeps the types.
LEMMA SuperviseTypes ==
  ASSUME TypeOK, Asking, Supervise \/ SupervisorPanics PROVE TypeOK'
<1>1. ASSUME NEW t \in Targets, AskNext(t) PROVE TypeOK'
  BY <1>1, BoundsAssumption DEF TypeOK, AskNext, Terminalize, Candidate, Acknowledge, promptVars,
              taskVars, callVars, Tasks, Outcomes
<1>2. ASSUME NEW t \in Targets, SpawnTask(t) PROVE TypeOK'
  BY <1>2 DEF TypeOK, SpawnTask, Terminalize, Candidate, Acknowledge, promptVars, callVars, Tasks, Outcomes
<1>3. ASSUME NEW t \in Targets, SettleNext(t) PROVE TypeOK'
  BY <1>3 DEF TypeOK, SettleNext, Terminalize, Candidate, fenceVars, promptVars, callVars, Tasks, Outcomes
<1>4. CASE Register
  BY <1>4 DEF TypeOK, Asking, Register, fenceVars, taskVars, callVars, Phases
<1>5. CASE TimesOut
  BY <1>5 DEF TypeOK, TimesOut, fenceVars, promptVars, taskVars, callVars
<1>6. CASE Answered
  BY <1>6 DEF TypeOK, Asking, Answered, Skip, promptVars, taskVars, callVars, Phases
<1>7. CASE Expire
  BY <1>7, BoundsAssumption DEF TypeOK, Expire, Terminalize, Candidate, Acknowledge, Take, Skip,
              taskVars, callVars, Tasks, Outcomes, Phases
<1>8. CASE StartSettling
  BY <1>8 DEF TypeOK, StartSettling, Unfinished, Nodes, fenceVars, promptVars, taskVars, callVars
<1>9. CASE Store
  BY <1>9 DEF TypeOK, Store, fenceVars, taskVars, callVars
<1>10. CASE ReleaseFinished
  BY <1>10 DEF TypeOK, ReleaseFinished, Nodes, fenceVars, promptVars, taskVars, callVars, Phases
<1>11. CASE Notify
  BY <1>11 DEF TypeOK, Notify, fenceVars, promptVars, taskVars, callVars
<1>12. CASE SupervisorPanics
  BY <1>12 DEF TypeOK, SupervisorPanics, Fault, Unfinished, Nodes, taskVars, callVars
<1> QED
  BY <1>1, <1>2, <1>3, <1>4, <1>5, <1>6, <1>7, <1>8, <1>9, <1>10, <1>11, <1>12 DEF Supervise

\* A step that is over keeps the types.
LEMMA ConcludeTypes ==
  ASSUME TypeOK, NEW t \in Targets, NEW result \in Outcomes, Conclude(t, result)
  PROVE  /\ acceptance' \subseteq Targets /\ phase' \in [Targets -> Phases]
         /\ task' \in [Targets -> Tasks] /\ work' \in [Targets -> 0..(Steps + 1)]
         /\ outcome' \in [Targets -> Outcomes]
<1>1. acceptance' \subseteq Targets /\ phase' \in [Targets -> Phases]
  BY DEF TypeOK, Conclude, Acknowledge, Phases
<1>2. ASSUME Continue(t)
      PROVE  /\ task' \in [Targets -> Tasks] /\ work' \in [Targets -> 0..(Steps + 1)]
             /\ outcome' \in [Targets -> Outcomes]
  BY <1>2 DEF TypeOK, Continue, Candidate, Tasks, Outcomes
<1>3. ASSUME ~Continue(t)
      PROVE  /\ task' \in [Targets -> Tasks] /\ work' \in [Targets -> 0..(Steps + 1)]
             /\ outcome' \in [Targets -> Outcomes]
  BY <1>3 DEF TypeOK, Conclude, Candidate, Tasks, Outcomes
<1> QED
  BY <1>1, <1>2, <1>3

\* The tasks and the terminalizers keep the types.
LEMMA UpdateTypes ==
  ASSUME TypeOK, NEW t \in Targets, Update(t) \/ Panics(t) \/ ReturnedDefective(t) PROVE TypeOK'
<1> USE DEF othersOfTask, supVars, promptVars, callVars
<1>1. CASE Begin(t)
  BY <1>1 DEF TypeOK, Begin, Candidate, Acknowledge, Tasks, Outcomes, Phases
<1>2. CASE Commit(t)
  BY <1>2 DEF TypeOK, Commit, Candidate, Acknowledge, Tasks, Outcomes, Phases
<1>3. CASE Spawned(t)
  BY <1>3 DEF TypeOK, Spawned, Tasks, Phases
<1>4. CASE NoOwner(t)
  BY <1>4, ConcludeTypes DEF TypeOK, NoOwner, Outcomes
<1>5. ASSUME NEW result \in Outcomes, Waited(t, result) PROVE TypeOK'
  BY <1>5 DEF TypeOK, Waited, Fault, Tasks
<1>6. CASE Observe(t)
  BY <1>6 DEF TypeOK, Observe, Acknowledge, taskVars, Phases
<1>7. CASE Returned(t)
  <2>1. outcome[t] \in Outcomes
    BY DEF TypeOK
  <2> QED
    BY <1>7, <2>1, ConcludeTypes DEF TypeOK, Returned
<1>8. CASE ReturnedDefective(t)
  BY <1>8, ConcludeTypes DEF TypeOK, ReturnedDefective, Fault, Outcomes
<1>9. CASE Panics(t)
  BY <1>9 DEF TypeOK, Panics, Fault, Candidate, Acknowledge, Tasks, Outcomes, Phases
<1>10. CASE Publish(t)
  BY <1>10 DEF TypeOK, Publish, Settled, Acknowledge, othersOfPublish, Tasks, Phases
<1>11. CASE PublishReserved(t)
  BY <1>11 DEF TypeOK, PublishReserved, Settled, othersOfPublish, Tasks, Outcomes, Phases
<1>12. CASE Emit(t)
  BY <1>12 DEF TypeOK, Emit, Settled, othersOfPublish, Tasks
<1> QED
  BY <1>1, <1>2, <1>3, <1>4, <1>5, <1>6, <1>7, <1>8, <1>9, <1>10, <1>11, <1>12 DEF Update

\* Answers, cancel calls and launches keep the types.
LEMMA ClientTypes ==
  ASSUME TypeOK, Client \/ UNCHANGED vars PROVE  TypeOK'
<1> USE DEF supVars, fenceVars, promptVars, taskVars, callVars
<1>1. ASSUME NEW t \in Targets, AnswerBegin(t) PROVE TypeOK'
  BY <1>1 DEF TypeOK, AnswerBegin
<1>2. ASSUME NEW value \in {"yes", "no"}, AnswerClaim(value) PROVE TypeOK'
  BY <1>2 DEF TypeOK, AnswerClaim, Take, Skip, Phases
<1>3. CASE AnswerFails
  BY <1>3 DEF TypeOK, AnswerFails, Fault
<1>4. ASSUME NEW c \in Calls, NEW S \in SUBSET Targets, Cancel(c, S) PROVE TypeOK'
  BY <1>4 DEF TypeOK, Cancel, Reserve, Unfinished, Nodes
<1>5. ASSUME NEW c \in Calls, CallOver(c) PROVE TypeOK'
  BY <1>5 DEF TypeOK, CallOver
<1>6. ASSUME NEW w \in Waiters, Launch(w) PROVE TypeOK'
  BY <1>6 DEF TypeOK, Launch, Arm, ReadFinished
<1>7. CASE UNCHANGED vars
  BY <1>7 DEF TypeOK, vars
<1>8. Nodes \in SUBSET Targets
  BY DEF Nodes
<1> QED
  BY <1>1, <1>2, <1>3, <1>4, <1>5, <1>6, <1>7, <1>8
  DEF Client, Persisted, CancelAll, CancelRow, CallReturns, CallDropped

\* Initial states are typed.
LEMMA TypeInit == Init => TypeOK
  BY DEF Init, TypeOK, Tasks, Phases, Outcomes

\* Every step keeps the types.
LEMMA TypeStep == TypeOK /\ Asking /\ [Next]_vars => TypeOK'
  BY SuperviseTypes, UpdateTypes, ClientTypes DEF Next, Client

-----------------------------------------------------------------------------
(* The inductive step. *)

\* The supervisor keeps the invariant.
LEMMA SuperviseKeeps ==
  ASSUME Inv, Supervise \/ SupervisorPanics
  PROVE  (Placed /\ Spawning /\ Kept /\ Left /\ Asking)'
<1> USE DEF supVars, fenceVars, promptVars, taskVars, callVars, Busy, Publishing, Over, Unfinished, Nodes
<1>0. TypeOK /\ TypeOK'
  BY SuperviseTypes DEF Inv
<1>1. ASSUME NEW t \in Targets, AskNext(t) PROVE (Placed /\ Spawning /\ Kept /\ Left /\ Asking)'
  <2>1. ASSUME NEW u \in Targets PROVE PlacedAt(u)'
    BY <1>0, <1>1 DEF Inv, TypeOK, Placed, Asking, PlacedAt, AskNext, Terminalize, Candidate, Acknowledge
  <2>2. ASSUME NEW u \in Targets PROVE SpawningAt(u)'
    BY <1>0, <1>1 DEF Inv, TypeOK, Spawning, SpawningAt, AskNext, Terminalize, Candidate, Acknowledge
  <2>3. ASSUME NEW u \in Targets PROVE KeptAt(u)'
    BY <1>0, <1>1 DEF Inv, TypeOK, Kept, KeptAt, AskNext, Terminalize, Candidate, Acknowledge
  <2>4. ASSUME NEW u \in Targets PROVE LeftAt(u)'
    BY <1>0, <1>1 DEF Inv, Left, LeftAt, AskNext, Terminalize, Candidate, Acknowledge
  <2>5. Asking'
    BY <1>0, <1>1 DEF Inv, TypeOK, Placed, Asking, PlacedAt, AskNext, Terminalize, Candidate, Acknowledge
  <2> QED
    BY <2>1, <2>2, <2>3, <2>4, <2>5 DEF Placed, Spawning, Kept, Left
<1>2. ASSUME NEW t \in Targets, SpawnTask(t) PROVE (Placed /\ Spawning /\ Kept /\ Left /\ Asking)'
  <2>1. ASSUME NEW u \in Targets PROVE PlacedAt(u)'
    BY <1>0, <1>2 DEF Inv, TypeOK, Placed, PlacedAt, SpawnTask, Terminalize, Candidate, Acknowledge
  <2>2. ASSUME NEW u \in Targets PROVE SpawningAt(u)'
    BY <1>0, <1>2 DEF Inv, TypeOK, Spawning, SpawningAt, SpawnTask, Terminalize, Candidate, Acknowledge
  <2>3. ASSUME NEW u \in Targets PROVE KeptAt(u)'
    BY <1>0, <1>2 DEF Inv, TypeOK, Placed, Kept, PlacedAt, KeptAt, SpawnTask, Terminalize, Candidate, Acknowledge
  <2>4. ASSUME NEW u \in Targets PROVE LeftAt(u)'
    BY <1>0, <1>2 DEF Inv, Left, LeftAt, SpawnTask, Terminalize, Candidate, Acknowledge
  <2>5. Asking'
    BY <1>0, <1>2 DEF Inv, TypeOK, Asking, SpawnTask, Terminalize, Candidate, Acknowledge
  <2> QED
    BY <2>1, <2>2, <2>3, <2>4, <2>5 DEF Placed, Spawning, Kept, Left
<1>3. ASSUME NEW t \in Targets, SettleNext(t) PROVE (Placed /\ Spawning /\ Kept /\ Left /\ Asking)'
  <2>1. ASSUME NEW u \in Targets PROVE PlacedAt(u)'
    BY <1>0, <1>3 DEF Inv, Placed, Left, Asking, PlacedAt, LeftAt, SettleNext, Terminalize, Candidate, Acknowledge
  <2>2. ASSUME NEW u \in Targets PROVE SpawningAt(u)'
    BY <1>0, <1>3 DEF Inv, Spawning, SpawningAt, SettleNext, Terminalize, Candidate, Acknowledge
  <2>3. ASSUME NEW u \in Targets PROVE KeptAt(u)'
    BY <1>0, <1>3 DEF Inv, TypeOK, Kept, KeptAt, SettleNext, Terminalize, Candidate, Acknowledge
  <2>4. ASSUME NEW u \in Targets PROVE LeftAt(u)'
    BY <1>0, <1>3 DEF Inv, Left, LeftAt, SettleNext, Terminalize, Candidate, Acknowledge
  <2>5. Asking'
    BY <1>0, <1>3 DEF Inv, TypeOK, Asking, SettleNext, Terminalize, Candidate, Acknowledge
  <2> QED
    BY <2>1, <2>2, <2>3, <2>4, <2>5 DEF Placed, Spawning, Kept, Left
<1>4. ASSUME Register PROVE (Placed /\ Spawning /\ Kept /\ Left /\ Asking)'
  <2>1. ASSUME NEW u \in Targets PROVE PlacedAt(u)'
    BY <1>0, <1>4 DEF Inv, Placed, Asking, PlacedAt, Register
  <2>2. ASSUME NEW u \in Targets PROVE SpawningAt(u)'
    BY <1>0, <1>4 DEF Inv, Spawning, Asking, SpawningAt, Register
  <2>3. ASSUME NEW u \in Targets PROVE KeptAt(u)'
    BY <1>0, <1>4 DEF Inv, TypeOK, Placed, Spawning, Kept, Left, Asking, PlacedAt, SpawningAt, KeptAt, LeftAt, Register
  <2>4. ASSUME NEW u \in Targets PROVE LeftAt(u)'
    BY <1>0, <1>4 DEF Inv, Left, Asking, LeftAt, Register
  <2>5. Asking'
    BY <1>0, <1>4 DEF Inv, TypeOK, Asking, Register
  <2> QED
    BY <2>1, <2>2, <2>3, <2>4, <2>5 DEF Placed, Spawning, Kept, Left
<1>5. ASSUME TimesOut PROVE (Placed /\ Spawning /\ Kept /\ Left /\ Asking)'
  <2>1. ASSUME NEW u \in Targets PROVE PlacedAt(u)'
    BY <1>0, <1>5 DEF Inv, Placed, PlacedAt, TimesOut
  <2>2. ASSUME NEW u \in Targets PROVE SpawningAt(u)'
    BY <1>0, <1>5 DEF Inv, Spawning, SpawningAt, TimesOut
  <2>3. ASSUME NEW u \in Targets PROVE KeptAt(u)'
    BY <1>0, <1>5 DEF Inv, Kept, KeptAt, TimesOut
  <2>4. ASSUME NEW u \in Targets PROVE LeftAt(u)'
    BY <1>0, <1>5 DEF Inv, Left, LeftAt, TimesOut
  <2>5. Asking'
    BY <1>0, <1>5 DEF Inv, TypeOK, Asking, TimesOut
  <2> QED
    BY <2>1, <2>2, <2>3, <2>4, <2>5 DEF Placed, Spawning, Kept, Left
<1>6. ASSUME Answered PROVE (Placed /\ Spawning /\ Kept /\ Left /\ Asking)'
  <2>1. ASSUME NEW u \in Targets PROVE PlacedAt(u)'
    BY <1>0, <1>6 DEF Inv, TypeOK, Placed, Asking, PlacedAt, Answered, Skip
  <2>2. ASSUME NEW u \in Targets PROVE SpawningAt(u)'
    BY <1>0, <1>6 DEF Inv, TypeOK, Spawning, Asking, SpawningAt, Answered, Skip
  <2>3. ASSUME NEW u \in Targets PROVE KeptAt(u)'
    BY <1>0, <1>6 DEF Inv, TypeOK, Kept, KeptAt, Answered, Skip
  <2>4. ASSUME NEW u \in Targets PROVE LeftAt(u)'
    BY <1>0, <1>6 DEF Inv, TypeOK, Left, LeftAt, Answered, Skip
  <2>5. Asking'
    BY <1>0, <1>6 DEF Inv, TypeOK, Asking, Answered, Skip
  <2> QED
    BY <2>1, <2>2, <2>3, <2>4, <2>5 DEF Placed, Spawning, Kept, Left
<1>7. ASSUME Expire PROVE (Placed /\ Spawning /\ Kept /\ Left /\ Asking)'
  <2>1. ASSUME NEW u \in Targets PROVE PlacedAt(u)'
    BY <1>0, <1>7 DEF Inv, TypeOK, Placed, Asking, PlacedAt, Expire, Take, Skip, Terminalize, Candidate, Acknowledge
  <2>2. ASSUME NEW u \in Targets PROVE SpawningAt(u)'
    BY <1>0, <1>7 DEF Inv, TypeOK, Spawning, Asking, SpawningAt, Expire, Take, Skip, Terminalize, Candidate, Acknowledge
  <2>3. ASSUME NEW u \in Targets PROVE KeptAt(u)'
    BY <1>0, <1>7 DEF Inv, TypeOK, Kept, KeptAt, Expire, Take, Skip, Terminalize, Candidate, Acknowledge
  <2>4. ASSUME NEW u \in Targets PROVE LeftAt(u)'
    BY <1>0, <1>7 DEF Inv, Left, Asking, LeftAt, Expire, Take, Skip, Terminalize, Candidate, Acknowledge
  <2>5. Asking'
    BY <1>0, <1>7 DEF Inv, TypeOK, Asking, Expire, Take, Skip, Terminalize, Candidate, Acknowledge
  <2> QED
    BY <2>1, <2>2, <2>3, <2>4, <2>5 DEF Placed, Spawning, Kept, Left
<1>8. ASSUME StartSettling PROVE (Placed /\ Spawning /\ Kept /\ Left /\ Asking)'
  <2>1. ASSUME NEW u \in Targets PROVE PlacedAt(u)'
    BY <1>0, <1>8 DEF Inv, Placed, PlacedAt, StartSettling, Idle
  <2>2. ASSUME NEW u \in Targets PROVE SpawningAt(u)'
    BY <1>0, <1>8 DEF Inv, Spawning, SpawningAt, StartSettling, Idle
  <2>3. ASSUME NEW u \in Targets PROVE KeptAt(u)'
    BY <1>0, <1>8 DEF Inv, Kept, KeptAt, StartSettling, Idle
  <2>4. ASSUME NEW u \in Targets PROVE LeftAt(u)'
    BY <1>0, <1>8 DEF Inv, Left, LeftAt, StartSettling, Idle
  <2>5. Asking'
    BY <1>0, <1>8 DEF Inv, TypeOK, Asking, StartSettling, Idle
  <2> QED
    BY <2>1, <2>2, <2>3, <2>4, <2>5 DEF Placed, Spawning, Kept, Left
<1>9. ASSUME Store PROVE (Placed /\ Spawning /\ Kept /\ Left /\ Asking)'
  <2>1. ASSUME NEW u \in Targets PROVE PlacedAt(u)'
    BY <1>0, <1>9 DEF Inv, Placed, PlacedAt, Store, Idle
  <2>2. ASSUME NEW u \in Targets PROVE SpawningAt(u)'
    BY <1>0, <1>9 DEF Inv, Spawning, SpawningAt, Store, Idle
  <2>3. ASSUME NEW u \in Targets PROVE KeptAt(u)'
    BY <1>0, <1>9 DEF Inv, Kept, KeptAt, Store, Idle
  <2>4. ASSUME NEW u \in Targets PROVE LeftAt(u)'
    BY <1>0, <1>9 DEF Inv, Left, LeftAt, Store, Idle
  <2>5. Asking'
    BY <1>0, <1>9 DEF Inv, TypeOK, Asking, Store, Idle
  <2> QED
    BY <2>1, <2>2, <2>3, <2>4, <2>5 DEF Placed, Spawning, Kept, Left
<1>10. ASSUME ReleaseFinished PROVE (Placed /\ Spawning /\ Kept /\ Left /\ Asking)'
  <2>1. ASSUME NEW u \in Targets PROVE PlacedAt(u)'
    BY <1>0, <1>10 DEF Inv, Placed, Left, Asking, PlacedAt, LeftAt, ReleaseFinished
  <2>2. ASSUME NEW u \in Targets PROVE SpawningAt(u)'
    BY <1>0, <1>10 DEF Inv, TypeOK, Placed, Spawning, Kept, Left, Asking, PlacedAt, SpawningAt, KeptAt, LeftAt, ReleaseFinished
  <2>3. ASSUME NEW u \in Targets PROVE KeptAt(u)'
    BY <1>0, <1>10 DEF Inv, Kept, Left, KeptAt, LeftAt, ReleaseFinished
  <2>4. ASSUME NEW u \in Targets PROVE LeftAt(u)'
    BY <1>0, <1>10 DEF Inv, TypeOK, Placed, Spawning, Kept, Left, Asking, PlacedAt, SpawningAt, KeptAt, LeftAt, ReleaseFinished
  <2>5. Asking'
    BY <1>0, <1>10 DEF Inv, TypeOK, Asking, ReleaseFinished
  <2> QED
    BY <2>1, <2>2, <2>3, <2>4, <2>5 DEF Placed, Spawning, Kept, Left
<1>11. ASSUME Notify PROVE (Placed /\ Spawning /\ Kept /\ Left /\ Asking)'
  <2>1. ASSUME NEW u \in Targets PROVE PlacedAt(u)'
    BY <1>0, <1>11 DEF Inv, Placed, PlacedAt, Notify
  <2>2. ASSUME NEW u \in Targets PROVE SpawningAt(u)'
    BY <1>0, <1>11 DEF Inv, Spawning, SpawningAt, Notify
  <2>3. ASSUME NEW u \in Targets PROVE KeptAt(u)'
    BY <1>0, <1>11 DEF Inv, TypeOK, Placed, Spawning, Kept, Left, Asking, PlacedAt, SpawningAt, KeptAt, LeftAt, Notify
  <2>4. ASSUME NEW u \in Targets PROVE LeftAt(u)'
    BY <1>0, <1>11 DEF Inv, Left, LeftAt, Notify
  <2>5. Asking'
    BY <1>0, <1>11 DEF Inv, TypeOK, Asking, Notify
  <2> QED
    BY <2>1, <2>2, <2>3, <2>4, <2>5 DEF Placed, Spawning, Kept, Left
<1>12. ASSUME SupervisorPanics PROVE (Placed /\ Spawning /\ Kept /\ Left /\ Asking)'
  <2>1. ASSUME NEW u \in Targets PROVE PlacedAt(u)'
    BY <1>0, <1>12 DEF Inv, Placed, PlacedAt, SupervisorPanics, Fault, Early
  <2>2. ASSUME NEW u \in Targets PROVE SpawningAt(u)'
    BY <1>0, <1>12 DEF Inv, Spawning, SpawningAt, SupervisorPanics, Fault, Early
  <2>3. ASSUME NEW u \in Targets PROVE KeptAt(u)'
    BY <1>0, <1>12 DEF Inv, Kept, KeptAt, SupervisorPanics, Fault, Early
  <2>4. ASSUME NEW u \in Targets PROVE LeftAt(u)'
    BY <1>0, <1>12 DEF Inv, Left, LeftAt, SupervisorPanics, Fault, Early
  <2>5. Asking'
    BY <1>0, <1>12 DEF Inv, TypeOK, Asking, SupervisorPanics, Fault, Early
  <2> QED
    BY <2>1, <2>2, <2>3, <2>4, <2>5 DEF Placed, Spawning, Kept, Left
<1> QED
  BY <1>1, <1>2, <1>3, <1>4, <1>5, <1>6, <1>7, <1>8, <1>9, <1>10, <1>11, <1>12 DEF Supervise

\* A step that is over keeps the invariant.
LEMMA ConcludeKeeps ==
  ASSUME Inv, TypeOK', NEW t \in Targets, NEW result \in Outcomes \ {"none"}, task[t] \in {"spawn", "settling"},
         Conclude(t, result), UNCHANGED othersOfTask
  PROVE  (Placed /\ Spawning /\ Kept /\ Left /\ Asking)'
<1> USE DEF othersOfTask, supVars, promptVars, taskVars, callVars, Busy, Publishing, Over, Unfinished, Nodes, Outcomes
<1>1. ASSUME NEW u \in Targets PROVE PlacedAt(u)'
  BY DEF Inv, TypeOK, Placed, PlacedAt, Conclude, Continue, Candidate, Acknowledge
<1>2. ASSUME NEW u \in Targets PROVE SpawningAt(u)'
  BY DEF Inv, TypeOK, Spawning, SpawningAt, Conclude, Continue, Candidate, Acknowledge
<1>3. ASSUME NEW u \in Targets PROVE KeptAt(u)'
  BY DEF Inv, TypeOK, Kept, KeptAt, Conclude, Continue, Candidate, Acknowledge
<1>4. ASSUME NEW u \in Targets PROVE LeftAt(u)'
  BY DEF Inv, Left, LeftAt, Conclude, Continue, Candidate, Acknowledge
<1>5. Asking'
  BY DEF Inv, TypeOK, Asking, Conclude, Continue, Candidate, Acknowledge
<1> QED
  BY <1>1, <1>2, <1>3, <1>4, <1>5 DEF Placed, Spawning, Kept, Left

\* The tasks and the terminalizers keep the invariant.
LEMMA UpdateKeeps ==
  ASSUME Inv, NEW t \in Targets, Update(t) \/ Panics(t) \/ ReturnedDefective(t)
  PROVE  (Placed /\ Spawning /\ Kept /\ Left /\ Asking)'
<1> USE DEF othersOfTask, othersOfPublish, supVars, promptVars, taskVars, callVars, Busy, Publishing, Over, Unfinished, Nodes
<1>0. TypeOK /\ TypeOK'
  BY UpdateTypes DEF Inv
<1>1. ASSUME Begin(t) PROVE (Placed /\ Spawning /\ Kept /\ Left /\ Asking)'
  <2>1. ASSUME NEW u \in Targets PROVE PlacedAt(u)'
    BY <1>0, <1>1 DEF Inv, TypeOK, Placed, PlacedAt, Begin, Candidate, Acknowledge
  <2>2. ASSUME NEW u \in Targets PROVE SpawningAt(u)'
    BY <1>0, <1>1 DEF Inv, TypeOK, Placed, Spawning, PlacedAt, SpawningAt, Begin, Candidate, Acknowledge
  <2>3. ASSUME NEW u \in Targets PROVE KeptAt(u)'
    BY <1>0, <1>1 DEF Inv, TypeOK, Kept, KeptAt, Begin, Candidate, Acknowledge
  <2>4. ASSUME NEW u \in Targets PROVE LeftAt(u)'
    BY <1>0, <1>1 DEF Inv, Placed, Left, PlacedAt, LeftAt, Begin, Candidate, Acknowledge
  <2>5. Asking'
    BY <1>0, <1>1 DEF Inv, TypeOK, Asking, Begin, Candidate, Acknowledge
  <2> QED
    BY <2>1, <2>2, <2>3, <2>4, <2>5 DEF Placed, Spawning, Kept, Left
<1>2. ASSUME Commit(t) PROVE (Placed /\ Spawning /\ Kept /\ Left /\ Asking)'
  <2>1. ASSUME NEW u \in Targets PROVE PlacedAt(u)'
    BY <1>0, <1>2 DEF Inv, TypeOK, Placed, PlacedAt, Commit, Candidate, Acknowledge
  <2>2. ASSUME NEW u \in Targets PROVE SpawningAt(u)'
    BY <1>0, <1>2 DEF Inv, TypeOK, Placed, Spawning, PlacedAt, SpawningAt, Commit, Candidate, Acknowledge
  <2>3. ASSUME NEW u \in Targets PROVE KeptAt(u)'
    BY <1>0, <1>2 DEF Inv, TypeOK, Kept, KeptAt, Commit, Candidate, Acknowledge
  <2>4. ASSUME NEW u \in Targets PROVE LeftAt(u)'
    BY <1>0, <1>2 DEF Inv, Placed, Left, PlacedAt, LeftAt, Commit, Candidate, Acknowledge
  <2>5. Asking'
    BY <1>0, <1>2 DEF Inv, TypeOK, Asking, Commit, Candidate, Acknowledge
  <2> QED
    BY <2>1, <2>2, <2>3, <2>4, <2>5 DEF Placed, Spawning, Kept, Left
<1>3. ASSUME Spawned(t) PROVE (Placed /\ Spawning /\ Kept /\ Left /\ Asking)'
  <2>1. ASSUME NEW u \in Targets PROVE PlacedAt(u)'
    BY <1>0, <1>3 DEF Inv, Placed, PlacedAt, Spawned
  <2>2. ASSUME NEW u \in Targets PROVE SpawningAt(u)'
    BY <1>0, <1>3 DEF Inv, TypeOK, Spawning, SpawningAt, Spawned
  <2>3. ASSUME NEW u \in Targets PROVE KeptAt(u)'
    BY <1>0, <1>3 DEF Inv, Kept, KeptAt, Spawned
  <2>4. ASSUME NEW u \in Targets PROVE LeftAt(u)'
    BY <1>0, <1>3 DEF Inv, Placed, Left, PlacedAt, LeftAt, Spawned
  <2>5. Asking'
    BY <1>0, <1>3 DEF Inv, TypeOK, Asking, Spawned
  <2> QED
    BY <2>1, <2>2, <2>3, <2>4, <2>5 DEF Placed, Spawning, Kept, Left
<1>4. ASSUME NoOwner(t) PROVE (Placed /\ Spawning /\ Kept /\ Left /\ Asking)'
  BY <1>0, <1>4, ConcludeKeeps DEF NoOwner, Outcomes
<1>5. ASSUME NEW result \in Outcomes, Waited(t, result) PROVE (Placed /\ Spawning /\ Kept /\ Left /\ Asking)'
  <2>1. ASSUME NEW u \in Targets PROVE PlacedAt(u)'
    BY <1>0, <1>5 DEF Inv, Placed, PlacedAt, Waited, Fault
  <2>2. ASSUME NEW u \in Targets PROVE SpawningAt(u)'
    BY <1>0, <1>5 DEF Inv, Spawning, SpawningAt, Waited, Fault
  <2>3. ASSUME NEW u \in Targets PROVE KeptAt(u)'
    BY <1>0, <1>5 DEF Inv, TypeOK, Kept, KeptAt, Waited, Fault
  <2>4. ASSUME NEW u \in Targets PROVE LeftAt(u)'
    BY <1>0, <1>5 DEF Inv, Left, LeftAt, Waited, Fault
  <2>5. Asking'
    BY <1>0, <1>5 DEF Inv, TypeOK, Asking, Waited, Fault
  <2> QED
    BY <2>1, <2>2, <2>3, <2>4, <2>5 DEF Placed, Spawning, Kept, Left
<1>6. ASSUME Observe(t) PROVE (Placed /\ Spawning /\ Kept /\ Left /\ Asking)'
  <2>1. ASSUME NEW u \in Targets PROVE PlacedAt(u)'
    BY <1>0, <1>6 DEF Inv, Placed, PlacedAt, Observe, Acknowledge
  <2>2. ASSUME NEW u \in Targets PROVE SpawningAt(u)'
    BY <1>0, <1>6 DEF Inv, Spawning, SpawningAt, Observe, Acknowledge
  <2>3. ASSUME NEW u \in Targets PROVE KeptAt(u)'
    BY <1>0, <1>6 DEF Inv, Kept, KeptAt, Observe, Acknowledge
  <2>4. ASSUME NEW u \in Targets PROVE LeftAt(u)'
    BY <1>0, <1>6 DEF Inv, Left, LeftAt, Observe, Acknowledge
  <2>5. Asking'
    BY <1>0, <1>6 DEF Inv, TypeOK, Asking, Observe, Acknowledge
  <2> QED
    BY <2>1, <2>2, <2>3, <2>4, <2>5 DEF Placed, Spawning, Kept, Left
<1>7. ASSUME Returned(t) PROVE (Placed /\ Spawning /\ Kept /\ Left /\ Asking)'
  <2>1. outcome[t] \in Outcomes \ {"none"}
    BY <1>0, <1>7 DEF Inv, TypeOK, Kept, KeptAt, Returned
  <2> QED
    BY <1>0, <1>7, <2>1, ConcludeKeeps DEF Returned
<1>8. ASSUME ReturnedDefective(t) PROVE (Placed /\ Spawning /\ Kept /\ Left /\ Asking)'
  BY <1>0, <1>8, ConcludeKeeps DEF ReturnedDefective, Outcomes
<1>9. ASSUME Panics(t) PROVE (Placed /\ Spawning /\ Kept /\ Left /\ Asking)'
  <2>1. ASSUME NEW u \in Targets PROVE PlacedAt(u)'
    BY <1>0, <1>9 DEF Inv, TypeOK, Placed, PlacedAt, Panics, Fault, Candidate, Acknowledge
  <2>2. ASSUME NEW u \in Targets PROVE SpawningAt(u)'
    BY <1>0, <1>9 DEF Inv, TypeOK, Spawning, SpawningAt, Panics, Fault, Candidate, Acknowledge
  <2>3. ASSUME NEW u \in Targets PROVE KeptAt(u)'
    BY <1>0, <1>9 DEF Inv, TypeOK, Kept, KeptAt, Panics, Fault, Candidate, Acknowledge
  <2>4. ASSUME NEW u \in Targets PROVE LeftAt(u)'
    BY <1>0, <1>9 DEF Inv, TypeOK, Left, LeftAt, Panics, Fault, Candidate, Acknowledge
  <2>5. Asking'
    BY <1>0, <1>9 DEF Inv, TypeOK, Asking, Panics, Fault, Candidate, Acknowledge
  <2> QED
    BY <2>1, <2>2, <2>3, <2>4, <2>5 DEF Placed, Spawning, Kept, Left
<1>10. ASSUME Publish(t) PROVE (Placed /\ Spawning /\ Kept /\ Left /\ Asking)'
  <2>1. ASSUME NEW u \in Targets PROVE PlacedAt(u)'
    BY <1>0, <1>10 DEF Inv, TypeOK, Placed, PlacedAt, Publish, Settled, Acknowledge
  <2>2. ASSUME NEW u \in Targets PROVE SpawningAt(u)'
    BY <1>0, <1>10 DEF Inv, TypeOK, Spawning, SpawningAt, Publish, Settled, Acknowledge
  <2>3. ASSUME NEW u \in Targets PROVE KeptAt(u)'
    BY <1>0, <1>10 DEF Inv, TypeOK, Spawning, Kept, SpawningAt, KeptAt, Publish, Settled, Acknowledge
  <2>4. ASSUME NEW u \in Targets PROVE LeftAt(u)'
    BY <1>0, <1>10 DEF Inv, TypeOK, Left, LeftAt, Publish, Settled, Acknowledge
  <2>5. Asking'
    BY <1>0, <1>10 DEF Inv, TypeOK, Asking, Publish, Settled, Acknowledge
  <2> QED
    BY <2>1, <2>2, <2>3, <2>4, <2>5 DEF Placed, Spawning, Kept, Left
<1>11. ASSUME PublishReserved(t) PROVE (Placed /\ Spawning /\ Kept /\ Left /\ Asking)'
  <2>1. ASSUME NEW u \in Targets PROVE PlacedAt(u)'
    BY <1>0, <1>11 DEF Inv, TypeOK, Placed, PlacedAt, PublishReserved, Settled
  <2>2. ASSUME NEW u \in Targets PROVE SpawningAt(u)'
    BY <1>0, <1>11 DEF Inv, TypeOK, Spawning, SpawningAt, PublishReserved, Settled
  <2>3. ASSUME NEW u \in Targets PROVE KeptAt(u)'
    BY <1>0, <1>11 DEF Inv, TypeOK, Spawning, Kept, SpawningAt, KeptAt, PublishReserved, Settled
  <2>4. ASSUME NEW u \in Targets PROVE LeftAt(u)'
    BY <1>0, <1>11 DEF Inv, TypeOK, Left, LeftAt, PublishReserved, Settled
  <2>5. Asking'
    BY <1>0, <1>11 DEF Inv, TypeOK, Asking, PublishReserved, Settled
  <2> QED
    BY <2>1, <2>2, <2>3, <2>4, <2>5 DEF Placed, Spawning, Kept, Left
<1>12. ASSUME Emit(t) PROVE (Placed /\ Spawning /\ Kept /\ Left /\ Asking)'
  <2>1. ASSUME NEW u \in Targets PROVE PlacedAt(u)'
    BY <1>0, <1>12 DEF Inv, Placed, PlacedAt, Emit, Settled
  <2>2. ASSUME NEW u \in Targets PROVE SpawningAt(u)'
    BY <1>0, <1>12 DEF Inv, Spawning, SpawningAt, Emit, Settled
  <2>3. ASSUME NEW u \in Targets PROVE KeptAt(u)'
    BY <1>0, <1>12 DEF Inv, Kept, KeptAt, Emit, Settled
  <2>4. ASSUME NEW u \in Targets PROVE LeftAt(u)'
    BY <1>0, <1>12 DEF Inv, Left, LeftAt, Emit, Settled
  <2>5. Asking'
    BY <1>0, <1>12 DEF Inv, TypeOK, Asking, Emit, Settled
  <2> QED
    BY <2>1, <2>2, <2>3, <2>4, <2>5 DEF Placed, Spawning, Kept, Left
<1> QED
  BY <1>1, <1>2, <1>3, <1>4, <1>5, <1>6, <1>7, <1>8, <1>9, <1>10, <1>11, <1>12 DEF Update

\* Answers, cancel calls and launches keep the invariant.
LEMMA ClientKeeps ==
  ASSUME Inv, Client \/ UNCHANGED vars
  PROVE  (Placed /\ Spawning /\ Kept /\ Left /\ Asking)'
<1> USE DEF supVars, fenceVars, promptVars, taskVars, callVars, Busy, Publishing, Over, Unfinished, Nodes
<1>0. TypeOK /\ TypeOK'
  BY ClientTypes DEF Inv
<1>1. ASSUME NEW t \in Targets, AnswerBegin(t) PROVE (Placed /\ Spawning /\ Kept /\ Left /\ Asking)'
  <2>1. ASSUME NEW u \in Targets PROVE PlacedAt(u)'
    BY <1>0, <1>1 DEF Inv, Placed, PlacedAt, AnswerBegin
  <2>2. ASSUME NEW u \in Targets PROVE SpawningAt(u)'
    BY <1>0, <1>1 DEF Inv, Spawning, SpawningAt, AnswerBegin
  <2>3. ASSUME NEW u \in Targets PROVE KeptAt(u)'
    BY <1>0, <1>1 DEF Inv, Kept, KeptAt, AnswerBegin
  <2>4. ASSUME NEW u \in Targets PROVE LeftAt(u)'
    BY <1>0, <1>1 DEF Inv, Left, LeftAt, AnswerBegin
  <2>5. Asking'
    BY <1>0, <1>1 DEF Inv, TypeOK, Asking, AnswerBegin
  <2> QED
    BY <2>1, <2>2, <2>3, <2>4, <2>5 DEF Placed, Spawning, Kept, Left
<1>2. ASSUME NEW value \in {"yes", "no"}, AnswerClaim(value) PROVE (Placed /\ Spawning /\ Kept /\ Left /\ Asking)'
  <2>1. ASSUME NEW u \in Targets PROVE PlacedAt(u)'
    BY <1>0, <1>2 DEF Inv, TypeOK, Placed, Asking, PlacedAt, AnswerClaim, Take, Skip
  <2>2. ASSUME NEW u \in Targets PROVE SpawningAt(u)'
    BY <1>0, <1>2 DEF Inv, TypeOK, Placed, Spawning, PlacedAt, SpawningAt, AnswerClaim, Take, Skip
  <2>3. ASSUME NEW u \in Targets PROVE KeptAt(u)'
    BY <1>0, <1>2 DEF Inv, TypeOK, Placed, Kept, PlacedAt, KeptAt, AnswerClaim, Take, Skip
  <2>4. ASSUME NEW u \in Targets PROVE LeftAt(u)'
    BY <1>0, <1>2 DEF Inv, TypeOK, Placed, Kept, Left, PlacedAt, KeptAt, LeftAt, AnswerClaim, Take, Skip
  <2>5. Asking'
    BY <1>0, <1>2 DEF Inv, TypeOK, Asking, AnswerClaim, Take, Skip
  <2> QED
    BY <2>1, <2>2, <2>3, <2>4, <2>5 DEF Placed, Spawning, Kept, Left
<1>3. ASSUME AnswerFails PROVE (Placed /\ Spawning /\ Kept /\ Left /\ Asking)'
  <2>1. ASSUME NEW u \in Targets PROVE PlacedAt(u)'
    BY <1>0, <1>3 DEF Inv, Placed, PlacedAt, AnswerFails, Fault
  <2>2. ASSUME NEW u \in Targets PROVE SpawningAt(u)'
    BY <1>0, <1>3 DEF Inv, Spawning, SpawningAt, AnswerFails, Fault
  <2>3. ASSUME NEW u \in Targets PROVE KeptAt(u)'
    BY <1>0, <1>3 DEF Inv, Kept, KeptAt, AnswerFails, Fault
  <2>4. ASSUME NEW u \in Targets PROVE LeftAt(u)'
    BY <1>0, <1>3 DEF Inv, Left, LeftAt, AnswerFails, Fault
  <2>5. Asking'
    BY <1>0, <1>3 DEF Inv, TypeOK, Asking, AnswerFails, Fault
  <2> QED
    BY <2>1, <2>2, <2>3, <2>4, <2>5 DEF Placed, Spawning, Kept, Left
<1>4. ASSUME NEW c \in Calls, NEW S \in SUBSET Targets, S \subseteq Nodes, Cancel(c, S) PROVE (Placed /\ Spawning /\ Kept /\ Left /\ Asking)'
  <2>1. ASSUME NEW u \in Targets PROVE PlacedAt(u)'
    BY <1>0, <1>4 DEF Inv, Placed, PlacedAt, Cancel, Reserve, Early
  <2>2. ASSUME NEW u \in Targets PROVE SpawningAt(u)'
    BY <1>0, <1>4 DEF Inv, Spawning, SpawningAt, Cancel, Reserve, Early
  <2>3. ASSUME NEW u \in Targets PROVE KeptAt(u)'
    BY <1>0, <1>4 DEF Inv, Kept, KeptAt, Cancel, Reserve, Early
  <2>4. ASSUME NEW u \in Targets PROVE LeftAt(u)'
    BY <1>0, <1>4 DEF Inv, Left, LeftAt, Cancel, Reserve, Early
  <2>5. Asking'
    BY <1>0, <1>4 DEF Inv, TypeOK, Asking, Cancel, Reserve, Early
  <2> QED
    BY <2>1, <2>2, <2>3, <2>4, <2>5 DEF Placed, Spawning, Kept, Left
<1>5. ASSUME NEW c \in Calls, CallOver(c) PROVE (Placed /\ Spawning /\ Kept /\ Left /\ Asking)'
  <2>1. ASSUME NEW u \in Targets PROVE PlacedAt(u)'
    BY <1>0, <1>5 DEF Inv, Placed, PlacedAt, CallOver
  <2>2. ASSUME NEW u \in Targets PROVE SpawningAt(u)'
    BY <1>0, <1>5 DEF Inv, Spawning, SpawningAt, CallOver
  <2>3. ASSUME NEW u \in Targets PROVE KeptAt(u)'
    BY <1>0, <1>5 DEF Inv, Kept, KeptAt, CallOver
  <2>4. ASSUME NEW u \in Targets PROVE LeftAt(u)'
    BY <1>0, <1>5 DEF Inv, Left, LeftAt, CallOver
  <2>5. Asking'
    BY <1>0, <1>5 DEF Inv, TypeOK, Asking, CallOver
  <2> QED
    BY <2>1, <2>2, <2>3, <2>4, <2>5 DEF Placed, Spawning, Kept, Left
<1>6. ASSUME NEW w \in Waiters, Launch(w) PROVE (Placed /\ Spawning /\ Kept /\ Left /\ Asking)'
  <2>1. ASSUME NEW u \in Targets PROVE PlacedAt(u)'
    BY <1>0, <1>6 DEF Inv, Placed, PlacedAt, Launch
  <2>2. ASSUME NEW u \in Targets PROVE SpawningAt(u)'
    BY <1>0, <1>6 DEF Inv, Spawning, SpawningAt, Launch
  <2>3. ASSUME NEW u \in Targets PROVE KeptAt(u)'
    BY <1>0, <1>6 DEF Inv, Kept, KeptAt, Launch
  <2>4. ASSUME NEW u \in Targets PROVE LeftAt(u)'
    BY <1>0, <1>6 DEF Inv, Left, LeftAt, Launch
  <2>5. Asking'
    BY <1>0, <1>6 DEF Inv, TypeOK, Asking, Launch
  <2> QED
    BY <2>1, <2>2, <2>3, <2>4, <2>5 DEF Placed, Spawning, Kept, Left
<1>7. ASSUME UNCHANGED vars PROVE (Placed /\ Spawning /\ Kept /\ Left /\ Asking)'
  <2>1. ASSUME NEW u \in Targets PROVE PlacedAt(u)'
    BY <1>0, <1>7 DEF Inv, Placed, PlacedAt, vars
  <2>2. ASSUME NEW u \in Targets PROVE SpawningAt(u)'
    BY <1>0, <1>7 DEF Inv, Spawning, SpawningAt, vars
  <2>3. ASSUME NEW u \in Targets PROVE KeptAt(u)'
    BY <1>0, <1>7 DEF Inv, Kept, KeptAt, vars
  <2>4. ASSUME NEW u \in Targets PROVE LeftAt(u)'
    BY <1>0, <1>7 DEF Inv, Left, LeftAt, vars
  <2>5. Asking'
    BY <1>0, <1>7 DEF Inv, TypeOK, Asking, vars
  <2> QED
    BY <2>1, <2>2, <2>3, <2>4, <2>5 DEF Placed, Spawning, Kept, Left
<1> QED
  BY <1>1, <1>2, <1>3, <1>4, <1>5, <1>6, <1>7 DEF Client, Persisted, CancelAll, CancelRow, CallReturns, CallDropped

\* The initial states satisfy the invariant.
LEMMA InvInit == Init => Inv
<1> SUFFICES ASSUME Init PROVE Inv
  OBVIOUS
<1> USE DEF Init, Nodes, Unfinished, Busy, Publishing, Over
<1>1. TypeOK
  BY TypeInit
<1>2. Placed /\ Spawning
  BY DEF Placed, PlacedAt, Spawning, SpawningAt
<1>3. Kept /\ Left
  BY DEF Kept, KeptAt, Left, LeftAt
<1>4. Asking
  BY DEF Asking
<1> QED
  BY <1>1, <1>2, <1>3, <1>4 DEF Inv

\* Every step keeps the invariant.
LEMMA InvStep == Inv /\ [Next]_vars => Inv'
<1> SUFFICES ASSUME Inv, [Next]_vars PROVE Inv'
  OBVIOUS
<1>1. TypeOK'
  BY TypeStep DEF Inv
<1>2. (Placed /\ Spawning /\ Kept /\ Left /\ Asking)'
  BY SuperviseKeeps, UpdateKeeps, ClientKeeps DEF Next, Client
<1> QED
  BY <1>1, <1>2 DEF Inv

\* The invariant holds always.
THEOREM AlwaysInv == Spec => []Inv
<1>1. Init => Inv
  BY InvInit
<1>2. Inv /\ [Next]_vars => Inv'
  BY InvStep
<1> QED
  BY <1>1, <1>2, PTL DEF Spec

-----------------------------------------------------------------------------
(* The theorems.                                                           *)

\* The fields of the gate keep their types.
THEOREM TypeCorrect == Spec => []TypeOK
<1>1. Inv => TypeOK
  BY DEF Inv
<1> QED
  BY <1>1, AlwaysInv, PTL

\* Only a task whose process is spawned begins to run.
LEMMA OnlySpawnedRuns ==
  ASSUME Inv, [Next]_vars, NEW u \in Targets, ~Runs(u), Runs(u)' PROVE Spawned(u)
<1>0. TypeOK /\ u \in DOMAIN task
  BY DEF Inv, TypeOK
<1>1. CASE Supervise \/ SupervisorPanics
  BY <1>0, <1>1 DEF Runs, Supervise, SupervisorPanics, AskNext, SpawnTask, SettleNext, Register, TimesOut, Answered,
     Expire, StartSettling, Store, ReleaseFinished, Notify, Terminalize, Candidate, taskVars
<1>2. ASSUME NEW t \in Targets, Conclude(t, "kept") \/ \E result \in Outcomes : Conclude(t, result) PROVE FALSE
  BY <1>0, <1>2 DEF Runs, Conclude, Continue, Candidate
<1>3. ASSUME NEW t \in Targets, Update(t) \/ Panics(t) \/ ReturnedDefective(t) PROVE Spawned(u)
  <2>1. outcome[t] \in Outcomes
    BY DEF Inv, TypeOK
  <2>2. CASE Spawned(t)
    BY <1>0, <2>2 DEF Spawned, Runs
  <2>3. CASE NoOwner(t) \/ Returned(t) \/ ReturnedDefective(t)
    BY <1>2, <2>1, <2>3 DEF NoOwner, Returned, ReturnedDefective, Outcomes
  <2>4. CASE Begin(t) \/ Commit(t) \/ Observe(t) \/ Panics(t)
    BY <1>0, <2>4 DEF Runs, Begin, Commit, Observe, Panics, Candidate, taskVars
  <2>5. CASE \E result \in Outcomes : Waited(t, result)
    BY <1>0, <2>5 DEF Runs, Waited
  <2>6. CASE Publish(t) \/ PublishReserved(t) \/ Emit(t)
    BY <1>0, <2>6 DEF Runs, Publish, PublishReserved, Emit, Settled
  <2> QED
    BY <1>3, <2>2, <2>3, <2>4, <2>5, <2>6 DEF Update
<1>4. CASE Client \/ UNCHANGED vars
  BY <1>4 DEF Runs, Client, AnswerBegin, Persisted, AnswerClaim, AnswerFails, CancelAll, CancelRow, Cancel, CallReturns, CallDropped,
     CallOver, Launch, taskVars, vars
<1> QED
  BY <1>1, <1>3, <1>4 DEF Next, Client

\* No process of a target starts without the user's decision, or once its
\* cancellation was accepted.
THEOREM StartsAllowed == Spec => StartsAreAllowed
<1> DEFINE A == \A t \in Targets : ~Runs(t) /\ Runs(t)'
                  => t \notin acceptance /\ (t \in Prompts => answered[t] = "yes")
<1>1. Inv /\ [Next]_vars => A
  <2> SUFFICES ASSUME Inv, [Next]_vars, NEW t \in Targets, ~Runs(t), Runs(t)'
               PROVE  t \notin acceptance /\ (t \in Prompts => answered[t] = "yes")
    OBVIOUS
  <2>1. Spawned(t)
    BY OnlySpawnedRuns
  <2> QED
    BY <2>1 DEF Spawned, Inv, Spawning, SpawningAt, Placed, PlacedAt, Busy
<1> QED
  BY <1>1, AlwaysInv, PTL DEF StartsAreAllowed, Spec

\* When launches are let through nothing of the pass is left.
THEOREM PassIsSettled == Spec => []FinishedIsSettled
<1>1. Inv => FinishedIsSettled
  <2> SUFFICES ASSUME Inv, finished = "yes", NEW t \in Targets
               PROVE  /\ ~Runs(t)
                      /\ t \in Nodes => task[t] = "done" /\ outcome[t] # "none"
                      /\ t \in Nodes \cap reserved => outcome[t] # "succeeded"
    BY DEF FinishedIsSettled
  <2>1. sup \in Over
    BY DEF Inv, Asking, Over
  <2> QED
    BY <2>1 DEF Inv, Left, LeftAt, Kept, KeptAt, Publishing, Nodes, Runs
<1> QED
  BY <1>1, AlwaysInv, PTL
=============================================================================
