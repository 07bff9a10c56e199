---------------------------- MODULE AgentUpdate ----------------------------
(***************************************************************************)
(* The startup pass that updates the coding agents                         *)
(* (src-tauri/src/agent_update.rs, agent_update/).                         *)
(*                                                                         *)
(* A supervisor asks about the agents nobody decided on, spawns one task   *)
(* per agent to update, joins them and opens the gate every session launch *)
(* waits at.  A task probes the version, runs the updater's steps and      *)
(* probes again, each as a process of its own.  Rows are answered and      *)
(* cancelled from any window meanwhile.                                    *)
(*                                                                         *)
(* The gate's state lies behind one mutex that is never held across an     *)
(* await: an action is one critical section of it, or one step between two *)
(* awaits.  A target has three fences that open once and for ever: its     *)
(* cancellation was accepted, the answer to that call was returned, its    *)
(* result was announced.  A fence is the set of targets whose fence is     *)
(* open.                                                                   *)
(***************************************************************************)
EXTENDS Integers

CONSTANTS Targets,    \* the commands of the pass, AgentUpdateNode.command
          Prompts,    \* plan.prompts: those to ask about; the others are decided
          Steps,      \* updater steps of a target
          Calls,      \* cancel calls that may be under way at the same time
          Waiters,    \* launches that wait at the gate
          MaxFaults,  \* bound: panics, failed persists, defective cleanups
          NoTarget

ASSUME TargetAssumption == Prompts \subseteq Targets /\ NoTarget \notin Targets
ASSUME BoundsAssumption == Steps \in Nat \ {0} /\ MaxFaults \in Nat

VARIABLES
  sup,        \* the supervisor: "body", "joining", "settle", "stored", "notify" or "done"
  cur,        \* the target it asks about or publishes itself
  todo,       \* the targets it has still to ask about, or to settle
  updates,    \* the targets it has still to spawn
  rx,         \* its prompt: "none", "register", "waiting", "yes", "no", "dropped", "expired"
  phase,      \* control.phase; "gone" when the target has no node and no control
  reserved,   \* control.claim = CancellationReserved; the cancel flag with it
  supfail,    \* control.supervisor_failure
  acceptance, \* control.acceptance is open
  release,    \* control.response_release is open
  announced,  \* control.terminal_publication is open, the result was emitted
  pending,    \* state.pending
  shown,      \* state.pending_prompt
  prompted,   \* state.prompted
  answered,   \* state.answered: "none", "yes" or "no"
  answering,  \* the prompt whose answer holds answer_serial
  task,       \* task[t]: where the update of t stands
  work,       \* work[t]: 0 the probe before, then the steps, Steps + 1 the probe after
  outcome,    \* outcome[t]: the candidate, and the result once phase is "terminal"
  finished,   \* state.finished, "yes" or "no"
  call,       \* call[c]: "none" or "waiting"
  accepts,    \* the acceptance fences call c waits for
  finals,     \* the publication fences call c waits for
  wait,       \* wait[w]: where wait_until_done stands
  faults      \* faults so far

fenceVars == <<reserved, supfail, acceptance, release>>
promptVars == <<pending, shown, prompted, answered, answering>>
callVars == <<call, accepts, finals>>
taskVars == <<task, work, outcome>>
supVars == <<sup, cur, todo, updates, rx>>
vars == <<supVars, phase, fenceVars, announced, promptVars, taskVars, finished, callVars, wait, faults>>

\* A task: waiting to begin a step, to commit it, to spawn its process; its
\* process running, being settled; about to publish, waiting for the release of
\* a cancel call, about to emit.
Tasks == {"none", "begin", "commit", "spawn", "running", "settling",
          "publish", "release", "emit", "done"}
Phases == {"pending", "prompting", "starting", "committed", "active", "cleanup", "terminal", "gone"}

\* "kept" is a failure a cancellation does not replace: a defective cleanup, a panic.
Outcomes == {"none", "succeeded", "failed", "cancelled", "kept"}

\* Phases in which a reservation accepts the cancellation at once.
Early == {"pending", "prompting", "starting"}
Nodes == {t \in Targets : phase[t] # "gone"}
Unfinished == {t \in Nodes : phase[t] # "terminal"}

\* The process of a target exists.
Runs(t) == task[t] \in {"running", "settling"}
Idle == \A t \in Targets : task[t] \in {"none", "done"}

\* mark_started_with_nodes, or a pass with nothing to do.
Init ==
  /\ sup = "body" /\ cur = NoTarget /\ rx = "none"
  /\ \/ phase = [t \in Targets |-> "pending"] /\ todo = Prompts /\ updates = Targets \ Prompts
     \/ phase = [t \in Targets |-> "gone"] /\ todo = {} /\ updates = {}
  /\ reserved = {} /\ supfail = {} /\ acceptance = {} /\ release = {} /\ announced = {}
  /\ pending = {} /\ shown = NoTarget /\ prompted = {} /\ answering = NoTarget
  /\ answered = [t \in Targets |-> "none"]
  /\ task = [t \in Targets |-> "none"]
  /\ work = [t \in Targets |-> 0]
  /\ outcome = [t \in Targets |-> "none"]
  /\ finished = "no"
  /\ call = [c \in Calls |-> "none"]
  /\ accepts = [c \in Calls |-> {}]
  /\ finals = [c \in Calls |-> {}]
  /\ wait = [w \in Waiters |-> "new"]
  /\ faults = 0

-----------------------------------------------------------------------------
(* Helpers. *)

Fault == faults < MaxFaults /\ faults' = faults + 1

\* take_pending
Take(t) ==
  /\ pending' = pending \ {t}
  /\ shown' = IF shown = t THEN NoTarget ELSE shown

\* The node and the control of t leave the pass.
Skip(t) ==
  /\ phase' = [phase EXCEPT ![t] = "gone"]
  /\ reserved' = reserved \ {t}
  /\ supfail' = supfail \ {t}

\* t gets a candidate and goes to its terminalizer; its step is forgotten.
Candidate(t, result) ==
  /\ task' = [task EXCEPT ![t] = "publish"]
  /\ outcome' = [outcome EXCEPT ![t] = result]
  /\ work' = [work EXCEPT ![t] = 0]

\* The supervisor runs the terminalizer of t itself.
Terminalize(t, result) == cur' = t /\ Candidate(t, result)

\* A reservation is acknowledged for a target that has no process.
Acknowledge(t) == acceptance' = IF t \in reserved THEN acceptance \cup {t} ELSE acceptance

-----------------------------------------------------------------------------
(* The supervisor. *)

\* The next target to ask about, unless it was cancelled already.
AskNext(t) ==
  /\ sup = "body" /\ cur = NoTarget /\ t \in todo
  /\ todo' = todo \ {t}
  /\ IF t \in reserved
     THEN Terminalize(t, "cancelled") /\ Acknowledge(t) /\ UNCHANGED rx
     ELSE cur' = t /\ rx' = "register" /\ UNCHANGED <<taskVars, acceptance>>
  /\ UNCHANGED <<sup, updates, phase, reserved, supfail, release, announced, promptVars,
                 finished, callVars, wait, faults>>

\* register_prompt: it was cancelled, or not, after AskNext read it.
Register ==
  /\ rx = "register"
  /\ rx' = "waiting"
  /\ prompted' = prompted \cup {cur}
  /\ pending' = pending \cup {cur}
  /\ shown' = cur
  /\ phase' = IF cur \in reserved THEN phase ELSE [phase EXCEPT ![cur] = "prompting"]
  /\ UNCHANGED <<sup, cur, todo, updates, fenceVars, announced, answered, answering,
                 taskVars, finished, callVars, wait, faults>>

\* PROMPT_TIMEOUT is over; the receiver is dropped.
TimesOut ==
  /\ rx = "waiting"
  /\ rx' = "expired"
  /\ UNCHANGED <<sup, cur, todo, updates, phase, fenceVars, announced, promptVars, taskVars,
                 finished, callVars, wait, faults>>

\* The answer arrived in time.
Answered ==
  /\ rx \in {"yes", "no"}
  /\ rx' = "none"
  /\ cur' = NoTarget
  /\ IF rx = "yes"
     THEN updates' = updates \cup {cur} /\ UNCHANGED <<phase, reserved, supfail>>
     ELSE Skip(cur) /\ UNCHANGED updates
  /\ UNCHANGED <<sup, todo, acceptance, release, announced, promptVars, taskVars, finished,
                 callVars, wait, faults>>

\* No answer, or the prompt was closed by a cancellation: under answer_serial.
Expire ==
  /\ rx \in {"expired", "dropped"} /\ answering = NoTarget
  /\ rx' = "none"
  /\ IF cur \in reserved
     THEN /\ Terminalize(cur, "cancelled")
          /\ Acknowledge(cur)
          /\ UNCHANGED <<phase, reserved, supfail, pending, shown>>
     ELSE /\ cur' = NoTarget
          /\ Take(cur)
          /\ Skip(cur)
          /\ UNCHANGED <<taskVars, acceptance>>
  /\ UNCHANGED <<sup, todo, updates, release, announced, prompted, answered, answering,
                 finished, callVars, wait, faults>>

\* After the last prompt: one task per target, none for a cancelled one.
SpawnTask(t) ==
  /\ sup = "body" /\ todo = {} /\ cur = NoTarget /\ t \in updates
  /\ updates' = updates \ {t}
  /\ IF t \in reserved
     THEN Terminalize(t, "cancelled") /\ Acknowledge(t)
     ELSE task' = [task EXCEPT ![t] = "begin"] /\ UNCHANGED <<cur, work, outcome, acceptance>>
  /\ UNCHANGED <<sup, todo, rx, phase, reserved, supfail, release, announced, promptVars,
                 finished, callVars, wait, faults>>

\* The body panics; reserve_supervisor_failure.
SupervisorPanics ==
  /\ sup = "body" /\ (cur = NoTarget \/ rx # "none")
  /\ Fault
  /\ sup' = "joining" /\ cur' = NoTarget /\ rx' = "none" /\ todo' = {} /\ updates' = {}
  /\ supfail' = supfail \cup Unfinished
  /\ reserved' = reserved \cup Unfinished
  /\ release' = release \cup (Unfinished \ reserved)
  /\ acceptance' = acceptance \cup {t \in Unfinished : phase[t] \in Early}
  /\ pending' = pending \ {shown}
  /\ shown' = NoTarget
  /\ UNCHANGED <<phase, announced, prompted, answered, answering, taskVars, finished, callVars, wait>>

\* The tasks it had spawned are joined; what is unfinished it publishes itself.
StartSettling ==
  /\ sup = "joining" /\ Idle
  /\ sup' = "settle"
  /\ todo' = Unfinished
  /\ UNCHANGED <<cur, updates, rx, phase, fenceVars, announced, promptVars, taskVars, finished,
                 callVars, wait, faults>>

SettleNext(t) ==
  /\ sup = "settle" /\ cur = NoTarget /\ t \in todo
  /\ todo' = todo \ {t}
  /\ Terminalize(t, "failed")
  /\ UNCHANGED <<sup, updates, rx, phase, fenceVars, announced, promptVars, finished,
                 callVars, wait, faults>>

\* finalize: every node's result was emitted; store_final_results.
Store ==
  /\ sup \in {"body", "settle"} /\ todo = {} /\ updates = {} /\ cur = NoTarget /\ Idle
  /\ Nodes \subseteq announced
  /\ sup' = "stored"
  /\ pending' = {} /\ shown' = NoTarget
  /\ UNCHANGED <<cur, todo, updates, rx, phase, fenceVars, announced, prompted, answered,
                 answering, taskVars, finished, callVars, wait, faults>>

\* release_finished
ReleaseFinished ==
  /\ sup = "stored"
  /\ sup' = "notify"
  /\ phase' = [t \in Targets |-> IF t \in Nodes THEN "terminal" ELSE "gone"]
  /\ announced' = announced \cup Nodes
  /\ finished' = "yes"
  /\ UNCHANGED <<cur, todo, updates, rx, fenceVars, promptVars, taskVars, callVars, wait, faults>>

Notify ==
  /\ sup = "notify"
  /\ sup' = "done"
  /\ wait' = [w \in Waiters |-> IF wait[w] = "parked" THEN "new" ELSE wait[w]]
  /\ UNCHANGED <<cur, todo, updates, rx, phase, fenceVars, announced, promptVars, taskVars,
                 finished, callVars, faults>>

-----------------------------------------------------------------------------
(* Answers. *)

\* answer_prompt takes the serial and classifies; it persists if the prompt is
\* pending or expired and nobody answered yet.
AnswerBegin(t) ==
  /\ answering = NoTarget /\ t \in prompted /\ answered[t] = "none"
  /\ t \in pending \/ (t \notin reserved /\ phase[t] # "terminal")
  /\ answering' = t
  /\ UNCHANGED <<supVars, phase, fenceVars, announced, pending, shown, prompted, answered,
                 taskVars, finished, callVars, wait, faults>>

\* claim_answer and deliver, once persisted.
AnswerClaim(value) ==
  /\ answering # NoTarget
  /\ answered' = [answered EXCEPT ![answering] = value]
  /\ answering' = NoTarget
  /\ Take(answering)
  /\ IF answering \notin pending THEN UNCHANGED <<phase, reserved, supfail>>
     ELSE IF value = "no" THEN Skip(answering)
     ELSE /\ phase' = [phase EXCEPT ![answering] = IF @ = "gone" THEN @ ELSE "pending"]
          /\ UNCHANGED <<reserved, supfail>>
  /\ rx' = IF answering \in pending /\ cur = answering /\ rx = "waiting" THEN value ELSE rx
  /\ UNCHANGED <<sup, cur, todo, updates, acceptance, release, announced, prompted, taskVars,
                 finished, callVars, wait, faults>>

\* The policy cannot be persisted, or the call is dropped while it is.
AnswerFails ==
  /\ answering # NoTarget
  /\ Fault
  /\ answering' = NoTarget
  /\ UNCHANGED <<supVars, phase, fenceVars, announced, pending, shown, prompted, answered,
                 taskVars, finished, callVars, wait>>

-----------------------------------------------------------------------------
(* Cancellations. *)

\* Targets S are reserved; the prompts in P are closed.
Reserve(S, P) ==
  /\ reserved' = reserved \cup S
  /\ acceptance' = acceptance \cup {t \in S : phase[t] \in Early}
  /\ pending' = pending \ P
  /\ shown' = IF shown \in P THEN NoTarget ELSE shown
  /\ rx' = IF rx = "waiting" /\ cur \in P THEN "dropped" ELSE rx

\* Call c cancels the targets in S and waits for what it found.
Cancel(c, S) ==
  LET open == (S \cap Unfinished) \ reserved IN
  /\ call[c] = "none" /\ answering = NoTarget
  /\ call' = [call EXCEPT ![c] = "waiting"]
  /\ accepts' = [accepts EXCEPT ![c] = S \cap Unfinished]
  /\ finals' = [finals EXCEPT ![c] = S \ Unfinished]
  /\ Reserve(open, open \cap pending)
  /\ UNCHANGED <<sup, cur, todo, updates, phase, supfail, release, announced, prompted, answered,
                 answering, taskVars, finished, wait, faults>>

CancelRow(c, t) == t \in Nodes /\ Cancel(c, {t})

CancelAll(c) == Nodes # {} /\ Cancel(c, Nodes)

\* The call is over; its ResponseReleaseGuard opens what it waited for.
CallOver(c) ==
  /\ call' = [call EXCEPT ![c] = "none"]
  /\ accepts' = [accepts EXCEPT ![c] = {}]
  /\ finals' = [finals EXCEPT ![c] = {}]
  /\ release' = release \cup accepts[c]
  /\ UNCHANGED <<supVars, phase, reserved, supfail, acceptance, announced, promptVars, taskVars,
                 finished, wait, faults>>

CallReturns(c) ==
  /\ call[c] = "waiting"
  /\ accepts[c] \subseteq acceptance
  /\ finals[c] \subseteq announced
  /\ CallOver(c)

\* A call that is dropped without its guard.
DropForgetsFences(c) ==
  /\ call[c] = "waiting"
  /\ call' = [call EXCEPT ![c] = "none"]
  /\ accepts' = [accepts EXCEPT ![c] = {}]
  /\ finals' = [finals EXCEPT ![c] = {}]
  /\ UNCHANGED <<supVars, phase, fenceVars, announced, promptVars, taskVars, finished, wait, faults>>

\* Its transport is gone.
CallDropped(c) == call[c] = "waiting" /\ CallOver(c)

-----------------------------------------------------------------------------
(* The task of one target: run_target_probe and run_update_sequence_cancellable. *)

othersOfTask == <<supVars, reserved, supfail, release, announced, promptVars, finished, callVars, wait>>

\* begin_step: refused once cancelled.
Begin(t) ==
  /\ task[t] = "begin"
  /\ IF t \in reserved
     THEN Candidate(t, "cancelled") /\ UNCHANGED phase
     ELSE /\ task' = [task EXCEPT ![t] = "commit"]
          /\ phase' = [phase EXCEPT ![t] = "starting"]
          /\ UNCHANGED <<work, outcome>>
  /\ Acknowledge(t)
  /\ UNCHANGED <<othersOfTask, faults>>

\* commit_step without a second look at the claim.
CommitAnyway(t) ==
  /\ task[t] = "commit"
  /\ task' = [task EXCEPT ![t] = "spawn"]
  /\ phase' = [phase EXCEPT ![t] = "committed"]
  /\ UNCHANGED <<othersOfTask, acceptance, work, outcome, faults>>

\* commit_step: refused if it was cancelled in between.
Commit(t) ==
  /\ task[t] = "commit"
  /\ IF t \in reserved
     THEN Candidate(t, "cancelled") /\ UNCHANGED phase
     ELSE /\ task' = [task EXCEPT ![t] = "spawn"]
          /\ phase' = [phase EXCEPT ![t] = "committed"]
          /\ UNCHANGED <<work, outcome>>
  /\ Acknowledge(t)
  /\ UNCHANGED <<othersOfTask, faults>>

\* The process is spawned; owner_installed.
Spawned(t) ==
  /\ task[t] = "spawn"
  /\ task' = [task EXCEPT ![t] = "running"]
  /\ phase' = [phase EXCEPT ![t] = "active"]
  /\ UNCHANGED <<othersOfTask, acceptance, work, outcome, faults>>

\* One step too many.
ContinuePast(t) ==
  /\ task' = [task EXCEPT ![t] = "begin"]
  /\ work' = [work EXCEPT ![t] = work[t] + 1]
  /\ UNCHANGED outcome

\* A step succeeded: the next one, or a candidate for success after the last.
Continue(t) ==
  IF work[t] <= Steps
  THEN /\ task' = [task EXCEPT ![t] = "begin"]
       /\ work' = [work EXCEPT ![t] = work[t] + 1]
       /\ UNCHANGED outcome
  ELSE Candidate(t, "succeeded")

\* What a step that is over means to its target; it acknowledges a cancellation.
Conclude(t, result) ==
  /\ Acknowledge(t)
  /\ phase' = IF t \in reserved THEN [phase EXCEPT ![t] = "cleanup"] ELSE phase
  /\ IF result = "kept" \/ t \in reserved \/ result # "succeeded"
     THEN Candidate(t, IF result # "kept" /\ t \in reserved THEN "cancelled" ELSE result)
     ELSE Continue(t)

\* No process was made: a probe found no command to run, an updater step could
\* not be spawned; completed_without_owner.
NoOwner(t) ==
  /\ task[t] = "spawn"
  /\ Conclude(t, IF work[t] \in {0, Steps + 1} THEN "succeeded" ELSE "failed")
  /\ UNCHANGED <<othersOfTask, faults>>

\* The process exited, ran out of time, or is to be stopped; a panic of the
\* body leaves it to be settled too.
Waited(t, result) ==
  /\ task[t] = "running"
  /\ \/ result \in {"succeeded", "failed"} /\ UNCHANGED faults
     \/ result = "cancelled" /\ t \in reserved /\ UNCHANGED faults
     \/ result = "kept" /\ Fault
  /\ task' = [task EXCEPT ![t] = "settling"]
  /\ outcome' = [outcome EXCEPT ![t] = result]
  /\ UNCHANGED <<othersOfTask, phase, acceptance, work>>

\* owner_observed_cancellation, while the process is settled.
Observe(t) ==
  /\ task[t] = "settling" /\ t \in reserved /\ t \notin acceptance
  /\ phase' = [phase EXCEPT ![t] = "cleanup"]
  /\ Acknowledge(t)
  /\ UNCHANGED <<othersOfTask, taskVars, faults>>

\* Its process tree is gone; owner_returned.
Returned(t) ==
  /\ task[t] = "settling"
  /\ Conclude(t, outcome[t])
  /\ UNCHANGED <<othersOfTask, faults>>

\* The process tree is gone but its cleanup was defective.
ReturnedDefective(t) ==
  /\ task[t] = "settling"
  /\ Fault
  /\ Conclude(t, "kept")
  /\ UNCHANGED othersOfTask

\* The body panics with no process to settle; settle_after_panic.
Panics(t) ==
  /\ task[t] \in {"begin", "commit", "spawn"}
  /\ Fault
  /\ Candidate(t, "kept")
  /\ IF task[t] = "spawn" /\ t \in reserved
     THEN phase' = [phase EXCEPT ![t] = "cleanup"] /\ Acknowledge(t)
     ELSE UNCHANGED <<phase, acceptance>>
  /\ UNCHANGED othersOfTask

-----------------------------------------------------------------------------
(* TargetTerminalizer::publish, by the task or by the supervisor. *)

Settled(t) == task' = [task EXCEPT ![t] = "done"] /\ cur' = IF cur = t THEN NoTarget ELSE cur
othersOfPublish == <<sup, todo, updates, rx, reserved, supfail, release, promptVars, work, finished,
                     callVars, wait, faults>>

\* publish_terminal that ignores a reservation.
PublishAnyway(t) ==
  /\ task[t] = "publish"
  /\ IF phase[t] = "gone"
     THEN Settled(t) /\ UNCHANGED phase
     ELSE /\ phase' = [phase EXCEPT ![t] = "terminal"]
          /\ task' = [task EXCEPT ![t] = "emit"]
          /\ UNCHANGED cur
  /\ UNCHANGED <<othersOfPublish, acceptance, announced, outcome>>

\* The candidate is published unless the target was cancelled meanwhile.
Publish(t) ==
  /\ task[t] = "publish"
  /\ IF phase[t] = "gone"
     THEN Settled(t) /\ UNCHANGED <<phase, acceptance>>
     ELSE /\ task' = [task EXCEPT ![t] = IF t \in reserved THEN "release" ELSE "emit"]
          /\ phase' = IF t \in reserved THEN phase ELSE [phase EXCEPT ![t] = "terminal"]
          /\ Acknowledge(t)
          /\ UNCHANGED cur
  /\ UNCHANGED <<othersOfPublish, announced, outcome>>

\* Once a cancel call has returned, the result of a cancelled target.
PublishReserved(t) ==
  /\ task[t] = "release" /\ t \in release
  /\ IF phase[t] = "gone"
     THEN Settled(t) /\ UNCHANGED <<phase, outcome>>
     ELSE /\ task' = [task EXCEPT ![t] = "emit"]
          /\ phase' = [phase EXCEPT ![t] = "terminal"]
          /\ outcome' = [outcome EXCEPT ![t] = IF @ = "kept" THEN @
                                               ELSE IF t \in supfail THEN "failed" ELSE "cancelled"]
          /\ UNCHANGED cur
  /\ UNCHANGED <<othersOfPublish, acceptance, announced>>

\* The event alone, without the fence behind it.
EmitOnly(t) ==
  /\ task[t] = "emit"
  /\ Settled(t)
  /\ UNCHANGED <<othersOfPublish, phase, acceptance, announced, outcome>>

\* agent_update_command_finished is emitted and the fence opened by
\* command_event_emitted, unless an answer removed the control meanwhile.
Emit(t) ==
  /\ task[t] = "emit"
  /\ Settled(t)
  /\ announced' = announced \cup ({t} \cap Nodes)
  /\ UNCHANGED <<othersOfPublish, phase, acceptance, outcome>>

-----------------------------------------------------------------------------
(* wait_until_done *)

\* The Notified is created before finished is read.
Arm(w) == wait[w] = "new" /\ wait' = [wait EXCEPT ![w] = "armed"]

ReadFinished(w) ==
  /\ wait[w] = "armed"
  /\ wait' = [wait EXCEPT ![w] = IF finished = "yes" THEN "through" ELSE "parked"]

Launch(w) ==
  /\ Arm(w) \/ ReadFinished(w)
  /\ UNCHANGED <<supVars, phase, fenceVars, announced, promptVars, taskVars, finished, callVars, faults>>

-----------------------------------------------------------------------------
Supervise ==
  \/ \E t \in Targets : AskNext(t) \/ SpawnTask(t) \/ SettleNext(t)
  \/ Register \/ TimesOut \/ Answered \/ Expire
  \/ StartSettling \/ Store \/ ReleaseFinished \/ Notify

Update(t) ==
  \/ Begin(t) \/ Commit(t) \/ Spawned(t) \/ NoOwner(t)
  \/ \E result \in Outcomes : Waited(t, result)
  \/ Observe(t) \/ Returned(t)
  \/ Publish(t) \/ PublishReserved(t) \/ Emit(t)

Persisted == \E value \in {"yes", "no"} : AnswerClaim(value)

Next ==
  \/ Supervise \/ SupervisorPanics
  \/ \E t \in Targets : Update(t) \/ Panics(t) \/ ReturnedDefective(t) \/ AnswerBegin(t)
  \/ Persisted \/ AnswerFails
  \/ \E c \in Calls : CancelAll(c) \/ CallReturns(c) \/ CallDropped(c)
  \/ \E c \in Calls, t \in Targets : CancelRow(c, t)
  \/ \E w \in Waiters : Launch(w)

Spec == Init /\ [][Next]_vars

\* Every task is polled, every process ends or is killed, a prompt runs out,
\* a persist ends; nobody is bound to answer, to cancel or to panic.
Fairness ==
  /\ WF_vars(Supervise)
  /\ \A t \in Targets : WF_vars(Update(t))
  /\ WF_vars(Persisted)
  /\ \A c \in Calls : WF_vars(CallReturns(c))
  /\ \A w \in Waiters : WF_vars(Launch(w))

FairSpec == Spec /\ Fairness

-----------------------------------------------------------------------------
TypeOK ==
  /\ sup \in {"body", "joining", "settle", "stored", "notify", "done"}
  /\ cur \in Targets \cup {NoTarget}
  /\ todo \subseteq Targets /\ updates \subseteq Targets
  /\ rx \in {"none", "register", "waiting", "yes", "no", "dropped", "expired"}
  /\ phase \in [Targets -> Phases]
  /\ reserved \subseteq Targets /\ supfail \subseteq Targets
  /\ acceptance \subseteq Targets /\ release \subseteq Targets /\ announced \subseteq Targets
  /\ pending \subseteq Targets /\ prompted \subseteq Targets
  /\ shown \in Targets \cup {NoTarget} /\ answering \in Targets \cup {NoTarget}
  /\ answered \in [Targets -> {"none", "yes", "no"}]
  /\ task \in [Targets -> Tasks]
  /\ work \in [Targets -> 0..(Steps + 1)]
  /\ outcome \in [Targets -> Outcomes]
  /\ finished \in {"yes", "no"}
  /\ call \in [Calls -> {"none", "waiting"}]
  /\ accepts \in [Calls -> SUBSET Targets] /\ finals \in [Calls -> SUBSET Targets]
  /\ wait \in [Waiters -> {"new", "armed", "parked", "through"}]
  /\ faults \in 0..MaxFaults

\* A process of a target starts only if the user decided for its command, before
\* or in answer to the prompt, and never once its cancellation was accepted:
\* what a cancel call that returned has promised (begin_step, commit_step).
StartsAreAllowed ==
  [][\A t \in Targets : ~Runs(t) /\ Runs(t)'
       => t \notin acceptance /\ (t \in Prompts => answered[t] = "yes")]_vars

\* When launches are let through nothing of the pass is left: no process runs,
\* the result of every row was announced, and no row that was cancelled before
\* it was finished reads succeeded (finalize, release_finished, publish).
FinishedIsSettled ==
  finished = "yes" =>
    \A t \in Targets : /\ ~Runs(t)
                       /\ t \in Nodes => task[t] = "done" /\ outcome[t] # "none"
                       /\ t \in Nodes \cap reserved => outcome[t] # "succeeded"

\* The row of a result that call c waits for was removed before it was announced;
\* its fence went with the control.
Orphaned(c) == \E t \in finals[c] \ announced : t \notin Nodes

\* Every launch gets through in the end, whatever is answered, cancelled,
\* dropped or panics meanwhile (wait_until_done), unless a cancel call hangs on
\* a fence that is gone and so never releases the other targets it cancelled.
GateOpens ==
  \A w \in Waiters :
    wait[w] # "new" ~> wait[w] = "through" \/ \E c \in Calls : Orphaned(c)

\* Every cancel call ends, with its guard, however many came before it
\* (cancel_update, cancel_all_updates), unless a No removed the row of a result
\* it waits for between the publication of that result and its announcement.
CallsReturn == \A c \in Calls : call[c] = "waiting" ~> call[c] = "none" \/ Orphaned(c)
=============================================================================
