------------------------------ MODULE QuitGate ------------------------------
(***************************************************************************)
(* The backend quit gate (src-tauri/src/quit_gate.rs).                     *)
(*                                                                         *)
(* Every window that may hold unsaved work registers as a gate.  A quit    *)
(* round snapshots the registered gates, asks each one, and the process    *)
(* exits only when all of them consent or main forces the round.  The      *)
(* state lives behind one mutex that is never held across an await, so an  *)
(* action here is one critical section; the quit task itself               *)
(* (quit_gate_run) takes the lock several times and is split at each.      *)
(*                                                                         *)
(* The callers are left free: main may start a round whenever the gate     *)
(* lets it, may force any epoch, and a gate may answer, report progress,   *)
(* unregister or be destroyed at any moment with any epoch.                *)
(***************************************************************************)
EXTENDS Integers

CONSTANTS Gates,     \* window labels that may register
          Timeout,   \* QUIT_GATE_TIMEOUT, in clock ticks
          MaxEpoch,  \* bound: rounds that may be started
          MaxPause,  \* bound: ticks that may pass while one round is paused
          MaxLate    \* bound: ticks the clock may run past a round's budget

ASSUME TimeoutAssumption == Timeout \in Nat \ {0}
ASSUME BoundsAssumption == MaxEpoch \in Nat /\ MaxPause \in Nat /\ MaxLate \in Nat

VARIABLES
  nextEpoch,    \* QuitGateInner.next_epoch
  registered,   \* QuitGateInner.registered
  live,         \* QuitGateInner.round.epoch; NoEpoch when round is None
  pending,      \* QuitRound.pending: the gates that have not answered
  busy,         \* QuitRound.busy
  remaining,    \* QuitRound.remaining
  deadline,     \* QuitRound.deadline; Paused is None
  terminal,     \* QuitGateInner.terminal; NoTerminal is None
  exitClaimed,  \* QuitGateInner.exit_claimed, "yes" or "no"
  now,          \* QuitGateClock::now
  pc,           \* pc[e]: where the quit task of epoch e stands
  woken,        \* tasks whose enrolled Notified has been notified
  armed,        \* armed[e]: the deadline task e read before it parked
  forceClaims,  \* epochs a force call has finished but not yet claimed
  exits,        \* exits[e]: how often host.exit ran for epoch e
  enrolled,     \* history: the snapshot epoch e was installed with
  consents,     \* history: the gates that consented in epoch e
  forced,       \* history: the epochs main forced
  ran,          \* history: ticks the live round has run unpaused
  idled         \* history: ticks the live round has been paused

roundVars == <<live, pending, busy, remaining, deadline>>
gateVars == <<nextEpoch, registered, roundVars, terminal, exitClaimed, now>>
taskVars == <<pc, woken, armed, forceClaims, exits>>
histVars == <<enrolled, consents, forced, ran, idled>>
vars == <<nextEpoch, registered, live, pending, busy, remaining, deadline, terminal, exitClaimed,
          now, pc, woken, armed, forceClaims, exits,
          enrolled, consents, forced, ran, idled>>

Epochs == 1..MaxEpoch

\* Option<Duration> of a deadline: None while a busy gate pauses the clock.
Paused == -1

\* Epochs start at 1, so epoch 0 stands for None.
NoEpoch == 0
NoTerminal == [epoch |-> NoEpoch, kind |-> "None", reason |-> "None"]

Exiting(e) == [epoch |-> e, kind |-> "Exiting", reason |-> "None"]
Aborted(e, why) == [epoch |-> e, kind |-> "Aborted", reason |-> why]

Reasons == {"None", "Refused", "Timeout", "Unregistered", "Destroyed", "Cancelled"}

\* Where a quit task stands: not started; about to emit app_quit_started, to
\* emit app_quit_requested, to finalize an empty round; in the waiter loop
\* (enrol, read the terminal, read the deadline, parked, timeout found due);
\* about to claim the exit; returned with its outcome; or gone without one
\* (the start event failed, or the task was cancelled or panicked).
Steps == {"none", "started", "request", "finalize", "enrol", "check", "arm",
          "parked", "expire", "claim", "returned", "dropped"}

\* Tasks holding an enrolled Notified.
Enrolled == {"check", "arm", "parked"}

\* Where an armed QuitRoundGuard may be dropped: in an emit that panics, or
\* while the task is cancelled at its only await.
Guarded == {"started", "request", "parked"}
-----------------------------------------------------------------------------
Init ==
  /\ nextEpoch = 0
  /\ registered = {}
  /\ live = NoEpoch
  /\ pending = {}
  /\ busy = {}
  /\ remaining = 0
  /\ deadline = Paused
  /\ terminal = NoTerminal
  /\ exitClaimed = "no"
  /\ now = 0
  /\ pc = [e \in Epochs |-> "none"]
  /\ woken = {}
  /\ armed = [e \in Epochs |-> Paused]
  /\ forceClaims = {}
  /\ exits = [e \in Epochs |-> 0]
  /\ enrolled = [e \in Epochs |-> {}]
  /\ consents = [e \in Epochs |-> {}]
  /\ forced = {}
  /\ ran = 0
  /\ idled = 0

\* live_round(epoch)
LiveRound(e) == e # NoEpoch /\ live = e

\* A Notified that registers only when it is polled in select!.
NotifyParkedOnly == woken' = woken \cup {e \in Epochs : pc[e] = "parked"}

\* notify.notify_waiters(): wakes every task that is enrolled now.  The code
\* calls it just after it unlocks; a task that enrols in between has read the
\* new state already, so folding it into the critical section loses no wakeup.
NotifyWaiters == woken' = woken \cup {e \in Epochs : pc[e] \in Enrolled}

\* QuitGateInner::finish: never replaces a terminal of the same epoch; the
\* terminal is written, then the round is torn down.
Finish(outcome) ==
  /\ terminal.epoch # outcome.epoch
  /\ LiveRound(outcome.epoch)
  /\ terminal' = outcome
  /\ exitClaimed' = "no"
  /\ live' = NoEpoch /\ pending' = {} /\ busy' = {}
  /\ remaining' = 0 /\ deadline' = Paused

\* A resume that forgets to restart the clock.
ResumeWithoutClock(g) == busy' = busy \ {g} /\ UNCHANGED <<deadline, remaining>>

\* resume_if_idle(round, now), once busy has lost g.
ResumeIfIdle(g) ==
  /\ busy' = busy \ {g}
  /\ deadline' = IF busy' = {} /\ deadline = Paused THEN now + remaining ELSE deadline
  /\ UNCHANGED remaining

\* A pause that forgets to save the budget left.
PauseKeepsBudget == deadline' = Paused /\ UNCHANGED remaining

\* A pause whose subtraction may go below zero.
PauseUnsaturated ==
  /\ deadline' = Paused
  /\ remaining' = IF deadline = Paused THEN remaining ELSE deadline - now

\* pause(round, now), with the saturating subtraction of Duration; a round
\* paused already keeps its budget.
Pause ==
  /\ deadline' = Paused
  /\ remaining' = IF deadline = Paused THEN remaining
                  ELSE IF deadline > now THEN deadline - now ELSE 0

\* abort(epoch, reason): no step for a stale epoch, or one already terminal.
Abort(e, why) == Finish(Aborted(e, why)) /\ NotifyWaiters

\* A finalize that waits for the busy gates only.
FinalizeWhenIdle(missing) == missing \subseteq busy

\* finalize_consent_locked: nobody is missing.  A refusal ends the round in
\* the critical section that records it, so refusing is empty while one lives.
FinalizeConsent(missing) == missing = {}
-----------------------------------------------------------------------------
(* Commands of the gate windows.                                           *)

\* register: refused during a round (see QuitGate's callers), else enrols.
Register(g) ==
  /\ live = NoEpoch
  /\ registered' = registered \cup {g}
  /\ UNCHANGED <<nextEpoch, roundVars, terminal, exitClaimed, now, taskVars, histVars>>

\* A teardown that lets the vote go on without the gate that left.
TeardownSilently(g, why) ==
  /\ registered' = registered \ {g}
  /\ pending' = pending \ {g}
  /\ IF live # NoEpoch THEN ResumeIfIdle(g) ELSE UNCHANGED <<busy, remaining, deadline>>
  /\ UNCHANGED <<live, terminal, exitClaimed, woken>>
  /\ UNCHANGED <<nextEpoch, now, pc, armed, forceClaims, exits, histVars>>

\* teardown_gate, for unregister and window_gone: an unanswered gate aborts
\* the live round, a gate that has answered only loses its registration.
Teardown(g, why) ==
  /\ registered' = registered \ {g}
  /\ \/ /\ live # NoEpoch /\ g \in pending
        /\ Abort(live, why)
     \/ /\ live # NoEpoch /\ g \notin pending
        /\ ResumeIfIdle(g)
        /\ UNCHANGED <<live, pending, terminal, exitClaimed, woken>>
     \/ /\ live = NoEpoch
        /\ UNCHANGED <<roundVars, terminal, exitClaimed, woken>>
  /\ UNCHANGED <<nextEpoch, now, pc, armed, forceClaims, exits, histVars>>

Unregister(g) == Teardown(g, "Unregistered")

WindowGone(g) == Teardown(g, "Destroyed")

\* resolve(label, epoch, true): a stale epoch, a duplicate answer and an
\* unknown label do nothing; the last consent writes Exiting.
Consent(g, e) ==
  /\ LiveRound(e) /\ g \in pending
  /\ consents' = [consents EXCEPT ![e] = @ \cup {g}]
  /\ IF FinalizeConsent(pending \ {g})
     THEN Finish(Exiting(e))
     ELSE /\ pending' = pending \ {g}
          /\ ResumeIfIdle(g)
          /\ UNCHANGED <<live, terminal, exitClaimed>>
  /\ NotifyWaiters
  /\ UNCHANGED <<nextEpoch, registered, now, pc, armed, forceClaims, exits,
                 enrolled, forced, ran, idled>>

\* resolve(label, epoch, false): a refusal is terminal at once, even while a
\* peer is busy.
Refuse(g, e) ==
  /\ LiveRound(e) /\ g \in pending
  /\ Abort(e, "Refused")
  /\ UNCHANGED <<nextEpoch, registered, now, pc, armed, forceClaims, exits, histVars>>

\* progress(label, epoch, true) and progress(label, epoch, false): only an
\* unanswered gate of the live round moves the clock.
Progress(g, e) ==
  /\ LiveRound(e) /\ g \in pending
  /\ NotifyWaiters
  /\ UNCHANGED <<nextEpoch, registered, live, pending, terminal, exitClaimed, now, pc,
                 armed, forceClaims, exits, histVars>>

ReportBusy(g, e) == Progress(g, e) /\ busy' = busy \cup {g} /\ Pause

ReportIdle(g, e) == Progress(g, e) /\ ResumeIfIdle(g)
-----------------------------------------------------------------------------
(* quit_application from main.                                             *)

\* install_quit_round: the epoch, the snapshot and every pending sender are
\* installed under one lock.
Start ==
  /\ live = NoEpoch
  /\ nextEpoch < MaxEpoch
  /\ pending' = registered /\ busy' = {}
  /\ remaining' = Timeout /\ deadline' = now + Timeout
  /\ LET e == nextEpoch + 1
     IN /\ nextEpoch' = e
        /\ live' = e
        /\ pc' = [pc EXCEPT ![e] = "started"]
        /\ enrolled' = [enrolled EXCEPT ![e] = registered]
  /\ ran' = 0
  /\ idled' = 0
  /\ UNCHANGED <<registered, terminal, exitClaimed, now, woken, armed,
                 forceClaims, exits, consents, forced>>

\* force_quit_round, first half: proves its epoch live, bumps the allocator
\* and writes Exiting for the original epoch.
ForceQuit(e) ==
  /\ LiveRound(e)
  /\ nextEpoch' = nextEpoch + 1
  /\ Finish(Exiting(e))
  /\ NotifyWaiters
  /\ forceClaims' = forceClaims \cup {e}
  /\ forced' = forced \cup {e}
  /\ UNCHANGED <<registered, now, pc, armed, exits, enrolled, consents, ran, idled>>

\* A claim that ignores an earlier one.
ClaimExitAgain(e) ==
  IF terminal = Exiting(e)
  THEN exitClaimed' = "yes" /\ exits' = [exits EXCEPT ![e] = @ + 1]
  ELSE UNCHANGED <<exitClaimed, exits>>

\* try_claim_exit, then exit_closing_detached when it is claimed.
ClaimExit(e) ==
  IF terminal = Exiting(e) /\ exitClaimed = "no"
  THEN exitClaimed' = "yes" /\ exits' = [exits EXCEPT ![e] = @ + 1]
  ELSE UNCHANGED <<exitClaimed, exits>>

\* force_quit_round, second half.
ForceClaim(e) ==
  /\ e \in forceClaims
  /\ forceClaims' = forceClaims \ {e}
  /\ ClaimExit(e)
  /\ UNCHANGED <<nextEpoch, registered, roundVars, terminal, now, pc, woken, armed, histVars>>
-----------------------------------------------------------------------------
(* The quit task, quit_gate_run, of epoch e.                               *)

Goto(e, from, to) == pc[e] = from /\ pc' = [pc EXCEPT ![e] = to]

\* app_quit_started reached main.
EmitStarted(e) ==
  /\ Goto(e, "started", "request")
  /\ UNCHANGED <<gateVars, woken, armed, forceClaims, exits, histVars>>

\* app_quit_started could not be emitted: the round is torn down and the task
\* returns, unless something else ended the round meanwhile.
EmitStartedFails(e) ==
  /\ Goto(e, "started", "dropped")
  /\ IF LiveRound(e) THEN Abort(e, "Cancelled")
     ELSE UNCHANGED <<roundVars, terminal, exitClaimed, woken>>
  /\ UNCHANGED <<nextEpoch, registered, now, armed, forceClaims, exits, histVars>>

\* app_quit_requested goes to the gates of the round if it is still live.
EmitRequested(e) ==
  /\ Goto(e, "request", "finalize")
  /\ UNCHANGED <<gateVars, woken, armed, forceClaims, exits, histVars>>

\* finalize_consent: a round with no unanswered gate consents immediately.
FinalizeRound(e) ==
  /\ Goto(e, "finalize", "enrol")
  /\ IF LiveRound(e) /\ FinalizeConsent(pending)
     THEN Finish(Exiting(e)) /\ NotifyWaiters
     ELSE UNCHANGED <<roundVars, terminal, exitClaimed, woken>>
  /\ UNCHANGED <<nextEpoch, registered, now, armed, forceClaims, exits, histVars>>

\* notify.notified() and enable(), before any state is read: a fresh Notified.
Enrol(e) ==
  /\ Goto(e, "enrol", "check")
  /\ UNCHANGED <<gateVars, woken, armed, forceClaims, exits, histVars>>

\* Leaving an iteration drops its Notified and its timer.
LeaveIteration(e) ==
  /\ woken' = woken \ {e}
  /\ armed' = [armed EXCEPT ![e] = Paused]

\* terminal_for(epoch): the loop ends only on this epoch's own terminal.
CheckTerminal(e) ==
  /\ \/ terminal.epoch = e /\ Goto(e, "check", "claim") /\ LeaveIteration(e)
     \/ terminal.epoch # e /\ Goto(e, "check", "arm") /\ UNCHANGED <<woken, armed>>
  /\ UNCHANGED <<gateVars, forceClaims, exits, histVars>>

\* deadline_for(epoch), under its own lock; the task then parks in select!.
ReadDeadline(e) ==
  /\ Goto(e, "arm", "parked")
  /\ armed' = [armed EXCEPT ![e] = IF LiveRound(e) THEN deadline ELSE Paused]
  /\ UNCHANGED <<gateVars, woken, forceClaims, exits, histVars>>

\* The notified branch of select!.  A receiver that yields has the same
\* effect, and every send or drop of a sender is followed by notify_waiters.
Wake(e) ==
  /\ e \in woken
  /\ Goto(e, "parked", "enrol")
  /\ LeaveIteration(e)
  /\ UNCHANGED <<gateVars, forceClaims, exits, histVars>>

\* A timeout that trusts the timer and does not reread the deadline.
TimeoutUnchecked(e) == LiveRound(e) /\ busy = {}

\* on_timeout's check: the round is live, nobody is busy, the deadline is due.
TimeoutDue(e) ==
  LiveRound(e) /\ busy = {} /\ deadline # Paused /\ now >= deadline

\* The sleep_until branch of select! and the first lock of on_timeout.
TimerFires(e) ==
  /\ armed[e] # Paused /\ now >= armed[e]
  /\ Goto(e, "parked", IF TimeoutDue(e) THEN "expire" ELSE "enrol")
  /\ LeaveIteration(e)
  /\ UNCHANGED <<gateVars, forceClaims, exits, histVars>>

\* The second lock of on_timeout: abort(epoch, Timeout).
Expire(e) ==
  /\ Goto(e, "expire", "enrol")
  /\ IF LiveRound(e) THEN Abort(e, "Timeout")
     ELSE UNCHANGED <<roundVars, terminal, exitClaimed, woken>>
  /\ UNCHANGED <<nextEpoch, registered, now, armed, forceClaims, exits, histVars>>

\* The tail of quit_gate_run: the guard is disarmed, an Exiting outcome
\* claims the exit, the outcome is returned.
Return(e) ==
  /\ Goto(e, "claim", "returned")
  /\ ClaimExit(e)
  /\ UNCHANGED <<nextEpoch, registered, roundVars, terminal, now, woken, armed,
                 forceClaims, histVars>>

\* QuitRoundGuard::drop: the task is cancelled or panics while armed.
DropTask(e) ==
  /\ pc[e] \in Guarded
  /\ pc' = [pc EXCEPT ![e] = "dropped"]
  /\ IF LiveRound(e) THEN Abort(e, "Cancelled")
     ELSE UNCHANGED <<roundVars, terminal, exitClaimed, woken>>
  /\ UNCHANGED <<nextEpoch, registered, now, armed, forceClaims, exits, histVars>>

\* The clock, bounded: it runs while a round is live, at most MaxLate ticks
\* past the budget and MaxPause ticks per paused round.
Tick ==
  /\ live # NoEpoch
  /\ IF deadline = Paused
     THEN idled < MaxPause /\ idled' = idled + 1 /\ UNCHANGED ran
     ELSE ran < Timeout + MaxLate /\ ran' = ran + 1 /\ UNCHANGED idled
  /\ now' = now + 1
  /\ UNCHANGED <<nextEpoch, registered, roundVars, terminal, exitClaimed, taskVars,
                 enrolled, consents, forced>>
-----------------------------------------------------------------------------
Task(e) ==
  \/ EmitStarted(e) \/ EmitStartedFails(e) \/ EmitRequested(e) \/ FinalizeRound(e)
  \/ Enrol(e) \/ CheckTerminal(e) \/ ReadDeadline(e) \/ Wake(e) \/ TimerFires(e)
  \/ Expire(e) \/ Return(e)

Window(g) ==
  \/ Register(g) \/ Unregister(g) \/ WindowGone(g)
  \/ \E e \in Epochs :
       Consent(g, e) \/ Refuse(g, e) \/ ReportBusy(g, e) \/ ReportIdle(g, e)

Next ==
  \/ Start \/ Tick
  \/ \E g \in Gates : Window(g)
  \/ \E e \in Epochs : Task(e) \/ DropTask(e) \/ ForceQuit(e) \/ ForceClaim(e)

Spec == Init /\ [][Next]_vars

\* Tokio polls a ready task and the clock advances.  select! polls its ready
\* branches in random order, so a due timer is not starved by notifications
\* for ever: strong fairness.  A gate or the user owes no answer, so their
\* actions carry no fairness.
Fairness ==
  /\ WF_vars(Tick)
  /\ \A e \in Epochs :
       WF_vars(Task(e)) /\ SF_vars(TimerFires(e)) /\ WF_vars(ForceClaim(e))

FairSpec == Spec /\ Fairness
-----------------------------------------------------------------------------
(* Properties.                                                             *)

Deadlines == Nat \cup {Paused}

\* The types of QuitGateInner, of the tasks and of the history variables.
TypeOK ==
  /\ nextEpoch \in 0..(MaxEpoch + 1)
  /\ registered \subseteq Gates
  /\ live \in 0..MaxEpoch
  /\ pending \subseteq Gates /\ busy \subseteq Gates
  /\ remaining \in Nat /\ deadline \in Deadlines
  /\ terminal \in [epoch : 0..MaxEpoch, kind : {"None", "Exiting", "Aborted"},
                   reason : Reasons]
  /\ exitClaimed \in {"no", "yes"}
  /\ now \in Nat
  /\ pc \in [Epochs -> Steps]
  /\ woken \subseteq Epochs
  /\ armed \in [Epochs -> Deadlines]
  /\ forceClaims \subseteq Epochs
  /\ exits \in [Epochs -> Nat]
  /\ enrolled \in [Epochs -> SUBSET Gates]
  /\ consents \in [Epochs -> SUBSET Gates]
  /\ forced \subseteq Epochs
  /\ ran \in Nat /\ idled \in Nat

\* The process exits for a round only if every gate of the round's snapshot
\* consented in that very round, or main forced that very round.
NoUnconsentedExit ==
  \A e \in Epochs : exits[e] > 0 => e \in forced \/ enrolled[e] \subseteq consents[e]

\* The quit task and a force call race to claim the exit: host.exit runs at
\* most once per round, whichever of them comes first.
ExitAtMostOnce == \A e \in Epochs : exits[e] <= 1

\* The deadline arithmetic: whatever sequence of busy and idle reports, answers
\* and teardowns a live round has seen, the clock is stopped exactly while some
\* gate is busy, and the budget still to come is Timeout less the unpaused
\* ticks, never refunded and never charged twice.
BudgetIsExact ==
  live # NoEpoch =>
    /\ deadline = Paused <=> busy # {}
    /\ busy \subseteq pending
    /\ deadline = Paused => remaining = (IF ran < Timeout THEN Timeout - ran ELSE 0)
    /\ deadline # Paused =>
         IF ran < Timeout THEN deadline = now + (Timeout - ran) ELSE deadline <= now

\* A round is timed out only after it has really run Timeout unpaused ticks:
\* a timer armed before a pause never expires the round early.
TimeoutAfterFullBudget ==
  [][terminal' # terminal /\ terminal'.reason = "Timeout" => ran >= Timeout]_vars

\* No lost wakeup: a parked task that has not been notified sleeps on the
\* deadline its round has now, and its round is not over.
NoLostWakeup ==
  \A e \in Epochs : pc[e] = "parked" /\ e \notin woken =>
    /\ LiveRound(e) => armed[e] = deadline
    /\ terminal.epoch # e

\* The timeout cannot be defeated: no round stays live for ever unless a gate
\* stays busy, or becomes busy again and again.
RoundsDoNotHang ==
  \A e \in Epochs : []<>(~LiveRound(e) \/ busy # {})

\* A round that ends Exiting is acted upon: the process exits, unless the quit
\* task died or a later round overwrote the terminal first.
ExitingIsActedOn ==
  \A e \in Epochs : terminal = Exiting(e) ~>
    exits[e] > 0 \/ terminal.epoch # e \/ pc[e] = "dropped"

\* What the gate, its tasks and the force calls decide together.
Vote == INSTANCE QuitVote
        WITH round <- live, asked <- enrolled,
             decided <- [epoch |-> terminal.epoch, kind |-> terminal.kind]

\* The gate keeps the promise of a vote: the pending senders are the windows
\* that were asked and have not agreed, no outcome is written but by the last
\* of them, by a veto or by force, and whoever claims the exit claims it for
\* an outcome that stands and that nobody claimed before.
ImplementsVote == Vote!Spec

\* on_timeout's promise: "expires the round if its deadline passed and no gate
\* is busy".
TimeoutNeverWhileBusy ==
  [][terminal' # terminal /\ terminal'.reason = "Timeout" => busy = {}]_vars

\* quit_gate_run's promise, "runs a quit round to its terminal outcome": a quit
\* task whose round has ended, by consent, abort or force, returns.  A round that
\* a gate keeps open is not asked about.
WaiterReturns ==
  \A e \in Epochs :
    pc[e] \notin {"none", "returned", "dropped"} /\ ~LiveRound(e)
      ~> pc[e] \in {"returned", "dropped"}
=============================================================================
