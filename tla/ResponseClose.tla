--------------------------- MODULE ResponseClose ---------------------------
(***************************************************************************)
(* Closing a member's session after it answered (src-tauri/src/pty/        *)
(* response_close*, commands/session/destroy/response_close.rs).           *)
(*                                                                         *)
(* A coordinator's message is typed into the member's session under a      *)
(* policy.  When the member's answer was delivered and the session stayed  *)
(* quiet for the configured time, a poll selects a ticket, and a worker    *)
(* later commits it: the route is Closing, input and deliveries are        *)
(* refused, its process group and then the process itself are killed, and  *)
(* the close ends with the session dormant or, if the kill failed and left *)
(* it running, with its route reopened.  Otherwise it does not end.        *)
(*                                                                         *)
(* The tracker lies behind one mutex: an action is one critical section of *)
(* it.  One target is modelled; its sessions follow each other and are     *)
(* told apart by the generation of their route.  Versions and epochs are   *)
(* abstracted: whatever bumps one also clears policy.selected, so a ticket *)
(* is the current one exactly while `selected' is "yes".                   *)
(***************************************************************************)
EXTENDS Integers

CONSTANTS Keys,        \* messages to the target
          Returns,     \* answers of the member to its coordinator
          Reasons,     \* publishers that may veto: manager, detector, menu, hold, held keys
          MaxSeconds,  \* bound: response_close_idle_seconds, in clock ticks
          MaxFaults,   \* bound: failed deliveries, kills and creates, destroys, tracker failures
          NoKey

ASSUME KeyAssumption == NoKey \notin Keys
ASSUME BoundsAssumption == MaxSeconds \in Nat \ {0} /\ MaxFaults \in Nat

VARIABLES
  failed,     \* inner.failed, "yes" or "no"
  seconds,    \* inner.seconds, 0 when not inner.enabled: the saved settings
  gen,        \* generation of the target's latest route; 0 before the first
  row,        \* the manager's row of that session: "none", "live" or "exited"
  alive,      \* the backend's session: "yes", "dead" once its process ended, "no" without it
  route,      \* "none", "open" or "closing"
  blocked,    \* the reasons that are published as busy, held or unknown
  typing,     \* generation the user is writing to; 0 for none
  pol,        \* route.policy: "none", "open", "submitted" or "registered"
  polKey,     \* policy.request_key
  success,    \* policy.success_at is set
  returns,    \* policy.returns
  selected,   \* policy.selected is the nonce of the last ticket
  quiet,      \* time since route.last_change
  stage,      \* stage[k]: how far the delivery of message k is
  at,         \* at[k]: generation its writer was reserved on
  ret,        \* ret[r]: "new", "admitted", "outdated" or "done"
  tickets,    \* generations with a queued ConditionalResponseClose
  pc,         \* the effect owner: see Owners
  faults,     \* faults so far
  still,      \* history: time since anything happened to the session
  disturbed,  \* history: whether anything happened since the last selection
  answered,   \* history: an answer begun after the last input was delivered
  late        \* history: the answers begun after the last input

polVars == <<pol, polKey, success, returns, selected>>
trackerVars == <<failed, seconds, gen, route, blocked, polVars, quiet>>
sessionVars == <<row, alive, typing>>
closeVars == <<tickets, pc>>
answerVars == <<answered, late>>
histVars == <<still, disturbed, answered, late>>
vars == <<failed, seconds, gen, row, alive, route, blocked, typing, pol, polKey, success,
          returns, selected, quiet, stage, at, ret, tickets, pc, faults, still, disturbed,
          answered, late>>

Provisional == {"reserved", "accepted"}
Pending == {"accepted", "queued", "claimed", "creating", "admitted", "retained", "typed", "submitted",
            "refused"}
Dispatched == {"claimed", "creating", "admitted", "retained", "typed", "submitted", "registered",
               "refused", "settled"}
Stages == {"new", "done"} \cup Provisional \cup Pending \cup Dispatched

\* No close; about to kill the group, the process, to do the rest; sealed with the
\* session gone, or left behind by a kill that failed, or by one that did not;
\* stuck without an effect's result.
Owners == {"idle", "group", "kill", "aux", "sealed", "failed", "left", "stuck"}

\* The worker has returned; what is left is up to the reconciliation.
Sealed == {"sealed", "failed", "left", "stuck"}

Init ==
  /\ failed = "no"
  /\ seconds \in 0..MaxSeconds
  /\ gen = 0
  /\ row = "none"
  /\ alive = "no"
  /\ route = "none"
  /\ blocked = {}
  /\ typing = 0
  /\ pol = "none"
  /\ polKey = NoKey
  /\ success = "no"
  /\ returns = {}
  /\ selected = "no"
  /\ quiet = 0
  /\ stage = [k \in Keys |-> "new"]
  /\ at = [k \in Keys |-> 0]
  /\ ret = [r \in Returns |-> "new"]
  /\ tickets = {}
  /\ pc = "idle"
  /\ faults = 0
  /\ still = 0
  /\ disturbed = "no"
  /\ answered = "no"
  /\ late = {}

-----------------------------------------------------------------------------
(* The tracker's helpers. *)

\* A policy that is gone and leaves its ticket.
DropPolicyOnly ==
  /\ pol' = "none"
  /\ polKey' = NoKey
  /\ success' = "no"
  /\ returns' = {}
  /\ UNCHANGED selected

\* A policy that is gone takes its answers and its ticket with it.
DropPolicy ==
  /\ pol' = "none"
  /\ polKey' = NoKey
  /\ success' = "no"
  /\ returns' = {}
  /\ selected' = "no"

\* A touch that leaves the ticket standing.
TouchKeepsTicket ==
  /\ quiet' = 0
  /\ UNCHANGED polVars

\* route.touch(now)
Touch ==
  /\ quiet' = 0
  /\ selected' = "no"
  /\ UNCHANGED <<pol, polKey, success, returns>>

\* route.invalidate(now)
Invalidate == DropPolicy /\ quiet' = 0

\* Something happened to the session.
Disturb ==
  /\ still' = 0
  /\ disturbed' = "yes"

\* Input to the session: earlier answers are none to it.
NewInput ==
  /\ Disturb
  /\ answered' = "no"
  /\ late' = {}

Fault ==
  /\ faults < MaxFaults
  /\ faults' = faults + 1

\* route.writers is 0: nobody is between reserve_writer and the drop of it.
NoWriter ==
  /\ typing # gen
  /\ \A k \in Keys : stage[k] = "admitted" => at[k] # gen

\* No provisional, pending or dispatched work, no create owner, no unknown spawn.
NoWork == \A k \in Keys : stage[k] \in {"new", "done"}

\* safe(), but for the quiet time.
Answered ==
  /\ failed = "no"
  /\ route = "open"
  /\ pol = "registered"
  /\ success = "yes"
  /\ returns = {}
  /\ blocked = {}
  /\ NoWriter
  /\ NoWork

\* safe(inner, route, now)
Safe == Answered /\ seconds > 0 /\ quiet >= seconds

-----------------------------------------------------------------------------
(* Settings and the clock. *)

\* apply_settings, which every save calls before it lets go of the settings' lock.
\* A registered policy survives new settings; answers on their way do not count.
SaveSettings ==
  /\ failed = "no"
  /\ \E s \in (0..MaxSeconds) \ {seconds} :
       /\ seconds' = s
       /\ IF s > 0 /\ pol = "registered" THEN Touch ELSE Invalidate
  /\ ret' = [r \in Returns |-> IF ret[r] = "admitted" THEN "outdated" ELSE ret[r]]
  /\ Disturb
  /\ UNCHANGED <<failed, gen, route, blocked, sessionVars, stage, at, closeVars, faults, answerVars>>

\* Time is only told apart under a registered policy: registration restarts it.
Tick ==
  /\ pol = "registered"
  /\ quiet < MaxSeconds \/ still < MaxSeconds
  /\ quiet' = IF quiet < MaxSeconds THEN quiet + 1 ELSE quiet
  /\ still' = IF still < MaxSeconds THEN still + 1 ELSE still
  /\ UNCHANGED <<failed, seconds, gen, route, blocked, polVars, sessionVars, stage, at,
                 ret, closeVars, faults, disturbed, answerVars>>

\* fail_closed: nothing is selected, committed or finished any more.
FailClosed ==
  /\ Fault
  /\ failed = "no"
  /\ failed' = "yes"
  /\ DropPolicy
  /\ UNCHANGED <<seconds, gen, route, blocked, quiet, sessionVars, stage, at, ret,
                 closeVars, histVars>>

-----------------------------------------------------------------------------
(* The session, its user and its observers.  On a Closing route they change *)
(* nothing that is read again: its policy is gone, and a reopened route is  *)
(* invalidated.                                                             *)

\* observe_raw_output
Output ==
  /\ route = "open"
  /\ failed = "no"
  /\ Touch
  /\ Disturb
  /\ UNCHANGED <<failed, seconds, gen, route, blocked, sessionVars, stage, at, ret,
                 closeVars, faults, answerVars>>

\* publish_manager_row, observe_detector, publish_menu, publish_hold and
\* publish_held_key with a value that is new.
Publish ==
  /\ route = "open"
  /\ failed = "no"
  /\ \E why \in Reasons :
       blocked' = IF why \in blocked THEN blocked \ {why} ELSE blocked \cup {why}
  /\ Touch
  /\ Disturb
  /\ UNCHANGED <<failed, seconds, gen, route, sessionVars, stage, at, ret, closeVars,
                 faults, answerVars>>

\* The manager's row gets a new carrier version.
RowChanges ==
  /\ route = "open"
  /\ failed = "no"
  /\ Invalidate
  /\ Disturb
  /\ UNCHANGED <<failed, seconds, gen, route, blocked, sessionVars, stage, at, ret,
                 closeVars, faults, answerVars>>

\* reserve_writer refuses a Closing route, whether the tracker works or not; a
\* failed tracker lets all other input through.
Writable == row = "live" /\ (route = "open" \/ (failed = "yes" /\ route = "none"))

BeginTyping ==
  /\ typing = 0
  /\ Writable
  /\ typing' = gen
  /\ Invalidate
  /\ NewInput
  /\ UNCHANGED <<failed, seconds, gen, route, blocked, row, alive, stage, at, ret,
                 closeVars, faults>>

EndTyping ==
  /\ typing # 0
  /\ typing' = 0
  /\ Touch
  /\ Disturb
  /\ UNCHANGED <<failed, seconds, gen, route, blocked, row, alive, stage, at, ret,
                 closeVars, faults, answerVars>>

\* The user destroys the session; a carrier in phase Closing vetoes it.  The
\* worker that destroys is the one that closes.
Destroy ==
  /\ Fault
  /\ row # "none"
  /\ route # "closing"
  /\ pc = "idle"
  /\ row' = "none"
  /\ alive' = "no"
  /\ route' = "none"
  /\ Invalidate
  /\ Disturb
  /\ UNCHANGED <<failed, seconds, gen, blocked, typing, stage, at, ret, closeVars,
                 answerVars>>

-----------------------------------------------------------------------------
(* A message: accepted by the store or the outbox, then delivered. *)

Advance(k, from, to) ==
  /\ stage[k] \in from
  /\ stage' = [stage EXCEPT ![k] = to]

\* reserve_work, before the message is durable.
Reserve(k) ==
  /\ Advance(k, {"new"}, "reserved")
  /\ Touch
  /\ Disturb
  /\ UNCHANGED <<failed, seconds, gen, route, blocked, sessionVars, at, ret, closeVars,
                 faults, answerVars>>

\* accept_durable: the message is pending and voids the policy before it.
Accept(k) ==
  /\ Advance(k, {"reserved"}, "accepted")
  /\ Invalidate
  /\ NewInput
  /\ UNCHANGED <<failed, seconds, gen, route, blocked, sessionVars, at, ret, closeVars,
                 faults>>

\* WorkAdmission is dropped.
Admitted(k) ==
  /\ Advance(k, {"accepted"}, "queued")
  /\ Touch
  /\ Disturb
  /\ UNCHANGED <<failed, seconds, gen, route, blocked, sessionVars, at, ret, closeVars,
                 faults, answerVars>>

\* A claim that does not ask whether the target is closing.
ClaimAnyway(k) ==
  /\ Advance(k, {"queued"}, "claimed")
  /\ UNCHANGED <<trackerVars, sessionVars, at, ret, closeVars, faults, histVars>>

\* begin_delivery: refused while the target is closing, also by a failed tracker.
Claim(k) ==
  /\ route # "closing"
  /\ Advance(k, {"queued"}, "claimed")
  /\ UNCHANGED <<trackerVars, sessionVars, at, ret, closeVars, faults, histVars>>

\* The target has no live session: reserve_create_owner and begin_unresolved_spawn.
Create(k) ==
  /\ row # "live"
  /\ route # "closing"
  /\ \A j \in Keys : stage[j] # "creating"
  /\ Advance(k, {"claimed"}, "creating")
  /\ Touch
  /\ Disturb
  /\ UNCHANGED <<failed, seconds, gen, route, blocked, sessionVars, at, ret, closeVars,
                 faults, answerVars>>

\* publish and register_route: nothing is known of the new session yet.
Created(k) ==
  /\ Advance(k, {"creating"}, "claimed")
  /\ gen' = gen + 1
  /\ row' = "live"
  /\ alive' = "yes"
  /\ route' = IF failed = "no" THEN "open" ELSE "none"
  /\ blocked' = Reasons
  /\ Invalidate
  /\ Disturb
  /\ UNCHANGED <<failed, seconds, typing, at, ret, closeVars, faults, answerVars>>

CreateFails(k) ==
  /\ Fault
  /\ Advance(k, {"creating"}, "claimed")
  /\ Touch
  /\ Disturb
  /\ UNCHANGED <<failed, seconds, gen, route, blocked, sessionVars, at, ret, closeVars,
                 answerVars>>

\* InputPreparation::acquire reserves a writer on the live session's route.
Admit(k) ==
  /\ Writable
  /\ Advance(k, {"claimed"}, "admitted")
  /\ at' = [at EXCEPT ![k] = gen]
  /\ Invalidate
  /\ NewInput
  /\ UNCHANGED <<failed, seconds, gen, route, blocked, sessionVars, ret, closeVars,
                 faults>>

\* reserve_policy_candidate, just before the text is written.
Candidate(k) ==
  /\ stage[k] = "admitted"
  /\ at[k] = gen
  /\ failed = "no"
  /\ route = "open"
  /\ seconds > 0
  /\ ~(pol = "open" /\ polKey = k)
  /\ pol' = "open"
  /\ polKey' = k
  /\ success' = "no"
  /\ returns' = {}
  /\ selected' = "no"
  /\ UNCHANGED <<failed, seconds, gen, route, blocked, quiet, sessionVars, stage, at,
                 ret, closeVars, faults, histVars>>

\* The text is in the terminal and the permit is dropped.
Typed(k) ==
  /\ Advance(k, {"admitted"}, "typed")
  /\ Touch
  /\ Disturb
  /\ UNCHANGED <<failed, seconds, gen, route, blocked, sessionVars, at, ret, closeVars,
                 faults, answerVars>>

\* mark_request_submitted(true), if the policy is still this delivery's.
Submit(k) ==
  /\ Advance(k, {"typed"}, "submitted")
  /\ pol' = IF pol = "open" /\ polKey = k THEN "submitted" ELSE pol
  /\ UNCHANGED <<failed, seconds, gen, route, blocked, polKey, success, returns,
                 selected, quiet, sessionVars, at, ret, closeVars, faults, histVars>>

OwnPolicy(k) == pol = "submitted" /\ polKey = k

Registrable(k) ==
  /\ failed = "no"
  /\ OwnPolicy(k)
  /\ seconds > 0
  /\ NoWriter
  /\ \A j \in Keys : stage[j] \notin Provisional /\ (j # k => stage[j] \notin Pending)

\* register_request: the message is terminal, its policy may close the session.
Register(k) ==
  /\ Registrable(k)
  /\ Advance(k, {"submitted"}, "registered")
  /\ pol' = "registered"
  /\ quiet' = 0
  /\ Disturb
  /\ UNCHANGED <<failed, seconds, gen, route, blocked, polKey, success, returns,
                 selected, sessionVars, at, ret, closeVars, faults, answerVars>>

\* register_request finds its policy no longer valid and drops it.
RegisterRefused(k) ==
  /\ ~Registrable(k)
  /\ Advance(k, {"submitted"}, "refused")
  /\ IF OwnPolicy(k) THEN DropPolicy ELSE UNCHANGED polVars
  /\ UNCHANGED <<failed, seconds, gen, route, blocked, quiet, sessionVars, at, ret,
                 closeVars, faults, histVars>>

\* The carrier was not published: there is no registration.
NotPublished(k) ==
  /\ Advance(k, {"submitted"}, "refused")
  /\ UNCHANGED <<trackerVars, sessionVars, at, ret, closeVars, faults, histVars>>

\* settle_terminal: a message that is still pending leaves, and touches the route.
Settle(k) ==
  /\ Advance(k, {"registered", "refused"}, "settled")
  /\ IF stage[k] = "refused" THEN Touch /\ Disturb
                             ELSE UNCHANGED <<polVars, quiet, still, disturbed>>
  /\ UNCHANGED <<failed, seconds, gen, route, blocked, sessionVars, at, ret, closeVars,
                 faults, answerVars>>

\* ResponseCandidateDisposal is dropped: an unregistered policy of k goes with it.
Dispose(k) ==
  /\ quiet' = 0
  /\ IF polKey = k /\ pol \in {"open", "submitted"}
     THEN DropPolicy
     ELSE selected' = "no" /\ UNCHANGED <<pol, polKey, success, returns>>

\* The worker ends and drops its dispatch reservation.
Release(k) ==
  /\ Advance(k, {"settled"}, "done")
  /\ Dispose(k)
  /\ Disturb
  /\ UNCHANGED <<failed, seconds, gen, route, blocked, sessionVars, at, ret, closeVars,
                 faults, answerVars>>

\* A delivery that failed is tried again.
Requeue(k) ==
  /\ Fault
  /\ Advance(k, {"claimed", "admitted"}, "queued")
  /\ Dispose(k)
  /\ Disturb
  /\ UNCHANGED <<failed, seconds, gen, route, blocked, sessionVars, at, ret, closeVars,
                 answerVars>>

\* A delivery that failed for good is rejected.
Reject(k) ==
  /\ Fault
  /\ Advance(k, {"claimed", "admitted"}, "refused")
  /\ Touch
  /\ Disturb
  /\ UNCHANGED <<failed, seconds, gen, route, blocked, sessionVars, at, ret, closeVars,
                 answerVars>>

\* The replacement of its session is retained: deliver_peer_wake awaits pending(),
\* and the delivery keeps its reservation for ever.
Retained(k) ==
  /\ Advance(k, {"claimed", "admitted"}, "retained")
  /\ IF stage[k] = "admitted" THEN Touch /\ Disturb
                              ELSE UNCHANGED <<polVars, quiet, still, disturbed>>
  /\ UNCHANGED <<failed, seconds, gen, route, blocked, sessionVars, at, ret, closeVars,
                 faults, answerVars>>

-----------------------------------------------------------------------------
(* An answer: admitted when the member sends it, settled when the           *)
(* coordinator got it or never will.                                        *)

\* admit_return
AdmitReturn(r) ==
  /\ failed = "no"
  /\ pol # "none"
  /\ seconds > 0
  /\ ret[r] = "new"
  /\ ret' = [ret EXCEPT ![r] = "admitted"]
  /\ returns' = returns \cup {r}
  /\ selected' = "no"
  /\ quiet' = 0
  /\ late' = late \cup {r}
  /\ Disturb
  /\ UNCHANGED <<failed, seconds, gen, route, blocked, pol, polKey, success,
                 sessionVars, stage, at, closeVars, faults, answered>>

\* A success that counts for whichever policy there is.
SettleAnyPolicy(r, delivered) ==
  /\ returns' = returns \ {r}
  /\ success' = IF delivered /\ pol # "none" THEN "yes" ELSE success
  /\ selected' = "no"
  /\ quiet' = 0
  /\ Disturb
  /\ UNCHANGED <<pol, polKey>>

\* settle_return: only the policy that admitted the answer hears of it, and it
\* counts as a success only under the settings it was admitted under.
SettleReturn(r, delivered) ==
  /\ IF r \in returns
     THEN /\ returns' = returns \ {r}
          /\ success' = IF delivered /\ ret[r] = "admitted" THEN "yes" ELSE success
          /\ selected' = "no"
          /\ quiet' = 0
          /\ Disturb
     ELSE UNCHANGED <<returns, success, selected, quiet, still, disturbed>>
  /\ UNCHANGED <<pol, polKey>>

\* complete_response_delivery
ReturnDelivered(r) ==
  /\ ret[r] \in {"admitted", "outdated"}
  /\ SettleReturn(r, TRUE)
  /\ ret' = [ret EXCEPT ![r] = "done"]
  /\ answered' = IF r \in late THEN "yes" ELSE answered
  /\ UNCHANGED <<failed, seconds, gen, route, blocked, sessionVars, stage, at,
                 closeVars, faults, late>>

\* settle_return_terminal
ReturnLost(r) ==
  /\ ret[r] \in {"admitted", "outdated"}
  /\ SettleReturn(r, FALSE)
  /\ ret' = [ret EXCEPT ![r] = "done"]
  /\ UNCHANGED <<failed, seconds, gen, route, blocked, sessionVars, stage, at,
                 closeVars, faults, answerVars>>

-----------------------------------------------------------------------------
(* The close: a poll selects, the selection worker commits and carries out. *)

\* select_ticket; one close per session may be queued (its critical key).
Select ==
  /\ row = "live"
  /\ gen \notin tickets
  /\ Safe
  /\ selected' = "yes"
  /\ tickets' = tickets \cup {gen}
  /\ disturbed' = "no"
  /\ UNCHANGED <<failed, seconds, gen, route, blocked, pol, polKey, success, returns,
                 quiet, sessionVars, stage, at, ret, pc, faults, still, answerVars>>

\* The ticket is its policy's last selection, on the route it was taken for.
Current(g) == g = gen /\ selected = "yes"

\* try_commit_response_close
Commit(g) ==
  /\ g \in tickets
  /\ pc = "idle"
  /\ Safe
  /\ Current(g)
  /\ route' = "closing"
  /\ DropPolicy
  /\ tickets' = tickets \ {g}
  /\ pc' = "group"
  /\ UNCHANGED <<failed, seconds, gen, blocked, quiet, sessionVars, stage, at, ret,
                 faults, histVars>>

\* A rejected ticket that keeps its key.
DiscardKeepsKey(g) ==
  /\ g \in tickets
  /\ pc \in {"idle"} \cup Sealed
  /\ ~(Safe /\ Current(g))
  /\ UNCHANGED vars

\* The ticket is rejected, and its key is free again.
Discard(g) ==
  /\ g \in tickets
  /\ pc \in {"idle"} \cup Sealed
  /\ ~(Safe /\ Current(g))
  /\ tickets' = tickets \ {g}
  /\ UNCHANGED <<trackerVars, sessionVars, stage, at, ret, pc, faults, histVars>>

othersOfEffect == <<trackerVars, row, typing, stage, at, ret, tickets, histVars>>

\* response_group_effect: a session with a registered group loses its processes.
GroupEffect ==
  /\ pc = "group"
  /\ alive' \in {alive, "dead"}
  /\ pc' = "kill"
  /\ UNCHANGED <<othersOfEffect, faults>>

\* Whatever the kill returned, the backend has the session no more.
Kill ==
  /\ pc = "kill"
  /\ alive' = "no"
  /\ pc' = "aux"
  /\ UNCHANGED <<othersOfEffect, faults>>

\* The backend still has the session after the kill, which failed or did not:
\* nothing else is done to it.
KillLeaves ==
  /\ Fault
  /\ pc = "kill"
  /\ pc' \in {"failed", "left"}
  /\ UNCHANGED <<othersOfEffect, alive>>

\* Its process ends by itself during the close; the backend keeps the session.
Dies ==
  /\ Fault
  /\ pc # "idle" /\ alive = "yes"
  /\ alive' = "dead"
  /\ UNCHANGED <<othersOfEffect, pc>>

\* The row is retained as Exited(0) and loses the selection.
Retain ==
  /\ pc = "aux"
  /\ row' = "exited"
  /\ pc' = "sealed"
  /\ UNCHANGED <<trackerVars, alive, typing, stage, at, ret, tickets, faults, histVars>>

\* The group effect's task is lost, or the manager refuses the row's change and the
\* rest is skipped: the row is never Exited(0) with all effects complete.
EffectLost ==
  /\ Fault
  /\ \/ pc = "group" /\ alive' \in {alive, "dead"}
     \/ pc = "aux" /\ UNCHANGED alive
  /\ pc' = "stuck"
  /\ UNCHANGED othersOfEffect

\* finish_response_close with the evidence of a dormant session.
FinishDormant ==
  /\ pc = "sealed"
  /\ failed = "no"
  /\ alive = "no"
  /\ row = "exited"
  /\ route' = "none"
  /\ DropPolicy
  /\ pc' = "idle"
  /\ UNCHANGED <<failed, seconds, gen, blocked, quiet, sessionVars, stage, at, ret,
                 tickets, faults, histVars>>

\* A reopening that leaves the route Closing.
ReopenPolicyOnly ==
  /\ pc = "failed"
  /\ failed = "no"
  /\ alive = "yes"
  /\ row = "live"
  /\ Invalidate
  /\ pc' = "idle"
  /\ UNCHANGED <<failed, seconds, gen, route, blocked, sessionVars, stage, at, ret,
                 tickets, faults, histVars>>

\* finish_response_close after a failed kill of a session that is still Live:
\* response_close_dormancy, reopen_after_kill_failure.
Reopen ==
  /\ pc = "failed"
  /\ failed = "no"
  /\ alive = "yes"
  /\ row = "live"
  /\ route' = "open"
  /\ Invalidate
  /\ pc' = "idle"
  /\ UNCHANGED <<failed, seconds, gen, blocked, sessionVars, stage, at, ret, tickets,
                 faults, histVars>>

-----------------------------------------------------------------------------
Admission(k) == Reserve(k) \/ Accept(k) \/ Admitted(k)

Finish(k) == Submit(k) \/ Register(k) \/ RegisterRefused(k) \/ NotPublished(k) \/ Settle(k) \/ Release(k)

Deliver(k) == Claim(k) \/ Create(k) \/ Created(k) \/ Admit(k) \/ Typed(k) \/ Finish(k)

DeliveryFails(k) == CreateFails(k) \/ Requeue(k) \/ Reject(k)

Answer(r) == AdmitReturn(r) \/ ReturnDelivered(r) \/ ReturnLost(r)

Session == Output \/ Publish \/ RowChanges \/ BeginTyping \/ EndTyping \/ Destroy

RunTicket == \E g \in tickets : Commit(g) \/ Discard(g)

Effects == GroupEffect \/ Kill \/ Retain \/ FinishDormant \/ Reopen

EffectsFail == KillLeaves \/ Dies \/ EffectLost

Next ==
  \/ \E k \in Keys : Admission(k) \/ Deliver(k) \/ Candidate(k) \/ DeliveryFails(k) \/ Retained(k)
  \/ \E r \in Returns : Answer(r)
  \/ Session \/ SaveSettings \/ Select \/ RunTicket \/ Effects
  \/ EffectsFail \/ FailClosed \/ Tick

Spec == Init /\ [][Next]_vars

\* Mailbox, dispatcher, poll and selection worker are tasks that run again and
\* again, a delivery comes to its end unless it is retained, a reconciliation
\* retries a settlement that could not be saved, and time passes.  Nobody has to
\* answer, to stop typing or to send a message.
FairSpec ==
  /\ Spec
  /\ \A k \in Keys : WF_vars(Admission(k) /\ stage[k] # "new") /\ WF_vars(Deliver(k))
  /\ WF_vars(Select)
  /\ WF_vars(RunTicket)
  /\ WF_vars(Effects)
  /\ WF_vars(Tick)

-----------------------------------------------------------------------------
(* Properties. *)

\* The tracker, the session, the deliveries and the close keep their types; a
\* policy has its key, and a ticket is selected only for a registered one.
TypeOK ==
  /\ failed \in {"yes", "no"}
  /\ seconds \in 0..MaxSeconds
  /\ gen \in Nat
  /\ row \in {"none", "live", "exited"}
  /\ alive \in {"yes", "dead", "no"}
  /\ route \in {"none", "open", "closing"}
  /\ blocked \in SUBSET Reasons
  /\ typing \in Nat
  /\ pol \in {"none", "open", "submitted", "registered"}
  /\ polKey \in Keys \cup {NoKey}
  /\ success \in {"yes", "no"}
  /\ returns \in SUBSET Returns
  /\ selected \in {"yes", "no"}
  /\ quiet \in 0..MaxSeconds
  /\ stage \in [Keys -> Stages]
  /\ at \in [Keys -> Nat]
  /\ ret \in [Returns -> {"new", "admitted", "outdated", "done"}]
  /\ tickets \in SUBSET Nat
  /\ pc \in Owners
  /\ faults \in 0..MaxFaults
  /\ still \in 0..MaxSeconds
  /\ disturbed \in {"yes", "no"}
  /\ answered \in {"yes", "no"}
  /\ late \in SUBSET Returns
  /\ pol = "none" <=> polKey = NoKey
  /\ selected = "yes" => pol = "registered"

\* While a close is carried out nobody writes to its session, no message is on its
\* way to it, and nobody creates another session of the target, even when the
\* tracker fails in between (reserve_writer, begin_delivery, reserve_create_owner).
ClosingExcludesWork ==
  route = "closing" =>
    /\ NoWriter
    /\ \A k \in Keys : stage[k] \notin Dispatched

\* A close is committed only if nothing at all happened to the session since its
\* ticket was taken, and for as long as the settings of this moment ask for
\* (touch, try_commit_response_close).
ClosesUndisturbed ==
  [][route = "open" /\ route' = "closing"
       => disturbed = "no" /\ seconds > 0 /\ still >= seconds]_vars

\* A close is committed only when every accepted message is settled, and an answer
\* that was begun after the last input to the session was delivered (safe,
\* settle_return).
ClosesOnlyAnswered ==
  [][route = "open" /\ route' = "closing" => NoWork /\ answered = "yes"]_vars

\* A close that cannot end: its tracker failed, an effect has no result, the kill
\* left the session and did not say so, or it failed and the session is not Live;
\* each reconciliation repeats the same test (response_close_dormancy).
Stranded ==
  /\ route = "closing"
  /\ \/ failed = "yes"
     \/ pc \in {"left", "stuck"}
     \/ pc = "failed" /\ alive # "yes"

\* What a close deferred is delivered after it: an accepted message is settled in
\* the end, unless a close that cannot end holds its target, or a delivery is
\* retained, with the task that awaits it (begin_delivery).
DeliveryResumes ==
  \A k \in Keys : stage[k] = "accepted"
    ~> stage[k] = "done" \/ Stranded \/ \E j \in Keys : stage[j] = "retained"

\* A member that answered and stays quiet is closed: it does not stay so for ever
\* (poll_response_close, select_ticket, the critical key of the ticket).
AnsweredIsClosed == []<>(~(Answered /\ seconds > 0) \/ still < seconds)
=============================================================================
