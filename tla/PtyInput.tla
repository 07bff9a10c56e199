------------------------------ MODULE PtyInput ------------------------------
(***************************************************************************)
(* PTY input operations: text an agent asks to have typed into another     *)
(* agent's terminal, at most once.                                         *)
(*                                                                         *)
(* The store (src-tauri/src/api/message_store/pty_*.rs) keeps a row per    *)
(* operation and, from its end on, a tombstone.  A worker                  *)
(* (src-tauri/src/phone/mailbox/pty_dispatch.rs) takes the operation lock, *)
(* claims the row under a lease, prepares the target's session, commits    *)
(* 'actuating' and only then writes.  Recovery, startup and admission      *)
(* settle what workers leave behind.                                       *)
(*                                                                         *)
(* A store call is one transaction, run on a blocking thread some time     *)
(* after it was issued; it carries the time of its issue.  Any call may    *)
(* fail, and a commit that reports failure may have taken effect.          *)
(*                                                                         *)
(* The dispatch runs in a task of its own (run_owned_persist_core): when   *)
(* the waiter is dropped, by a shutdown or a timeout, the task goes on and *)
(* ends by itself, or with the process.                                    *)
(*                                                                         *)
(* An operation is named by its idempotency key, (sender_fqn, op_id).      *)
(***************************************************************************)
EXTENDS Integers, FiniteSets

CONSTANTS Ops,          \* idempotency keys
          HostOps,      \* those that come from the host plane
          Targets, TargetOf,  \* target_fqn of an operation
          Workers,      \* bound: concurrent dispatches
          MaxAttempts,  \* 5
          Lease,        \* 120 s, in ticks
          Lifetime,     \* expires_at - issued_at, 10 min
          Orphan,       \* 15 s after which an unowned actuation is orphaned
          Backoff,      \* retry_backoff_seconds, at most 40 s, in ticks
          Capacity,     \* PTY_INPUT_MAX_NONTERMINAL_*
          LastIssue,    \* bound: the last tick at which an operation is enqueued
          MaxNow,       \* bound: the clock
          MaxDelay,     \* bound: ticks a store call may wait for its thread
          MaxCrashes    \* bound: process ends

ASSUME ConstantsAssumption ==
  /\ HostOps \subseteq Ops
  /\ TargetOf \in [Ops -> Targets]
  /\ MaxAttempts \in Nat \ {0} /\ Lease \in Nat \ {0} /\ Lifetime \in Nat \ {0}
  /\ Orphan \in Nat /\ Backoff \in Nat /\ Capacity \in Nat
  /\ LastIssue \in Nat /\ MaxNow \in Nat /\ MaxDelay \in Nat
  /\ MaxCrashes \in Nat

\* A lock or a lease held by "nobody" is free; an idle worker's job is "none".
ASSUME NamesAssumption == "nobody" \notin Workers /\ "none" \notin Ops

VARIABLES
  row,         \* pty_input_operations.status; "none" when there is no row
  tomb,        \* pty_input_tombstones.status; "none" when there is none
  attempt,     \* attempt
  owner,       \* lease_owner
  leaseUntil,  \* lease_until
  nextAt,      \* next_attempt_at
  expires,     \* expires_at
  actuatingAt, \* actuating_at
  opLock,      \* the operation stripe, and membership in active_operations
  targetLock,  \* the target stripe and its exact guard
  pc, job,     \* job[w]: the operation worker w dispatches; pc[w]: where it is
  stamp,       \* stamp[w]: Utc::now() as passed to the call w awaits
  scan,        \* scan[o]: the status recovery has read of candidate o
  scanAttempt, \* scanAttempt[o]: the attempt it has read
  scanAt,      \* the time of that pass
  phase,       \* the process: "up", "stopping", "down", "recovering"
  now, crashes,
  writes       \* history: first writes into the target's terminal

leaseVars == <<owner, leaseUntil>>
rowVars == <<row, tomb, attempt, owner, leaseUntil, nextAt, expires, actuatingAt>>
scanVars == <<scan, scanAttempt, scanAt>>
workerVars == <<pc, job, stamp>>
lockVars == <<opLock, targetLock>>
envVars == <<phase, now, crashes>>
vars == <<row, tomb, attempt, owner, leaseUntil, nextAt, expires, actuatingAt, opLock,
          targetLock, pc, job, stamp, scan, scanAttempt, scanAt, phase, now,
          crashes, writes>>

Before == {"queued", "preparing", "retry"}
NonTerminal == Before \cup {"actuating"}
Terminal == {"injected", "rejected", "indeterminate"}
Status == {"none"} \cup NonTerminal \cup Terminal

\* Where a worker stands while it awaits a store call ...
Calls == {"claim", "refresh", "renew", "final", "begin", "retry", "reject", "record", "lost"}

\* ... and between calls.
Steps == Calls \cup {"idle", "start", "admit", "target", "select", "reacquire", "ready",
                     "writer", "boundary", "submit"}
\* No recovery pass is under way.
NoScan == [o \in Ops |-> "none"]
-----------------------------------------------------------------------------
Init ==
  /\ row = [o \in Ops |-> "none"] /\ tomb = [o \in Ops |-> "none"]
  /\ attempt = [o \in Ops |-> 0]
  /\ owner = [o \in Ops |-> "nobody"] /\ leaseUntil = [o \in Ops |-> 0]
  /\ nextAt = [o \in Ops |-> 0] /\ expires = [o \in Ops |-> 0]
  /\ actuatingAt = [o \in Ops |-> 0]
  /\ opLock = [o \in Ops |-> "nobody"] /\ targetLock = [t \in Targets |-> "nobody"]
  /\ pc = [w \in Workers |-> "idle"] /\ job = [w \in Workers |-> "none"]
  /\ stamp = [w \in Workers |-> 0]
  /\ scan = [o \in Ops |-> "none"] /\ scanAttempt = [o \in Ops |-> 0] /\ scanAt = 0
  /\ phase = "up" /\ now = 0 /\ crashes = 0
  /\ writes = [o \in Ops |-> 0]
-----------------------------------------------------------------------------
(* Transactions of the store.                                              *)

\* A check that lets a rejection end any live row.
AllowedFromLive(o, s) == row[o] \in NonTerminal

\* A check that lets a later outcome replace an earlier one.
AllowedAlways(o, s) == row[o] # "none"

\* terminalize_in_transaction: a rejection ends only what never reached
\* 'actuating', the other outcomes only what did.  A terminal row stays.
Allowed(o, s) == IF s = "rejected" THEN row[o] \in Before ELSE row[o] = "actuating"

\* A tombstone written from the row as it was before its update.
TerminalizeStaleTomb(o, s) ==
  /\ Allowed(o, s)
  /\ row' = [row EXCEPT ![o] = s] /\ tomb' = [tomb EXCEPT ![o] = row[o]]
  /\ owner' = [owner EXCEPT ![o] = "nobody"] /\ leaseUntil' = [leaseUntil EXCEPT ![o] = 0]
  /\ UNCHANGED <<attempt, nextAt, expires, actuatingAt>>

\* The row and its tombstone change together.
Terminalize(o, s) ==
  /\ Allowed(o, s)
  /\ row' = [row EXCEPT ![o] = s] /\ tomb' = [tomb EXCEPT ![o] = s]
  /\ owner' = [owner EXCEPT ![o] = "nobody"] /\ leaseUntil' = [leaseUntil EXCEPT ![o] = 0]
  /\ UNCHANGED <<attempt, nextAt, expires, actuatingAt>>

\* What claim_pty_input takes: a due row, or one whose lease ran out.
Claimable(o, t) ==
  /\ attempt[o] < MaxAttempts /\ expires[o] > t
  /\ \/ row[o] \in {"queued", "retry"} /\ nextAt[o] <= t
     \/ row[o] = "preparing" /\ leaseUntil[o] <= t

LeaseEnd(o, t) == IF t + Lease < expires[o] THEN t + Lease ELSE expires[o]

ClaimPtyInput(o, w, t) ==
  /\ Claimable(o, t)
  /\ row' = [row EXCEPT ![o] = "preparing"] /\ attempt' = [attempt EXCEPT ![o] = @ + 1]
  /\ owner' = [owner EXCEPT ![o] = w]
  /\ leaseUntil' = [leaseUntil EXCEPT ![o] = LeaseEnd(o, t)]
  /\ UNCHANGED <<tomb, nextAt, expires, actuatingAt>>

\* The row is w's to prepare.
Leased(o, w, t) ==
  row[o] = "preparing" /\ owner[o] = w /\ leaseUntil[o] > t /\ expires[o] > t

RenewPtyInputLease(o, w, t) ==
  /\ Leased(o, w, t)
  /\ leaseUntil' = [leaseUntil EXCEPT ![o] = LeaseEnd(o, t)]
  /\ UNCHANGED <<row, tomb, attempt, owner, nextAt, expires, actuatingAt>>

BeginPtyActuating(o, w, t) ==
  /\ Leased(o, w, t)
  /\ row' = [row EXCEPT ![o] = "actuating"] /\ actuatingAt' = [actuatingAt EXCEPT ![o] = t]
  /\ owner' = [owner EXCEPT ![o] = "nobody"] /\ leaseUntil' = [leaseUntil EXCEPT ![o] = 0]
  /\ UNCHANGED <<tomb, attempt, nextAt, expires>>

\* Back to 'retry', due at t.
Reschedule(o, t) ==
  /\ row' = [row EXCEPT ![o] = "retry"] /\ nextAt' = [nextAt EXCEPT ![o] = t]
  /\ owner' = [owner EXCEPT ![o] = "nobody"] /\ leaseUntil' = [leaseUntil EXCEPT ![o] = 0]
  /\ UNCHANGED <<tomb, attempt, expires, actuatingAt>>

\* A retry that does not count.
RetryUnbounded(o, w, t) ==
  row[o] = "preparing" /\ owner[o] = w /\ Reschedule(o, t + Backoff)

RetryPtyInput(o, w, t) ==
  /\ row[o] = "preparing" /\ owner[o] = w
  /\ IF attempt[o] >= MaxAttempts THEN Terminalize(o, "rejected")
     ELSE Reschedule(o, t + Backoff)
-----------------------------------------------------------------------------
(* Admission and maintenance.                                              *)

\* The count of check_pty_enqueue_admission.
Load == Cardinality({o \in Ops : row[o] \in NonTerminal})

\* A lookup that forgets what was compacted.
KnownByRowOnly(o) == row[o] # "none"

\* lookup_idempotency_row: rows, then tombstones.
Known(o) == row[o] # "none" \/ tomb[o] # "none"

\* enqueue_pty_input of a new key; a known key changes nothing.
Enqueue(o) ==
  /\ phase = "up" /\ now <= LastIssue
  /\ ~Known(o) /\ Load < Capacity
  /\ row' = [row EXCEPT ![o] = "queued"] /\ attempt' = [attempt EXCEPT ![o] = 0]
  /\ nextAt' = [nextAt EXCEPT ![o] = now] /\ expires' = [expires EXCEPT ![o] = now + Lifetime]
  /\ UNCHANGED <<tomb, leaseVars, actuatingAt, lockVars, workerVars, scanVars, envVars, writes>>

\* expire_pty_input_for_admission_page, run by every enqueue.
ExpireForAdmission(o) ==
  /\ phase = "up" /\ row[o] \in Before /\ expires[o] <= now /\ opLock[o] = "nobody"
  /\ Terminalize(o, "rejected")
  /\ UNCHANGED <<lockVars, workerVars, scanVars, envVars, writes>>

\* record_host_pty_input_rejection: a tombstone for a key never accepted.
RecordHostRejection(o) ==
  /\ phase = "up" /\ o \in HostOps /\ opLock[o] = "nobody" /\ ~Known(o)
  /\ tomb' = [tomb EXCEPT ![o] = "rejected"]
  /\ UNCHANGED <<row, attempt, leaseVars, nextAt, expires, actuatingAt, lockVars, workerVars,
                 scanVars, envVars, writes>>

\* compact_pty_terminal_*: once retention is over the row goes, if its
\* tombstone says the same.
Compact(o) ==
  /\ phase = "up" /\ row[o] \in Terminal /\ tomb[o] = row[o] /\ opLock[o] = "nobody"
  /\ row' = [row EXCEPT ![o] = "none"]
  /\ UNCHANGED <<tomb, attempt, leaseVars, nextAt, expires, actuatingAt, lockVars, workerVars,
                 scanVars, envVars, writes>>
-----------------------------------------------------------------------------
(* The worker, dispatch_accepted_operation.                                *)

\* Returning drops every guard.
Release(w) ==
  /\ opLock' = [o \in Ops |-> IF opLock[o] = w THEN "nobody" ELSE opLock[o]]
  /\ targetLock' = [t \in Targets |-> IF targetLock[t] = w THEN "nobody" ELSE targetLock[t]]

Goto(w, next) ==
  /\ pc' = [pc EXCEPT ![w] = next]
  /\ stamp' = [stamp EXCEPT ![w] = IF next \in Calls THEN now ELSE 0]
  /\ job' = IF next = "idle" THEN [job EXCEPT ![w] = "none"] ELSE job

\* On to the next step; "idle" is a return.
Continue(w, next) ==
  /\ Goto(w, next)
  /\ IF next = "idle" THEN Release(w) ELSE UNCHANGED lockVars

\* A worker's step that leaves the rows alone.
Step(w, from, next) ==
  /\ pc[w] = from /\ Continue(w, next)
  /\ UNCHANGED <<rowVars, scanVars, envVars, writes>>

\* A call either succeeds, or reports a failure: with no effect, or with its
\* effect committed all the same.
Call(w, name, tx, ok, failed) ==
  /\ pc[w] = name
  /\ \/ tx /\ Continue(w, ok)
     \/ tx /\ \E next \in failed : Continue(w, next)
     \/ UNCHANGED rowVars /\ \E next \in failed : Continue(w, next)
  /\ UNCHANGED <<scanVars, envVars, writes>>

\* spawn_pty_worker, for a due candidate whose target has no worker.  The poller's
\* recovery may be under way.  The host plane dispatches an accepted operation
\* directly.
Spawn(w, o) ==
  /\ phase = "up" /\ pc[w] = "idle"
  /\ \/ o \in HostOps /\ row[o] \in NonTerminal
     \/ /\ o \notin HostOps /\ attempt[o] < MaxAttempts
        /\ \/ row[o] \in {"queued", "retry"} /\ nextAt[o] <= now
           \/ row[o] = "preparing" /\ leaseUntil[o] <= now
        /\ \A v \in Workers :
             pc[v] # "idle" /\ job[v] \notin HostOps => TargetOf[job[v]] # TargetOf[o]
  /\ pc' = [pc EXCEPT ![w] = "start"] /\ job' = [job EXCEPT ![w] = o]
  /\ UNCHANGED <<rowVars, lockVars, stamp, scanVars, envVars, writes>>

\* try_operation_lock and try_register.
TryOperationLock(w) ==
  \/ /\ pc[w] = "start" /\ opLock[job[w]] = "nobody"
     /\ opLock' = [opLock EXCEPT ![job[w]] = w]
     /\ Goto(w, "admit")
     /\ UNCHANGED <<targetLock, rowVars, scanVars, envVars, writes>>
  \/ opLock[job[w]] # "nobody" /\ Step(w, "start", "idle")

\* The row is not terminal, no response close holds the target and restore is
\* over; or the worker returns.
Admit(w) ==
  \/ row[job[w]] \in NonTerminal /\ Step(w, "admit", "target")
  \/ Step(w, "admit", "idle")

\* A target taken over from whoever holds it.
TakeTargetOver(w, from, next) ==
  /\ pc[w] = from /\ targetLock' = [targetLock EXCEPT ![TargetOf[job[w]]] = w]
  /\ Goto(w, next)
  /\ UNCHANGED <<opLock, rowVars, scanVars, envVars, writes>>

TakeTarget(w, from, next) ==
  /\ pc[w] = from /\ targetLock[TargetOf[job[w]]] = "nobody"
  /\ targetLock' = [targetLock EXCEPT ![TargetOf[job[w]]] = w]
  /\ Goto(w, next)
  /\ UNCHANGED <<opLock, rowVars, scanVars, envVars, writes>>

\* try_target_lock and acquire_initial_dispatch_target: a contended stripe
\* ends the dispatch, waiting for the exact guard ends at the deadline.
AcquireTarget(w) ==
  \/ expires[job[w]] > now /\ TakeTarget(w, "target", "claim")
  \/ targetLock[TargetOf[job[w]]] # "nobody" /\ Step(w, "target", "idle")
  \/ expires[job[w]] <= now /\ Step(w, "target", "reject")

Claim(w) ==
  Call(w, "claim", ClaimPtyInput(job[w], w, stamp[w]), "refresh", {"idle"})

\* pty_input_lease_failure_code: Expired is final, LeaseLost is retried.
LeaseFailure(o) == IF expires[o] <= now THEN "reject" ELSE "retry"

\* refresh_pty_claim_for_resume, after the claim and around a reacquisition.
Refresh(w) ==
  Call(w, "refresh", RenewPtyInputLease(job[w], w, stamp[w]),
       IF targetLock[TargetOf[job[w]]] = w THEN "select" ELSE "reacquire",
       {"retry", "reject", LeaseFailure(job[w])}
         \cup (IF row[job[w]] \in Terminal THEN {"idle"} ELSE {}))

\* select_pty_dispatch_session: a session is selected or spawned, or the target
\* is let go to wait for a replacement, or the code is retryable, or not, or
\* the work is retained elsewhere.
Select(w) ==
  \/ \E next \in {"ready", "retry", "reject", "idle"} : Step(w, "select", next)
  \/ /\ pc[w] = "select" /\ Goto(w, "refresh")
     /\ targetLock' = [targetLock EXCEPT ![TargetOf[job[w]]] = "nobody"]
     /\ UNCHANGED <<opLock, rowVars, scanVars, envVars, writes>>

\* reacquire_pty_dispatch_target, until the deadline.
Reacquire(w) ==
  \/ expires[job[w]] > now /\ TakeTarget(w, "reacquire", "refresh")
  \/ Step(w, "reacquire", "retry")
  \/ expires[job[w]] <= now /\ Step(w, "reacquire", "reject")

\* ready_dispatch: the session becomes ready, then the lease is renewed.
Ready(w) == \E next \in {"renew", "retry", "reject"} : Step(w, "ready", next)

Renew(w) ==
  Call(w, "renew", RenewPtyInputLease(job[w], w, stamp[w]), "writer", {LeaseFailure(job[w])})

\* dispatch_writer, dispatch_fresh_binding and dispatch_final_authority.
Writer(w) == \E next \in {"final", "retry", "reject"} : Step(w, "writer", next)

\* dispatch_final_lease_failure: the last renewal; the heartbeat is stopped.
FinalLease(w) ==
  Call(w, "final", RenewPtyInputLease(job[w], w, stamp[w]), "begin", {LeaseFailure(job[w])})

\* dispatch_payload.  After a commit that failed, the status read back tells an
\* ambiguous commit; a read that fails too is taken for a failure.
Begin(w) ==
  /\ pc[w] = "begin"
  /\ \/ /\ BeginPtyActuating(job[w], w, stamp[w])
        /\ \E next \in {"boundary", "lost", "reject"} : Continue(w, next)
     \/ UNCHANGED rowVars /\ Continue(w, "reject")
  /\ UNCHANGED <<scanVars, envVars, writes>>

\* dispatch_post_authority and dispatch_boundary_authority fail, or the
\* boundary check does.
BoundaryFails(w) == Step(w, "boundary", "lost")

\* dispatch_boundary_write: the boundary check, then the first write, with no
\* await in between.  The write may fail part way.
Write(w) ==
  /\ pc[w] = "boundary" /\ expires[job[w]] > now
  /\ \E next \in {"submit", "lost"} : Continue(w, next)
  /\ writes' = [writes EXCEPT ![job[w]] = @ + 1]
  /\ UNCHANGED <<rowVars, scanVars, envVars>>

\* submit_exact_agent_input_with_permit: the required Enter.
Submit(w) == \E next \in {"record", "lost"} : Step(w, "submit", next)

Record(w) == Call(w, "record", Terminalize(job[w], "injected"), "idle", {"idle"})

Lose(w) == Call(w, "lost", Terminalize(job[w], "indeterminate"), "idle", {"idle"})

\* finish_pty_input_before_boundary: a retry that fails turns into a rejection.
Retry(w) == Call(w, "retry", RetryPtyInput(job[w], w, stamp[w]), "idle", {"reject"})

\* reject_pty_input_before_boundary
Reject(w) == Call(w, "reject", Terminalize(job[w], "rejected"), "idle", {"idle"})

\* PreparationHeartbeatGuard, from the claim to the final renewal.
Heartbeat(w) ==
  /\ pc[w] \in {"refresh", "select", "reacquire", "ready", "renew", "writer", "final"}
  /\ RenewPtyInputLease(job[w], w, now)
  /\ UNCHANGED <<lockVars, workerVars, scanVars, envVars, writes>>

\* await_pty_input_before_deadline: a shutdown ends a wait before the boundary.
\* The row is left to recovery.
Stopped(w) ==
  /\ phase = "stopping"
  /\ \E from \in {"target", "select", "reacquire", "ready", "writer"} : Step(w, from, "idle")
-----------------------------------------------------------------------------
(* Recovery.                                                               *)

\* A query that overlooks orphaned actuations.
CandidateBefore(o, t) ==
  \/ row[o] \in Before /\ expires[o] <= t
  \/ row[o] = "preparing" /\ leaseUntil[o] <= t

\* The query of recover_pty_input_runtime.
RuntimeCandidate(o, t) ==
  \/ row[o] = "actuating" /\ actuatingAt[o] + Orphan < t
  \/ row[o] \in Before /\ expires[o] <= t
  \/ row[o] = "preparing" /\ leaseUntil[o] <= t

\* The query runs before any operation lock is held.  The snapshot of active
\* operations is left out: what it excludes, the lock excludes as well.
RecoveryScan ==
  /\ phase = "up" /\ scan = NoScan
  /\ \E o \in Ops : RuntimeCandidate(o, now)
  /\ scan' = [o \in Ops |-> IF RuntimeCandidate(o, now) THEN row[o] ELSE "none"]
  /\ scanAttempt' = [o \in Ops |-> IF RuntimeCandidate(o, now) THEN attempt[o] ELSE 0]
  /\ scanAt' = now
  /\ UNCHANGED <<rowVars, lockVars, workerVars, envVars, writes>>

\* What recovery decides for candidate o, from what it has read.
Verdict(o) ==
  CASE scan[o] = "actuating" -> "indeterminate"
    [] scan[o] # "actuating" /\ expires[o] <= scanAt -> "rejected"
    [] OTHER -> IF scanAttempt[o] >= MaxAttempts THEN "rejected" ELSE "retry"

\* What its transaction checks again.
VerdictStands(o) ==
  IF Verdict(o) = "retry" THEN row[o] = "preparing" /\ leaseUntil[o] <= scanAt
  ELSE Allowed(o, Verdict(o))

RecoveryTx(o) ==
  IF Verdict(o) = "retry" THEN Reschedule(o, scanAt) ELSE Terminalize(o, Verdict(o))

Forget(o) ==
  /\ scan' = [scan EXCEPT ![o] = "none"]
  /\ scanAttempt' = [scanAttempt EXCEPT ![o] = 0]
  /\ UNCHANGED scanAt

Abandon == scan' = NoScan /\ scanAttempt' = [o \in Ops |-> 0] /\ UNCHANGED scanAt

\* One candidate: skipped while its lock is held, or settled.  A row that has
\* changed meanwhile ends the pass with an error, unless it ended just so.
Recover(o) ==
  /\ phase = "up" /\ scan[o] # "none"
  /\ \/ opLock[o] # "nobody" /\ Forget(o) /\ UNCHANGED rowVars
     \/ opLock[o] = "nobody" /\ VerdictStands(o) /\ RecoveryTx(o) /\ Forget(o)
     \/ opLock[o] = "nobody" /\ ~VerdictStands(o) /\ UNCHANGED rowVars /\ (Forget(o) \/ Abandon)
  /\ UNCHANGED <<lockVars, workerVars, envVars, writes>>

StartupCandidate(o) ==
  \/ row[o] \in {"preparing", "actuating"}
  \/ row[o] \in {"queued", "retry"} /\ expires[o] <= now

\* A restart that prepares again whatever was under way.
StartupRetriesAll(o) == StartupCandidate(o) /\ Reschedule(o, now)

\* recover_pty_input_startup, for one row.
StartupTx(o) ==
  /\ StartupCandidate(o)
  /\ CASE row[o] = "actuating" -> Terminalize(o, "indeterminate")
       [] row[o] # "actuating" /\ expires[o] <= now -> Terminalize(o, "rejected")
       [] OTHER -> IF attempt[o] >= MaxAttempts THEN Terminalize(o, "rejected")
                   ELSE Reschedule(o, now)

RecoverAtStartup(o) ==
  /\ phase = "recovering" /\ StartupTx(o)
  /\ UNCHANGED <<lockVars, workerVars, scanVars, envVars, writes>>
-----------------------------------------------------------------------------
(* The process and the clock.                                              *)

StartupDone ==
  /\ phase = "recovering" /\ \A o \in Ops : ~StartupCandidate(o)
  /\ phase' = "up"
  /\ UNCHANGED <<rowVars, lockVars, workerVars, scanVars, now, crashes, writes>>

Shutdown ==
  /\ phase = "up" /\ crashes < MaxCrashes /\ phase' = "stopping"
  /\ UNCHANGED <<rowVars, lockVars, workerVars, scanVars, now, crashes, writes>>

\* The process ends, by a crash or at the end of a shutdown: every thread, lock
\* and pending call with it.  The database stays.
ProcessEnds ==
  /\ phase # "down" /\ crashes < MaxCrashes
  /\ phase' = "down" /\ crashes' = crashes + 1
  /\ opLock' = [o \in Ops |-> "nobody"] /\ targetLock' = [t \in Targets |-> "nobody"]
  /\ pc' = [w \in Workers |-> "idle"] /\ job' = [w \in Workers |-> "none"]
  /\ stamp' = [w \in Workers |-> 0]
  /\ Abandon
  /\ UNCHANGED <<rowVars, now, writes>>

Restart ==
  /\ phase = "down" /\ phase' = "recovering"
  /\ UNCHANGED <<rowVars, lockVars, workerVars, scanVars, now, crashes, writes>>

Tick ==
  /\ now < MaxNow /\ now' = now + 1
  /\ \A w \in Workers : pc[w] \in Calls => now < stamp[w] + MaxDelay
  /\ UNCHANGED <<rowVars, lockVars, workerVars, scanVars, phase, crashes, writes>>
-----------------------------------------------------------------------------
Worker(w) == pc[w] # "idle" /\
  \/ TryOperationLock(w) \/ Admit(w) \/ AcquireTarget(w) \/ Claim(w) \/ Refresh(w)
  \/ Select(w) \/ Reacquire(w) \/ Ready(w) \/ Renew(w) \/ Writer(w) \/ FinalLease(w)
  \/ Begin(w) \/ BoundaryFails(w) \/ Write(w) \/ Submit(w) \/ Record(w) \/ Lose(w)
  \/ Retry(w) \/ Reject(w) \/ Stopped(w)

Store(o) ==
  \/ Enqueue(o) \/ ExpireForAdmission(o) \/ RecordHostRejection(o) \/ Compact(o)
  \/ Recover(o) \/ RecoverAtStartup(o)

Next ==
  \/ \E w \in Workers : Worker(w) \/ Heartbeat(w) \/ \E o \in Ops : Spawn(w, o)
  \/ \E o \in Ops : Store(o)
  \/ RecoveryScan \/ StartupDone \/ Shutdown \/ ProcessEnds \/ Restart \/ Tick

Spec == Init /\ [][Next]_vars

\* A started worker is polled and its awaits end: each one before the boundary has
\* the deadline, the one for the end of the startup restore excepted.  Recovery is
\* run by the mailbox poller at the top of each of its cycles, whether or not the
\* API server runs, and by the dispatcher as well; the poller's deliveries are
\* detached workers, so one that is retained does not hold a cycle up.  A stopped
\* process ends and is started again, and time passes.  The passes of recovery go on
\* every 3 s, and a dispatch that finds nothing to claim is over long before the next
\* one, so again and again a pass begins with no worker about, and comes to an
\* operation that nobody holds: strong fairness of both.
Fairness ==
  /\ WF_vars(Tick) /\ WF_vars(StartupDone) /\ WF_vars(Restart)
  /\ WF_vars(phase = "stopping" /\ ProcessEnds)
  /\ SF_vars(RecoveryScan /\ \A w \in Workers : pc[w] = "idle")
  /\ \A w \in Workers : WF_vars(Worker(w))
  /\ \A o \in Ops : /\ WF_vars(Recover(o)) /\ WF_vars(RecoverAtStartup(o))
                   /\ SF_vars(opLock[o] = "nobody" /\ Recover(o))

FairSpec == Spec /\ Fairness
-----------------------------------------------------------------------------
(* Properties.                                                             *)

RowsOK ==
  /\ row \in [Ops -> Status] /\ tomb \in [Ops -> {"none"} \cup Terminal]
  /\ attempt \in [Ops -> Nat] /\ owner \in [Ops -> Workers \cup {"nobody"}]
  /\ leaseUntil \in [Ops -> Nat] /\ nextAt \in [Ops -> Nat]
  /\ expires \in [Ops -> Nat] /\ actuatingAt \in [Ops -> Nat]

WorkersOK ==
  /\ opLock \in [Ops -> Workers \cup {"nobody"}]
  /\ targetLock \in [Targets -> Workers \cup {"nobody"}]
  /\ pc \in [Workers -> Steps] /\ stamp \in [Workers -> Nat]
  /\ job \in [Workers -> Ops \cup {"none"}]
  /\ \A w \in Workers : pc[w] # "idle" => job[w] \in Ops

ScanOK ==
  /\ scan \in [Ops -> {"none"} \cup NonTerminal] /\ scanAttempt \in [Ops -> Nat]
  /\ scanAt \in Nat

EnvOK ==
  /\ phase \in {"up", "stopping", "down", "recovering"}
  /\ now \in Nat /\ crashes \in Nat /\ writes \in [Ops -> Nat]

\* The types of the store's columns, the locks, the workers and the scan.
TypeOK == RowsOK /\ WorkersOK /\ ScanOK /\ EnvOK

\* At most once: however often a request is repeated, retried, recovered or
\* interrupted, its text is written into a terminal at most once.
AtMostOnce == \A o \in Ops : writes[o] <= 1

\* What the sender is told is true: a rejected operation was never written, an
\* injected one was.
OutcomeIsTrue ==
  \A o \in Ops : /\ tomb[o] = "rejected" => writes[o] = 0
                 /\ tomb[o] = "injected" => writes[o] = 1

\* A row in 'retry' still has an attempt left; without one neither the due
\* query nor the claim would take it, and it would sit there until it expires.
\* It takes MaxDelay < Lease: a claim that waits for its thread longer than the
\* lease it is to write is out of date when it is written.
RetryHasAttempts ==
  \A o \in Ops : /\ attempt[o] <= MaxAttempts
                 /\ row[o] = "retry" => attempt[o] < MaxAttempts

\* Between the check at the boundary and the last Enter no other operation
\* types into the same target.
OneWriterPerTarget ==
  \A v, w \in Workers :
    /\ pc[v] \in {"boundary", "submit"} /\ pc[w] \in {"boundary", "submit"}
    /\ TargetOf[job[v]] = TargetOf[job[w]]
    => v = w

\* An accepted operation does not stay open: it ends, through a worker, its
\* expiry or recovery, also when workers die and the process is restarted.
EveryOperationEnds ==
  \A o \in Ops : row[o] \in NonTerminal ~> tomb[o] # "none"
-----------------------------------------------------------------------------
\* What the sender can know of an operation.
Outcome ==
  [o \in Ops |-> IF tomb[o] # "none" THEN tomb[o]
                 ELSE IF row[o] = "none" THEN "absent"
                 ELSE IF row[o] \in Before THEN "accepted" ELSE "crossed"]

Contract == INSTANCE InjectionContract WITH outcome <- Outcome

\* The store, the workers and recovery together keep the contract of an
\* at-most-once injection: nothing is written but between the commit of
\* 'actuating' and the recorded outcome, and no outcome is revised.
ImplementsContract == Contract!Spec
=============================================================================
