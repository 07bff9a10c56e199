----------------------------- MODULE MessageBus -----------------------------
(***************************************************************************)
(* The durable message bus behind POST /api/v1/send: the messages table    *)
(* (src-tauri/src/api/message_store/delivery.rs), the dispatcher that      *)
(* leases due rows and delivers them (src-tauri/src/api/dispatcher.rs),    *)
(* and the API server whose starts and stops begin and end dispatchers     *)
(* (src-tauri/src/api.rs, web_server.rs).                                  *)
(*                                                                         *)
(* A row is named by its idempotency key (sender_fqn, op_id); rows are     *)
(* numbered as they are created, so <<o, created[o]>> is a message_id and  *)
(* the numbers order the rows as created_at does.  Times are kept as the   *)
(* time that remains: wait[o] is the rest of next_attempt_at while the row *)
(* is queued or in retry, of lease_until while it is being delivered, and  *)
(* of the retention once it is terminal.  Each call of the                 *)
(* store is one transaction, hence one step.  What happens inside a        *)
(* delivery is reduced to its outcome.  The menu guard, the typing hold    *)
(* and a response close are conditions of the target that come and go at   *)
(* any time; a real close also waits until its target has no message left. *)
(***************************************************************************)
EXTENDS Integers, FiniteSets

CONSTANTS Ops,          \* idempotency keys (sender_fqn, op_id)
          Targets,      \* agents a message may be sent to
          TargetOf,     \* TargetOf[o]: the target_fqn of o's request
          Dispatchers,  \* run_dispatcher tasks that may live at the same time
          NoServer,     \* no API server task is stored
          Batch,        \* DispatcherConfig.batch_limit
          MaxAttempts,  \* DispatcherConfig.max_attempts
          Lease,        \* DispatcherConfig.lease_for, in clock steps
          Backoff,      \* the retry backoff, in clock steps
          Retention,    \* DispatcherConfig.retention, in clock steps
          MaxRows,      \* bound: rows created
          MaxPurges,    \* bound: purges
          MaxFaults     \* bound: stops, crashes, aborts, failed starts and store calls

ASSUME TargetAssumption == TargetOf \in [Ops -> Targets]
ASSUME ServerAssumption == NoServer \notin Dispatchers
ASSUME LimitsAssumption ==
  /\ Batch \in Nat \ {0}
  /\ MaxAttempts \in Nat \ {0}
  /\ Lease \in Nat /\ Backoff \in Nat /\ Retention \in Nat
ASSUME BoundsAssumption == MaxRows \in Nat /\ MaxPurges \in Nat /\ MaxFaults \in Nat

VARIABLES
  status,    \* messages.status; "absent" when the key has no row
  created,   \* messages.message_id and created_at; 0 before the key's first row
  attempt,   \* messages.attempt
  wait,      \* time left of next_attempt_at, lease_until or the retention
  rows,      \* rows created so far
  server,    \* ApiServerHandle: the dispatcher of the stored server task
  token,     \* the CancellationToken of a dispatcher: "run" or "cancelled"
  phase,     \* where a dispatcher stands in its loop
  batch,     \* the leased message ids a dispatcher has yet to finish
  outcome,   \* what the delivery of the oldest of them came to
  orphans,   \* store calls of aborted dispatchers that are still to run
  closing,   \* targets a response close is closing
  held,      \* targets whose menu guard or typing hold defers a wake
  purging,   \* targets of the purge that holds the lease
  purges,    \* purges so far
  faults,    \* faults so far
  writes,    \* history: times the current row's text was typed, up to 2
  failures,  \* history: failed deliveries of the current row, up to MaxAttempts
  lost,      \* history: "yes" once the record of a delivery may be wrong
  burned     \* history: "yes" once a purge has cost the row an attempt

rowVars == <<status, created, attempt, wait, rows>>
taskVars == <<server, token, phase, batch, outcome, orphans>>
envVars == <<closing, held, purging, purges>>
histVars == <<writes, failures, lost, burned>>
vars == <<status, created, attempt, wait, rows, server, token, phase, batch, outcome, orphans,
          closing, held, purging, purges, faults, writes, failures, lost, burned>>

Pending == {"queued", "retry", "delivering"}
Terminal == {"delivered", "poisoned"}
Outcomes == {"delivered", "deferred", "failed"}
None == "none"

\* off; at the select of the loop; about to lease; about to admit the delivery of
\* the batch's oldest message, typing it, in a delivery that never returns, about
\* to record its outcome; about to reap.
Phases == {"off", "top", "lease", "deliver", "type", "retained", "mark", "reap"}
Working == {"deliver", "type", "retained", "mark"}

\* The message_id of o's row; m is the id of the row its key has now.
Id(o) == <<o, created[o]>>
Current(m) == status[m[1]] # "absent" /\ created[m[1]] = m[2]

\* A dispatcher or a store call in flight other than d still works on o.
Elsewhere(d, o) ==
  \/ \E e \in Dispatchers \ {d} : Id(o) \in batch[e]
  \/ \E result \in Outcomes : <<Id(o), result>> \in orphans

\* m is the message d works on: its batch goes from the oldest to the newest.
Oldest(d, m) == m \in batch[d] /\ \A n \in batch[d] : m[2] <= n[2]

UpTo(bound, n) == IF n < bound THEN n ELSE bound

Init ==
  /\ status = [o \in Ops |-> "absent"]
  /\ created = [o \in Ops |-> 0]
  /\ attempt = [o \in Ops |-> 0]
  /\ wait = [o \in Ops |-> 0]
  /\ rows = 0
  /\ server = NoServer
  /\ token = [d \in Dispatchers |-> "cancelled"]
  /\ phase = [d \in Dispatchers |-> "off"]
  /\ batch = [d \in Dispatchers |-> {}]
  /\ outcome = [d \in Dispatchers |-> None]
  /\ orphans = {}
  /\ closing = {} /\ held = {} /\ purging = {}
  /\ purges = 0 /\ faults = 0
  /\ writes = [o \in Ops |-> 0]
  /\ failures = [o \in Ops |-> 0]
  /\ lost = [o \in Ops |-> "no"]
  /\ burned = [o \in Ops |-> "no"]

-----------------------------------------------------------------------------
(* Senders. *)

\* MessageStore::enqueue of a key that has no row.  A replay of one that has
\* returns it unchanged (INSERT OR IGNORE), which is a stuttering step.
Enqueue(o) ==
  /\ status[o] = "absent"
  /\ rows < MaxRows /\ rows' = rows + 1
  /\ status' = [status EXCEPT ![o] = "queued"]
  /\ created' = [created EXCEPT ![o] = rows + 1]
  /\ attempt' = [attempt EXCEPT ![o] = 0]
  /\ wait' = [wait EXCEPT ![o] = 0]
  /\ writes' = [writes EXCEPT ![o] = 0]
  /\ failures' = [failures EXCEPT ![o] = 0]
  /\ lost' = [lost EXCEPT ![o] = "no"]
  /\ burned' = [burned EXCEPT ![o] = "no"]
  /\ UNCHANGED <<taskVars, envVars, faults>>

-----------------------------------------------------------------------------
(* The API server. *)

Start(d, tok) ==
  /\ phase[d] = "off"
  /\ phase' = [phase EXCEPT ![d] = "top"]
  /\ token' = [token EXCEPT ![d] = tok]
  /\ UNCHANGED <<rowVars, batch, outcome, orphans, envVars, histVars>>

\* start_api_server: the socket is bound and the task is stored.
StartServer(d) ==
  /\ server = NoServer
  /\ Start(d, "run")
  /\ server' = d
  /\ UNCHANGED faults

\* A start whose bind fails, or that finds another task stored: its dispatcher
\* was spawned first, and is cancelled.
StartFails(d) ==
  /\ faults < MaxFaults /\ faults' = faults + 1
  /\ Start(d, "cancelled")
  /\ UNCHANGED server

\* stop_api_server.  When its timeout ends before that of the server task, the
\* task is aborted and its dispatcher goes on alone until it sees the token.
StopServer ==
  /\ server # NoServer
  /\ faults < MaxFaults /\ faults' = faults + 1
  /\ token' = [token EXCEPT ![server] = "cancelled"]
  /\ server' = NoServer
  /\ UNCHANGED <<rowVars, phase, batch, outcome, orphans, envVars, histVars>>

\* The history of message m: it was typed once more; nothing will record that.
Typed(m) == IF Current(m) THEN [writes EXCEPT ![m[1]] = UpTo(2, @ + 1)] ELSE writes
Unrecorded(m) == IF Current(m) THEN [lost EXCEPT ![m[1]] = "yes"] ELSE lost

\* wait_for_dispatcher runs out of time and aborts the dispatcher.  A delivery
\* under way may have typed its text; a store call under way runs to its end on
\* its own thread, or was not made yet.  A lease_due that outlives its dispatcher
\* is LeaseDue with the abort after it.
Abort(d) ==
  /\ token[d] = "cancelled" /\ phase[d] # "off"
  /\ faults < MaxFaults /\ faults' = faults + 1
  /\ phase' = [phase EXCEPT ![d] = "off"]
  /\ batch' = [batch EXCEPT ![d] = {}]
  /\ outcome' = [outcome EXCEPT ![d] = None]
  /\ \/ phase[d] # "mark" /\ UNCHANGED <<writes, orphans, lost>>
     \/ \E m \in batch[d] :
          /\ Oldest(d, m)
          /\ \/ phase[d] = "type" /\ writes' = Typed(m) /\ lost' = Unrecorded(m) /\ UNCHANGED orphans
             \/ /\ phase[d] = "mark"
                /\ orphans' \in {orphans, orphans \cup {<<m, outcome[d]>>}}
                /\ lost' = IF outcome[d] = "delivered" THEN Unrecorded(m) ELSE lost
                /\ UNCHANGED writes
  /\ UNCHANGED <<rowVars, server, token, envVars, failures, burned>>

\* o's row was delivered, and the store has yet to hear of it.
DeliveredUnstored(o) ==
  \/ \E d \in Dispatchers : outcome[d] = "delivered" /\ Oldest(d, Id(o))
  \/ <<Id(o), "delivered">> \in orphans

\* The process dies; the table stays.  Any text under way may have been typed.
Crash ==
  /\ faults < MaxFaults /\ faults' = faults + 1
  /\ server' = NoServer
  /\ token' = [d \in Dispatchers |-> "cancelled"]
  /\ phase' = [d \in Dispatchers |-> "off"]
  /\ batch' = [d \in Dispatchers |-> {}]
  /\ outcome' = [d \in Dispatchers |-> None]
  /\ orphans' = {}
  /\ closing' = {} /\ held' = {} /\ purging' = {}
  /\ \E typed \in SUBSET {o \in Ops : status[o] # "absent"
                              /\ \E d \in Dispatchers : phase[d] = "type" /\ Oldest(d, Id(o))} :
       /\ writes' = [o \in Ops |-> IF o \in typed THEN UpTo(2, writes[o] + 1) ELSE writes[o]]
       /\ lost' = [o \in Ops |-> IF o \in typed \/ DeliveredUnstored(o) THEN "yes" ELSE lost[o]]
  /\ UNCHANGED <<rowVars, purges, failures, burned>>

-----------------------------------------------------------------------------
(* One tick of run_dispatcher. *)

\* The loop's select: a cancelled token ends the task ...
Exit(d) ==
  /\ phase[d] = "top" /\ token[d] = "cancelled"
  /\ phase' = [phase EXCEPT ![d] = "off"]
  /\ UNCHANGED <<rowVars, server, token, batch, outcome, orphans, envVars, faults, histVars>>

\* ... but select! takes either branch when both are ready.  A tick that finds a
\* purge skips the dispatch and only reaps.
BeginTick(d) ==
  /\ phase[d] = "top"
  /\ \/ token[d] = "run" /\ UNCHANGED faults
     \/ token[d] = "cancelled" /\ faults < MaxFaults /\ faults' = faults + 1
  /\ phase' = [phase EXCEPT ![d] = IF purging = {} THEN "lease" ELSE "reap"]
  /\ UNCHANGED <<rowVars, server, token, batch, outcome, orphans, envVars, histVars>>

\* The query without the lease, and without the status.
DueWhileLeased(o) == status[o] = "delivering" \/ (status[o] \in Pending /\ wait[o] = 0)
DueAnyStatus(o) == status[o] # "absent" /\ wait[o] = 0

\* The rows lease_due's query selects: due to be tried, or with a lease that
\* ran out.
Due(o) == status[o] \in Pending /\ wait[o] = 0

\* A batch of the oldest row only.
LeasedOldest ==
  {o \in Ops :
     /\ Due(o) /\ TargetOf[o] \notin closing
     /\ \A p \in Ops : Due(p) => created[o] <= created[p]}

\* The oldest Batch of them; a target that is closing is skipped after the LIMIT
\* has counted it.
Leased ==
  {o \in Ops :
     /\ Due(o) /\ TargetOf[o] \notin closing
     /\ Cardinality({p \in Ops : Due(p) /\ created[p] < created[o]}) < Batch}

TakeLease(d, taken) ==
  /\ status' = [o \in Ops |-> IF o \in taken THEN "delivering" ELSE status[o]]
  /\ wait' = [o \in Ops |-> IF o \in taken THEN Lease ELSE wait[o]]
  /\ batch' = [batch EXCEPT ![d] = {Id(o) : o \in taken}]
  /\ phase' = [phase EXCEPT ![d] = IF taken = {} THEN "reap" ELSE "deliver"]
  /\ lost' = [o \in Ops |->
       IF o \in taken /\ status[o] = "delivering" /\ wait[o] = 0 /\ Elsewhere(d, o)
         THEN "yes" ELSE lost[o]]

\* lease_due.
LeaseDue(d) ==
  /\ phase[d] = "lease"
  /\ TakeLease(d, Leased)
  /\ UNCHANGED <<created, attempt, rows, server, token, outcome, orphans, envVars, faults,
                 writes, failures, burned>>

\* A store call fails: dispatch_due_with returns and the tick goes on to reap.
\* The rows still in the batch stay 'delivering' until their lease runs out.
LeaseFails(d) ==
  /\ phase[d] = "lease"
  /\ faults < MaxFaults /\ faults' = faults + 1
  /\ phase' = [phase EXCEPT ![d] = "reap"]
  /\ UNCHANGED <<rowVars, server, token, batch, outcome, orphans, envVars, histVars>>

Outcome(d, result) ==
  /\ phase' = [phase EXCEPT ![d] = "mark"]
  /\ outcome' = [outcome EXCEPT ![d] = result]
  /\ UNCHANGED <<rowVars, server, token, batch, orphans, envVars, faults>>

\* The delivery of m fails; its row has one more failure behind it, which a
\* purge may have caused.
FailedDelivery(d, m, purged) ==
  /\ Outcome(d, "failed")
  /\ IF Current(m)
       THEN /\ failures' = [failures EXCEPT ![m[1]] = UpTo(MaxAttempts, @ + 1)]
            /\ burned' = IF purged THEN [burned EXCEPT ![m[1]] = "yes"] ELSE burned
       ELSE UNCHANGED <<failures, burned>>

\* begin_response_delivery finds the target closing.
Refused(d, m) ==
  /\ phase[d] = "deliver" /\ TargetOf[m[1]] \in closing
  /\ Outcome(d, "deferred")
  /\ UNCHANGED histVars

\* deliver_peer_wake's backstop: the target is being purged.
Purged(d, m) ==
  /\ phase[d] = "deliver" /\ TargetOf[m[1]] \in purging \ closing
  /\ FailedDelivery(d, m, TRUE)
  /\ UNCHANGED <<writes, lost>>

\* The wake goes on to its target.
Admitted(d, m) ==
  /\ phase[d] = "deliver" /\ TargetOf[m[1]] \notin purging \cup closing
  /\ phase' = [phase EXCEPT ![d] = "type"]
  /\ UNCHANGED <<rowVars, server, token, batch, outcome, orphans, envVars, faults, histVars>>

\* The menu guard, the typing hold or a close stops it before its text: "not yet".
Deferred(d, m) ==
  /\ phase[d] = "type" /\ TargetOf[m[1]] \in closing \cup held
  /\ Outcome(d, "deferred")
  /\ UNCHANGED histVars

\* The text is typed and submitted.
Delivered(d, m) ==
  /\ phase[d] = "type" /\ TargetOf[m[1]] \notin closing \cup held
  /\ Outcome(d, "delivered")
  /\ writes' = Typed(m)
  /\ UNCHANGED <<failures, lost, burned>>

\* It fails for any other reason: no such target, no session to be started, or
\* the Enter fails after the text was typed.
Failed(d, m) ==
  /\ phase[d] = "type"
  /\ FailedDelivery(d, m, FALSE)
  /\ \/ UNCHANGED <<writes, lost>>
     \/ /\ TargetOf[m[1]] \notin closing \cup held
        /\ writes' = Typed(m) /\ lost' = Unrecorded(m)

\* The replacement of its session is retained, before its text or after it:
\* deliver_peer_wake awaits pending(), and the dispatcher awaits it for ever.
Retained(d, m) ==
  /\ phase[d] = "type"
  /\ phase' = [phase EXCEPT ![d] = "retained"]
  /\ \/ UNCHANGED <<writes, lost>>
     \/ /\ TargetOf[m[1]] \notin closing \cup held
        /\ writes' = Typed(m) /\ lost' = Unrecorded(m)
  /\ UNCHANGED <<rowVars, server, token, batch, outcome, orphans, envVars, faults, failures, burned>>

SetRow(o, st, n, w) ==
  /\ status' = [status EXCEPT ![o] = st]
  /\ attempt' = [attempt EXCEPT ![o] = n]
  /\ wait' = [wait EXCEPT ![o] = w]

\* mark_delivered, mark_delivery_failed and release_delivery_lease write the row
\* whatever its status and whoever leased it.
MarkDelivered(o) == SetRow(o, "delivered", attempt[o], Retention)

MarkDeliveryFailed(o) ==
  IF attempt[o] + 1 >= MaxAttempts
    THEN SetRow(o, "poisoned", attempt[o] + 1, Backoff + Retention)
    ELSE SetRow(o, "retry", attempt[o] + 1, Backoff)

\* A deferral that counts as an attempt.
ReleaseCountsAttempt(o) == MarkDeliveryFailed(o)

ReleaseDeliveryLease(o) == SetRow(o, "queued", attempt[o], 0)

Record(o, result) ==
  \/ result = "delivered" /\ MarkDelivered(o)
  \/ result = "failed" /\ MarkDeliveryFailed(o)
  \/ result = "deferred" /\ ReleaseDeliveryLease(o)

\* The outcome recorded for the newest message of the batch.
MarkNewest(d, m) ==
  /\ phase[d] = "mark" /\ Current(m)
  /\ \E n \in batch[d] : (\A k \in batch[d] : k[2] <= n[2]) /\ Record(n[1], outcome[d])
  /\ batch' = [batch EXCEPT ![d] = @ \ {m}]
  /\ outcome' = [outcome EXCEPT ![d] = None]
  /\ phase' = [phase EXCEPT ![d] = IF batch[d] = {m} THEN "reap" ELSE "deliver"]
  /\ UNCHANGED <<created, rows, server, token, orphans, envVars, faults, histVars>>

\* The outcome is recorded and the batch goes on.
Mark(d, m) ==
  /\ phase[d] = "mark" /\ Current(m)
  /\ Record(m[1], outcome[d])
  /\ batch' = [batch EXCEPT ![d] = @ \ {m}]
  /\ outcome' = [outcome EXCEPT ![d] = None]
  /\ phase' = [phase EXCEPT ![d] = IF batch[d] = {m} THEN "reap" ELSE "deliver"]
  /\ UNCHANGED <<created, rows, server, token, orphans, envVars, faults, histVars>>

\* A failed call that keeps the batch.
MarkFailsKeepsBatch(d, m) ==
  /\ phase[d] = "mark"
  /\ faults < MaxFaults /\ faults' = faults + 1
  /\ outcome' = [outcome EXCEPT ![d] = None]
  /\ phase' = [phase EXCEPT ![d] = "reap"]
  /\ UNCHANGED <<rowVars, server, token, batch, orphans, envVars, histVars>>

\* The call fails, or finds the row reaped (its audit entry has no row to refer
\* to): the rest of the batch is dropped.
MarkFails(d, m) ==
  /\ phase[d] = "mark"
  /\ \/ ~Current(m) /\ UNCHANGED faults
     \/ faults < MaxFaults /\ faults' = faults + 1
  /\ batch' = [batch EXCEPT ![d] = {}]
  /\ outcome' = [outcome EXCEPT ![d] = None]
  /\ phase' = [phase EXCEPT ![d] = "reap"]
  /\ lost' = IF outcome[d] = "delivered" THEN Unrecorded(m) ELSE lost
  /\ UNCHANGED <<rowVars, server, token, orphans, envVars, writes, failures, burned>>

\* A store call an aborted dispatcher left behind.
OrphanMark(c) ==
  /\ c \in orphans
  /\ orphans' = orphans \ {c}
  /\ IF Current(c[1]) THEN Record(c[1][1], c[2]) ELSE UNCHANGED <<status, attempt, wait>>
  /\ UNCHANGED <<created, rows, server, token, phase, batch, outcome, envVars, faults, histVars>>

Expired(o) == status[o] \in Terminal /\ wait[o] = 0

\* maintain_terminal_messages: reap_terminal_before, or its failure.
Reap(d) ==
  /\ phase[d] = "reap"
  /\ phase' = [phase EXCEPT ![d] = "top"]
  /\ \/ status' = [o \in Ops |-> IF Expired(o) THEN "absent" ELSE status[o]] /\ UNCHANGED faults
     \/ faults < MaxFaults /\ faults' = faults + 1 /\ UNCHANGED status
  /\ UNCHANGED <<created, attempt, wait, rows, server, token, batch, outcome, orphans, envVars,
                 histVars>>

-----------------------------------------------------------------------------
(* The targets and the clock. *)

\* A menu opens or the user types; a response close begins or is settled.
Hold(t) ==
  /\ \/ held' = held \cup {t} /\ UNCHANGED closing
     \/ closing' = closing \cup {t} /\ UNCHANGED held
  /\ UNCHANGED <<rowVars, taskVars, purging, purges, faults, histVars>>

Unhold(t) ==
  /\ \/ held' = held \ {t} /\ UNCHANGED closing
     \/ closing' = closing \ {t} /\ UNCHANGED held
  /\ UNCHANGED <<rowVars, taskVars, purging, purges, faults, histVars>>

\* PurgeGuard::acquire, and the drop of its lease.
PurgeBegin(t) ==
  /\ purging = {} /\ purges < MaxPurges
  /\ purging' = {t} /\ purges' = purges + 1
  /\ UNCHANGED <<rowVars, taskVars, closing, held, faults, histVars>>

PurgeEnd ==
  /\ purging # {}
  /\ purging' = {}
  /\ UNCHANGED <<rowVars, taskVars, closing, held, purges, faults, histVars>>

Clock ==
  /\ \E o \in Ops : wait[o] > 0
  /\ wait' = [o \in Ops |-> IF wait[o] > 0 THEN wait[o] - 1 ELSE 0]
  /\ UNCHANGED <<status, created, attempt, rows, taskVars, envVars, faults, histVars>>

-----------------------------------------------------------------------------
Deliver(d, m) ==
  \/ Refused(d, m) \/ Purged(d, m) \/ Admitted(d, m)
  \/ Deferred(d, m) \/ Delivered(d, m) \/ Failed(d, m)

Work(d) ==
  \/ BeginTick(d) \/ LeaseDue(d) \/ Reap(d)
  \/ \E m \in batch[d] : Oldest(d, m) /\ (Deliver(d, m) \/ Mark(d, m) \/ MarkFails(d, m))

Next ==
  \/ \E o \in Ops : Enqueue(o)
  \/ \E d \in Dispatchers :
       \/ StartServer(d) \/ StartFails(d) \/ Abort(d) \/ Exit(d) \/ LeaseFails(d) \/ Work(d)
       \/ \E m \in batch[d] : Oldest(d, m) /\ Retained(d, m)
  \/ StopServer \/ Crash
  \/ \E c \in orphans : OrphanMark(c)
  \/ \E t \in Targets : Hold(t) \/ Unhold(t) \/ PurgeBegin(t)
  \/ PurgeEnd
  \/ Clock

Spec == Init /\ [][Next]_vars

\* The runtime keeps polling a dispatcher that was not cancelled, so that a store
\* call, and a delivery unless it is retained, comes to its end; a purge ends, and
\* time passes.  Nobody has to start the server or lift a hold, and nothing ends a
\* retained delivery.
FairSpec ==
  /\ Spec
  /\ \A d \in Dispatchers : WF_vars(Work(d))
  /\ WF_vars(PurgeEnd)
  /\ WF_vars(Clock)

-----------------------------------------------------------------------------
(* Properties. *)

\* The columns, the tasks and the history keep their types; a dispatcher has a
\* batch exactly while it delivers or records, and an outcome exactly while it
\* records (messages, run_dispatcher).
RowsOK ==
  /\ status \in [Ops -> Pending \cup Terminal \cup {"absent"}]
  /\ created \in [Ops -> 0..MaxRows]
  /\ attempt \in [Ops -> Nat]
  /\ wait \in [Ops -> Nat]
  /\ rows \in 0..MaxRows

TasksOK ==
  /\ server \in Dispatchers \cup {NoServer}
  /\ token \in [Dispatchers -> {"run", "cancelled"}]
  /\ phase \in [Dispatchers -> Phases]
  /\ batch \in [Dispatchers -> SUBSET (Ops \X (1..MaxRows))]
  /\ outcome \in [Dispatchers -> Outcomes \cup {None}]
  /\ orphans \in SUBSET ((Ops \X (1..MaxRows)) \X Outcomes)
  /\ \A d \in Dispatchers :
       /\ phase[d] \in Working <=> batch[d] # {}
       /\ phase[d] = "mark" <=> outcome[d] # None

EnvOK ==
  /\ closing \in SUBSET Targets /\ held \in SUBSET Targets /\ purging \in SUBSET Targets
  /\ purges \in 0..MaxPurges /\ faults \in 0..MaxFaults

HistoryOK ==
  /\ writes \in [Ops -> 0..2]
  /\ failures \in [Ops -> 0..MaxAttempts]
  /\ lost \in [Ops -> {"yes", "no"}]
  /\ burned \in [Ops -> {"yes", "no"}]

TypeOK == RowsOK /\ TasksOK /\ EnvOK /\ HistoryOK

\* A row that says 'delivered' was typed into its target, whichever dispatcher or
\* left-over store call said so (dispatch_due_with, mark_delivered).
DeliveredWasTyped == \A o \in Ops : status[o] = "delivered" => writes[o] > 0

\* A message is poisoned only after max_attempts failed deliveries; deferrals,
\* lost leases and restarts cost it nothing (mark_delivery_failed,
\* release_delivery_lease).
PoisonedHasFailed == \A o \in Ops : status[o] = "poisoned" => failures[o] = MaxAttempts

\* A message is typed a second time only when the record of an earlier delivery
\* may be wrong: the process died or the dispatcher was aborted in the middle of
\* it, its outcome could not be stored, its Enter failed after the text, or its
\* lease ran out while another dispatcher still held it (lease_due).
RetypedOnlyWhenLost ==
  [][\A o \in Ops : created'[o] = created[o] /\ writes[o] > 0 /\ writes'[o] > writes[o]
                      => lost[o] = "yes"]_vars

\* A terminal row only ever disappears, unless such a loss let two dispatchers
\* work on it (mark_delivered, mark_delivery_failed, release_delivery_lease).
TerminalUnlessLost ==
  [][\A o \in Ops : status[o] \in Terminal /\ status'[o] \notin {status[o], "absent"}
                      => lost[o] = "yes"]_vars

\* The server's dispatcher awaits a delivery that never returns.
Stalled == server # NoServer /\ phase[server] = "retained"

\* Older rows of blocked targets, due at every tick, fill the batch.
Crowded(o) ==
  Cardinality({p \in Ops : /\ status[p] \in Pending /\ created[p] < created[o]
                           /\ TargetOf[p] \in closing \cup held}) >= Batch

\* While the server runs and its target is ready, a message is delivered or
\* poisoned in the end, even if other targets stay blocked for ever: as long as
\* fewer than batch_limit older rows are theirs they do not keep it out of the
\* batch, and none of them ends a tick (lease_due, dispatch_due_with).  A retained
\* delivery stops the dispatcher, and everything behind it.
SettledWhenReady ==
  \A o \in Ops :
    status[o] \in Pending
      ~> \/ status[o] \notin Pending
         \/ TargetOf[o] \in closing \cup held
         \/ server = NoServer \/ Stalled
         \/ Crowded(o)

\* What docs/features/control-plane-api.md:58 says of opId: a replay "never
\* creates a second row" (enqueue, reap_terminal_before).
ReplayMakesNoSecondRow ==
  [][\A o \in Ops : created[o] > 0 => created'[o] = created[o]]_vars

\* What the comment in run_dispatcher says of the purge check: a row that a
\* purge keeps from being delivered is not leased, so it costs no attempt.
PurgeCostsNoAttempt == \A o \in Ops : burned[o] = "no"
=============================================================================
