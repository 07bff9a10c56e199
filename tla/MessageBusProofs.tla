-------------------------- MODULE MessageBusProofs --------------------------
(***************************************************************************)
(* Type correctness of the message bus, that a row marked delivered was    *)
(* typed, that a text is typed again only after its record was lost, and   *)
(* that a terminal row stays as it is, for any keys, targets, dispatchers, *)
(* limits and bounds.                                                      *)
(*                                                                         *)
(* The argument: unless the record of its delivery is lost, a row is       *)
(* worked on by one dispatcher or left-over store call at most, and only   *)
(* while it is 'delivering' (AloneAt).  So the one that types it finds it  *)
(* untyped, and the one that records it overwrites nothing; and a row that *)
(* was typed either says so or is about to (AccountedAt).                  *)
(***************************************************************************)
EXTENDS MessageBus, TLAPS

USE TargetAssumption, ServerAssumption, LimitsAssumption, BoundsAssumption

Exists(o) == status[o] # "absent"

\* Row numbers are given out once.
Numbered ==
  /\ \A o \in Ops : created[o] <= rows /\ (Exists(o) => created[o] > 0)
  /\ \A o, p \in Ops : created[o] = created[p] /\ created[o] > 0 => o = p
  /\ \A d \in Dispatchers : \A m \in batch[d] : m[2] <= rows
  /\ \A d \in Dispatchers : \A m, n \in batch[d] : m[2] = n[2] => m = n
  /\ \A c \in orphans : c[1][2] <= rows

\* At most one dispatcher or left-over call works on o's row, and then the row
\* is 'delivering'.
AloneAt(o) ==
  Exists(o) /\ lost[o] = "no" =>
    /\ \A d, e \in Dispatchers : Id(o) \in batch[d] /\ Id(o) \in batch[e] => d = e
    /\ \A d \in Dispatchers, q \in Outcomes : ~(Id(o) \in batch[d] /\ <<Id(o), q>> \in orphans)
    /\ \A p, q \in Outcomes : <<Id(o), p>> \in orphans /\ <<Id(o), q>> \in orphans => p = q
    /\ \A d \in Dispatchers : Id(o) \in batch[d] => status[o] = "delivering"
    /\ \A q \in Outcomes : <<Id(o), q>> \in orphans => status[o] = "delivering"

\* A typed row says 'delivered' or is about to, and no other does.
AccountedAt(o) ==
  Exists(o) =>
    /\ writes[o] > 0 /\ lost[o] = "no" => status[o] = "delivered" \/ DeliveredUnstored(o)
    /\ status[o] = "delivered" \/ DeliveredUnstored(o) => writes[o] > 0

Alone == \A o \in Ops : AloneAt(o)
Accounted == \A o \in Ops : AccountedAt(o)

Inv == TypeOK /\ Numbered /\ Alone /\ Accounted

-----------------------------------------------------------------------------
(* Message ids.                                                            *)

\* A message id of a batch that is current is that of its key's row.
LEMMA CurrentId ==
  ASSUME TypeOK, NEW d \in Dispatchers, NEW m \in batch[d]
  PROVE  /\ m[1] \in Ops /\ m[2] \in 1..MaxRows /\ m = <<m[1], m[2]>>
         /\ Current(m) <=> (Exists(m[1]) /\ m = Id(m[1]))
         /\ \A o \in Ops : m = Id(o) => o = m[1]
<1>1. m \in Ops \X (1..MaxRows)
  BY DEF TypeOK, TasksOK
<1> QED
  BY <1>1 DEF Current, Exists, Id

\* The same for a left-over store call.
LEMMA OrphanId ==
  ASSUME TypeOK, NEW c \in orphans
  PROVE  /\ c[1][1] \in Ops /\ c[2] \in Outcomes /\ c = <<c[1], c[2]>>
         /\ Current(c[1]) <=> (Exists(c[1][1]) /\ c[1] = Id(c[1][1]))
         /\ \A o \in Ops : c[1] = Id(o) => o = c[1][1]
<1>1. c \in (Ops \X (1..MaxRows)) \X Outcomes
  BY DEF TypeOK, TasksOK
<1>2. c[1] \in Ops \X (1..MaxRows) /\ c[2] \in Outcomes /\ c = <<c[1], c[2]>>
  BY <1>1
<1> QED
  BY <1>2 DEF Current, Exists, Id

\* A dispatcher works on one message at a time.
LEMMA OldestUnique ==
  ASSUME TypeOK, Numbered, NEW d \in Dispatchers, NEW m, NEW n, Oldest(d, m), Oldest(d, n)
  PROVE  m = n
<1>1. m \in batch[d] /\ n \in batch[d] /\ m[2] <= n[2] /\ n[2] <= m[2]
  BY DEF Oldest
<1>2. m[2] \in 1..MaxRows /\ n[2] \in 1..MaxRows
  BY <1>1, CurrentId
<1>3. m[2] = n[2]
  BY <1>1, <1>2
<1> QED
  BY <1>1, <1>3 DEF Numbered

\* A row that is about to be typed, and whose record is not lost, is untyped.
LEMMA TypingIsFirst ==
  ASSUME Inv, NEW d \in Dispatchers, NEW m, Oldest(d, m), phase[d] = "type",
         Current(m), lost[m[1]] = "no"
  PROVE  writes[m[1]] = 0
<1>1. m \in batch[d] /\ outcome[d] = None
  BY DEF Oldest, Inv, TypeOK, TasksOK
<1>2. m[1] \in Ops /\ Exists(m[1]) /\ m = Id(m[1])
  BY <1>1, CurrentId DEF Inv
<1>3. status[m[1]] = "delivering"
  BY <1>1, <1>2 DEF Inv, Alone, AloneAt
<1>4. ~DeliveredUnstored(m[1])
  <2>1. <<Id(m[1]), "delivered">> \notin orphans
    BY <1>1, <1>2 DEF Inv, Alone, AloneAt, Outcomes
  <2>2. \A e \in Dispatchers : outcome[e] = "delivered" => ~Oldest(e, Id(m[1]))
    BY <1>1, <1>2 DEF Inv, Alone, AloneAt, Oldest, None
  <2> QED
    BY <2>1, <2>2 DEF DeliveredUnstored
<1>5. ~(writes[m[1]] > 0)
  BY <1>2, <1>3, <1>4 DEF Inv, Accounted, AccountedAt
<1>6. writes[m[1]] \in 0..2
  BY <1>2 DEF Inv, TypeOK, HistoryOK
<1> QED
  BY <1>5, <1>6

-----------------------------------------------------------------------------
(* Types.                                                                  *)

\* Record writes a row's status, attempt and time.
LEMMA RecordTypes ==
  ASSUME RowsOK, NEW o \in Ops, NEW result \in Outcomes, Record(o, result),
         UNCHANGED <<created, rows>>
  PROVE  /\ RowsOK'
         /\ \E st \in Pending \cup Terminal : status' = [status EXCEPT ![o] = st]
         /\ result = "delivered" => status' = [status EXCEPT ![o] = "delivered"]
         /\ result # "delivered" => status'[o] # "delivered"
<1>1. attempt[o] \in Nat /\ attempt[o] + 1 \in Nat /\ Backoff + Retention \in Nat
  BY DEF RowsOK
<1>2. \E st \in Pending \cup Terminal, n \in Nat, w \in Nat :
        SetRow(o, st, n, w) /\ (st = "delivered" <=> result = "delivered")
  <2>1. CASE result = "delivered"
    BY <2>1, <1>1 DEF Record, MarkDelivered, Terminal
  <2>2. CASE result = "failed"
    BY <2>2, <1>1 DEF Record, MarkDeliveryFailed, Terminal, Pending
  <2>3. CASE result = "deferred"
    BY <2>3, <1>1 DEF Record, ReleaseDeliveryLease, Pending
  <2> QED
    BY <2>1, <2>2, <2>3 DEF Outcomes
<1>3. PICK st \in Pending \cup Terminal, n \in Nat, w \in Nat :
        SetRow(o, st, n, w) /\ (st = "delivered" <=> result = "delivered")
  BY <1>2
<1>4. RowsOK'
  BY <1>3 DEF SetRow, RowsOK
<1>5. status' = [status EXCEPT ![o] = st] /\ status'[o] = st
  BY <1>3 DEF SetRow, RowsOK
<1> QED
  BY <1>3, <1>4, <1>5

\* The histories of typing and of loss keep their types.
LEMMA HistoryTypes ==
  ASSUME TypeOK, NEW d \in Dispatchers, NEW m \in batch[d]
  PROVE  /\ Typed(m) \in [Ops -> 0..2]
         /\ Unrecorded(m) \in [Ops -> {"yes", "no"}]
<1>1. m[1] \in Ops
  BY CurrentId
<1> QED
  BY <1>1 DEF Typed, Unrecorded, UpTo, TypeOK, HistoryOK

\* An outcome is noted for the batch.
LEMMA OutcomeTypes ==
  ASSUME TypeOK, NEW d \in Dispatchers, NEW result \in Outcomes,
         phase[d] \in Working, Outcome(d, result)
  PROVE  RowsOK' /\ TasksOK' /\ EnvOK'
<1>1. RowsOK' /\ EnvOK'
  BY DEF TypeOK, Outcome, rowVars, envVars, RowsOK, EnvOK
<1>2. TasksOK'
  BY DEF TypeOK, Outcome, TasksOK, Phases, Working, Outcomes, None
<1> QED
  BY <1>1, <1>2

\* A failed delivery counts in the history.
LEMMA FailedDeliveryTypes ==
  ASSUME TypeOK, NEW d \in Dispatchers, NEW m \in batch[d], NEW purged \in BOOLEAN,
         phase[d] \in Working, FailedDelivery(d, m, purged)
  PROVE  /\ RowsOK' /\ TasksOK' /\ EnvOK'
         /\ failures' \in [Ops -> 0..MaxAttempts] /\ burned' \in [Ops -> {"yes", "no"}]
<1>1. RowsOK' /\ TasksOK' /\ EnvOK'
  BY OutcomeTypes DEF FailedDelivery, Outcomes
<1>2. m[1] \in Ops
  BY CurrentId
<1>3. failures \in [Ops -> 0..MaxAttempts] /\ burned \in [Ops -> {"yes", "no"}]
  BY DEF TypeOK, HistoryOK
<1>4. failures' \in [Ops -> 0..MaxAttempts]
  BY <1>2, <1>3 DEF FailedDelivery, UpTo
<1>5. burned' \in [Ops -> {"yes", "no"}]
  BY <1>2, <1>3 DEF FailedDelivery
<1> QED
  BY <1>1, <1>4, <1>5

\* The steps of a delivery keep the types.
LEMMA DeliverTypes ==
  ASSUME TypeOK, NEW d \in Dispatchers, NEW m, Oldest(d, m), Deliver(d, m)
  PROVE  TypeOK'
<1>1. m \in batch[d] /\ phase[d] \in Working
  BY DEF Oldest, TypeOK, TasksOK
<1> USE <1>1
<1>2. CASE Refused(d, m)
  <2>1. RowsOK' /\ TasksOK' /\ EnvOK'
    BY <1>2, OutcomeTypes DEF Refused, Outcomes
  <2> QED
    BY <1>2, <2>1 DEF Refused, histVars, TypeOK, HistoryOK
<1>3. CASE Purged(d, m)
  BY <1>3, FailedDeliveryTypes DEF Purged, TypeOK, HistoryOK
<1>4. CASE Admitted(d, m)
  <2>1. TasksOK'
    BY <1>4 DEF Admitted, TypeOK, TasksOK, Phases, Working
  <2> QED
    BY <1>4, <2>1 DEF Admitted, rowVars, envVars, histVars, TypeOK, RowsOK, EnvOK, HistoryOK
<1>5. CASE Deferred(d, m)
  <2>1. RowsOK' /\ TasksOK' /\ EnvOK'
    BY <1>5, OutcomeTypes DEF Deferred, Outcomes
  <2> QED
    BY <1>5, <2>1 DEF Deferred, histVars, TypeOK, HistoryOK
<1>6. CASE Delivered(d, m)
  <2>1. RowsOK' /\ TasksOK' /\ EnvOK'
    BY <1>6, OutcomeTypes DEF Delivered, Outcomes
  <2>2. writes' \in [Ops -> 0..2]
    BY <1>6, HistoryTypes DEF Delivered
  <2> QED
    BY <1>6, <2>1, <2>2 DEF Delivered, TypeOK, HistoryOK
<1>7. CASE Failed(d, m)
  <2>1. writes' \in [Ops -> 0..2] /\ lost' \in [Ops -> {"yes", "no"}]
    BY <1>7, HistoryTypes DEF Failed, TypeOK, HistoryOK
  <2> QED
    BY <1>7, <2>1, FailedDeliveryTypes DEF Failed, TypeOK, HistoryOK
<1> QED
  BY <1>2, <1>3, <1>4, <1>5, <1>6, <1>7 DEF Deliver

\* So does the record of an outcome.
LEMMA MarkTypes ==
  ASSUME TypeOK, NEW d \in Dispatchers, NEW m, Oldest(d, m), Mark(d, m) \/ MarkFails(d, m)
  PROVE  TypeOK'
<1>1. m \in batch[d] /\ m[1] \in Ops
  BY CurrentId DEF Oldest
<1>2. CASE Mark(d, m)
  <2>1. outcome[d] \in Outcomes
    BY <1>2 DEF Mark, TypeOK, TasksOK, None
  <2>2. RowsOK'
    BY <1>1, <1>2, <2>1, RecordTypes DEF Mark, TypeOK
  <2>3. batch'[d] = batch[d] \ {m} /\ (batch[d] = {m} <=> batch'[d] = {})
    BY <1>1, <1>2 DEF Mark, TypeOK, TasksOK
  <2>4. TasksOK'
    BY <1>2, <2>3 DEF Mark, TypeOK, TasksOK, Phases, Working
  <2> QED
    BY <1>2, <2>2, <2>4 DEF Mark, envVars, histVars, TypeOK, EnvOK, HistoryOK
<1>3. CASE MarkFails(d, m)
  <2>1. TasksOK'
    BY <1>3 DEF MarkFails, TypeOK, TasksOK, Phases, Working
  <2>2. lost' \in [Ops -> {"yes", "no"}]
    BY <1>1, <1>3, HistoryTypes DEF MarkFails, TypeOK, HistoryOK
  <2>3. RowsOK' /\ EnvOK'
    BY <1>3 DEF MarkFails, rowVars, envVars, TypeOK, RowsOK, EnvOK
  <2> QED
    BY <1>3, <2>1, <2>2, <2>3 DEF MarkFails, TypeOK, HistoryOK
<1> QED
  BY <1>2, <1>3

\* A lease takes rows that exist, hence are numbered from 1.
LEMMA LeaseTypes ==
  ASSUME TypeOK, Numbered, NEW d \in Dispatchers, LeaseDue(d)
  PROVE  TypeOK'
<1> DEFINE T == Leased
<1>1. /\ TakeLease(d, T)
      /\ \A o \in T : o \in Ops /\ status[o] \in Pending
  BY DEF LeaseDue, Leased, Due
<1>2. \A o \in T : Id(o) \in Ops \X (1..MaxRows)
  BY <1>1 DEF Pending, Exists, Numbered, Id, TypeOK, RowsOK
<1> HIDE DEF T
<1>3. RowsOK'
  BY <1>1 DEF TakeLease, LeaseDue, TypeOK, RowsOK, Pending
<1>4. batch'[d] = {Id(o) : o \in T} /\ batch' \in [Dispatchers -> SUBSET (Ops \X (1..MaxRows))]
  BY <1>1, <1>2 DEF TakeLease, TypeOK, TasksOK
<1>5. batch'[d] = {} <=> T = {}
  BY <1>4
<1>6. TasksOK'
  <2>1. /\ phase[d] = "lease" /\ phase' = [phase EXCEPT ![d] = IF T = {} THEN "reap" ELSE "deliver"]
        /\ \A e \in Dispatchers \ {d} : batch'[e] = batch[e]
        /\ UNCHANGED <<server, token, outcome, orphans>>
    BY <1>1 DEF TakeLease, LeaseDue, TypeOK, TasksOK
  <2>2. phase' \in [Dispatchers -> Phases]
    BY <2>1 DEF TypeOK, TasksOK, Phases
  <2>3. \A e \in Dispatchers :
          (phase'[e] \in Working <=> batch'[e] # {}) /\ (phase'[e] = "mark" <=> outcome'[e] # None)
    BY <2>1, <1>5 DEF TypeOK, TasksOK, Working
  <2> QED
    BY <1>4, <2>1, <2>2, <2>3 DEF TypeOK, TasksOK
<1>7. HistoryOK'
  BY <1>1 DEF TakeLease, LeaseDue, TypeOK, HistoryOK
<1>8. EnvOK'
  BY DEF LeaseDue, envVars, TypeOK, EnvOK
<1> QED
  BY <1>3, <1>6, <1>7, <1>8 DEF TypeOK

\* An abort ends a dispatcher and may leave one store call behind.
LEMMA AbortTypes ==
  ASSUME TypeOK, NEW d \in Dispatchers, Abort(d)
  PROVE  TypeOK'
<1>1. RowsOK' /\ EnvOK'
  BY DEF Abort, rowVars, envVars, TypeOK, RowsOK, EnvOK
<1>2. orphans' \in SUBSET ((Ops \X (1..MaxRows)) \X Outcomes)
  <2>1. CASE orphans' = orphans
    BY <2>1 DEF TypeOK, TasksOK
  <2>2. CASE orphans' # orphans
    <3>1. PICK m \in batch[d] : phase[d] = "mark" /\ orphans' = orphans \cup {<<m, outcome[d]>>}
      BY <2>2 DEF Abort
    <3> QED
      BY <3>1 DEF TypeOK, TasksOK, None
  <2> QED
    BY <2>1, <2>2
<1>3. TasksOK'
  BY <1>2 DEF Abort, TypeOK, TasksOK, Phases, Working
<1>4. writes' \in [Ops -> 0..2] /\ lost' \in [Ops -> {"yes", "no"}]
  BY HistoryTypes DEF Abort, TypeOK, HistoryOK
<1> QED
  BY <1>1, <1>3, <1>4 DEF Abort, TypeOK, HistoryOK

\* A crash leaves the table.
LEMMA CrashTypes ==
  ASSUME TypeOK, Crash
  PROVE  TypeOK'
<1>1. RowsOK' /\ EnvOK'
  BY DEF Crash, rowVars, TypeOK, RowsOK, EnvOK
<1>2. TasksOK'
  BY DEF Crash, TypeOK, TasksOK, Phases, Working
<1>3. HistoryOK'
  BY DEF Crash, TypeOK, HistoryOK, UpTo
<1> QED
  BY <1>1, <1>2, <1>3 DEF TypeOK

\* Every step keeps the types.
LEMMA TypesKept ==
  ASSUME TypeOK, Numbered, [Next]_vars
  PROVE  TypeOK'
<1> USE DEF TypeOK
<1>1. ASSUME NEW o \in Ops, Enqueue(o) PROVE TypeOK'
  <2>1. RowsOK'
    BY <1>1 DEF Enqueue, RowsOK, Pending
  <2>2. TasksOK'
    BY <1>1 DEF Enqueue, taskVars, TasksOK
  <2> QED
    BY <1>1, <2>1, <2>2 DEF Enqueue, envVars, EnvOK, HistoryOK
<1>2. ASSUME NEW d \in Dispatchers, StartServer(d) \/ StartFails(d) PROVE TypeOK'
  <2>1. TasksOK'
    BY <1>2 DEF StartServer, StartFails, Start, TasksOK, Phases, Working
  <2> QED
    BY <1>2, <2>1 DEF StartServer, StartFails, Start, rowVars, envVars, histVars, RowsOK, EnvOK,
                      HistoryOK
<1>3. ASSUME NEW d \in Dispatchers, Exit(d) \/ BeginTick(d) \/ LeaseFails(d) \/ Reap(d)
      PROVE  TypeOK'
  <2>1. TasksOK'
    BY <1>3 DEF Exit, BeginTick, LeaseFails, Reap, TasksOK, Phases, Working
  <2>2. RowsOK'
    BY <1>3 DEF Exit, BeginTick, LeaseFails, Reap, rowVars, RowsOK
  <2> QED
    BY <1>3, <2>1, <2>2 DEF Exit, BeginTick, LeaseFails, Reap, envVars, histVars, EnvOK, HistoryOK
<1>4. ASSUME NEW d \in Dispatchers, NEW m \in batch[d], Oldest(d, m),
             Deliver(d, m) \/ Mark(d, m) \/ MarkFails(d, m)
      PROVE  TypeOK'
  BY <1>4, DeliverTypes, MarkTypes
<1>5. CASE StopServer
  <2>1. TasksOK'
    BY <1>5 DEF StopServer, TasksOK
  <2> QED
    BY <1>5, <2>1 DEF StopServer, rowVars, envVars, histVars, RowsOK, EnvOK, HistoryOK
<1>6. ASSUME NEW c \in orphans, OrphanMark(c) PROVE TypeOK'
  <2>1. c[1][1] \in Ops /\ c[2] \in Outcomes
    BY OrphanId
  <2>2. RowsOK'
    BY <1>6, <2>1, RecordTypes DEF OrphanMark, RowsOK
  <2>3. TasksOK'
    BY <1>6 DEF OrphanMark, TasksOK
  <2> QED
    BY <1>6, <2>2, <2>3 DEF OrphanMark, envVars, histVars, EnvOK, HistoryOK
<1>7. ASSUME NEW t \in Targets, Hold(t) \/ Unhold(t) \/ PurgeBegin(t) PROVE TypeOK'
  <2>1. TasksOK'
    BY <1>7 DEF Hold, Unhold, PurgeBegin, taskVars, TasksOK
  <2> QED
    BY <1>7, <2>1 DEF Hold, Unhold, PurgeBegin, rowVars, histVars, RowsOK, EnvOK, HistoryOK
<1>8. CASE PurgeEnd \/ Clock \/ UNCHANGED vars
  <2>1. TasksOK'
    BY <1>8 DEF PurgeEnd, Clock, vars, taskVars, TasksOK
  <2>2. RowsOK'
    BY <1>8 DEF PurgeEnd, Clock, vars, rowVars, RowsOK
  <2> QED
    BY <1>8, <2>1, <2>2 DEF PurgeEnd, Clock, vars, envVars, histVars, EnvOK, HistoryOK
<1>9. ASSUME NEW d \in Dispatchers, NEW m \in batch[d], Retained(d, m) PROVE TypeOK'
  <2>1. TasksOK'
    BY <1>9 DEF Retained, TasksOK, Phases, Working
  <2>2. writes' \in [Ops -> 0..2] /\ lost' \in [Ops -> {"yes", "no"}]
    BY <1>9, HistoryTypes DEF Retained, HistoryOK
  <2> QED
    BY <1>9, <2>1, <2>2 DEF Retained, rowVars, envVars, RowsOK, EnvOK, HistoryOK
<1> QED
  BY <1>1, <1>2, <1>3, <1>4, <1>5, <1>6, <1>7, <1>8, <1>9, LeaseTypes, AbortTypes, CrashTypes
  DEF Next, Work

-----------------------------------------------------------------------------
(* Row numbers.                                                            *)

\* Numbers stay unique when no row is created, and no batch or left-over call
\* takes in anything that was not in a batch before.
LEMMA NumberedFrame ==
  ASSUME TypeOK, Numbered, UNCHANGED <<created, rows>>,
         \A o \in Ops : status'[o] # "absent" => status[o] # "absent",
         \A d \in Dispatchers : batch'[d] \subseteq batch[d],
         \A c \in orphans' : c \in orphans \/ \E d \in Dispatchers : c[1] \in batch[d]
  PROVE  Numbered'
BY DEF Numbered, Exists

\* What the other steps leave alone.
core == <<status, created, rows, batch, outcome, orphans, lost, writes>>

\* These steps touch no row, no batch, no outcome and no left-over call.
Idle ==
  \/ \E d \in Dispatchers :
       StartServer(d) \/ StartFails(d) \/ Exit(d) \/ BeginTick(d) \/ LeaseFails(d)
         \/ \E m \in batch[d] : Admitted(d, m)
  \/ StopServer
  \/ \E t \in Targets : Hold(t) \/ Unhold(t) \/ PurgeBegin(t)
  \/ PurgeEnd \/ Clock \/ UNCHANGED vars

\* ... indeed.
LEMMA IdleKeepsCore ==
  ASSUME Idle
  PROVE  UNCHANGED core
<1>1. ASSUME NEW d \in Dispatchers,
             StartServer(d) \/ StartFails(d) \/ Exit(d) \/ BeginTick(d) \/ LeaseFails(d)
      PROVE  UNCHANGED core
  BY <1>1 DEF StartServer, StartFails, Start, Exit, BeginTick, LeaseFails, core, rowVars, histVars
<1>2. ASSUME NEW d \in Dispatchers, NEW m \in batch[d], Admitted(d, m)
      PROVE  UNCHANGED core
  BY <1>2 DEF Admitted, core, rowVars, histVars
<1>3. CASE StopServer
  BY <1>3 DEF StopServer, core, rowVars, histVars
<1>4. ASSUME NEW t \in Targets, Hold(t) \/ Unhold(t) \/ PurgeBegin(t)
      PROVE  UNCHANGED core
  BY <1>4 DEF Hold, Unhold, PurgeBegin, core, rowVars, taskVars, histVars
<1>5. CASE PurgeEnd \/ Clock \/ UNCHANGED vars
  BY <1>5 DEF PurgeEnd, Clock, vars, core, rowVars, taskVars, histVars
<1> QED
  BY <1>1, <1>2, <1>3, <1>4, <1>5 DEF Idle

\* Nothing the invariant speaks of has changed.
LEMMA CoreKeepsInv ==
  ASSUME Numbered, Alone, Accounted, UNCHANGED core
  PROVE  Numbered' /\ Alone' /\ Accounted'
<1> USE DEF core
<1>1. \A o \in Ops : (Exists(o))' = Exists(o) /\ (Id(o))' = Id(o)
                     /\ (DeliveredUnstored(o))' = DeliveredUnstored(o)
  BY DEF Exists, Id, DeliveredUnstored, Oldest
<1>2. Numbered'
  BY <1>1 DEF Numbered
<1>3. Alone'
  BY <1>1 DEF Alone, AloneAt
<1>4. Accounted'
  BY <1>1 DEF Accounted, AccountedAt
<1> QED
  BY <1>2, <1>3, <1>4

-----------------------------------------------------------------------------
(* A new row.                                                              *)

\* Enqueue numbers the row above all others.
LEMMA EnqueueKeeps ==
  ASSUME Inv, NEW o \in Ops, Enqueue(o)
  PROVE  Numbered' /\ Alone' /\ Accounted'
<1>1. /\ rows' = rows + 1 /\ rows \in Nat
      /\ created' = [created EXCEPT ![o] = rows + 1] /\ created \in [Ops -> Nat]
      /\ status' = [status EXCEPT ![o] = "queued"]
      /\ UNCHANGED <<batch, outcome, orphans>>
      /\ \A d \in Dispatchers : \A m \in batch[d] : m[2] \in Nat
      /\ \A c \in orphans : c[1][2] \in Nat
  BY DEF Enqueue, taskVars, Inv, TypeOK, RowsOK, TasksOK
<1>2. Numbered'
  <2>1. \A p \in Ops : created'[p] <= rows' /\ ((Exists(p))' => created'[p] > 0)
    BY <1>1 DEF Inv, Numbered, Exists, TypeOK, RowsOK
  <2>2. \A p, q \in Ops : created'[p] = created'[q] /\ created'[p] > 0 => p = q
    BY <1>1 DEF Inv, Numbered, TypeOK, RowsOK
  <2>3. \A d \in Dispatchers : \A m \in batch'[d] : m[2] <= rows'
    BY <1>1 DEF Inv, Numbered
  <2>4. \A d \in Dispatchers : \A m, n \in batch'[d] : m[2] = n[2] => m = n
    BY <1>1 DEF Inv, Numbered
  <2>5. \A c \in orphans' : c[1][2] <= rows'
    BY <1>1 DEF Inv, Numbered
  <2> QED
    BY <2>1, <2>2, <2>3, <2>4, <2>5 DEF Numbered
<1>3. /\ \A d \in Dispatchers : (Id(o))' \notin batch'[d]
      /\ \A q \in Outcomes : <<(Id(o))', q>> \notin orphans'
  <2>1. (Id(o))' = <<o, rows + 1>>
    BY <1>1 DEF Id
  <2>2. \A d \in Dispatchers : (Id(o))' \notin batch'[d]
    BY <1>1, <2>1 DEF Inv, Numbered
  <2>3. \A q \in Outcomes : <<(Id(o))', q>> \notin orphans'
    BY <1>1, <2>1 DEF Inv, Numbered
  <2> QED
    BY <2>2, <2>3
<1>4. \A p \in Ops \ {o} : (Id(p))' = Id(p) /\ (Exists(p))' = Exists(p) /\ status'[p] = status[p]
                           /\ lost'[p] = lost[p] /\ writes'[p] = writes[p]
                           /\ (DeliveredUnstored(p))' = DeliveredUnstored(p)
  BY <1>1 DEF Enqueue, Id, Exists, DeliveredUnstored, Oldest, Inv, TypeOK, RowsOK, HistoryOK
<1>5. writes'[o] = 0 /\ status'[o] = "queued" /\ ~(DeliveredUnstored(o))'
  BY <1>1, <1>3 DEF Enqueue, DeliveredUnstored, Oldest, Inv, TypeOK, RowsOK, HistoryOK, Outcomes
<1>6. Alone'
  <2>1. (AloneAt(o))'
    BY <1>3 DEF AloneAt
  <2>2. \A p \in Ops \ {o} : (AloneAt(p))'
    BY <1>1, <1>4 DEF AloneAt, Inv, Alone
  <2> QED
    BY <2>1, <2>2 DEF Alone
<1>7. Accounted'
  <2>1. (AccountedAt(o))'
    BY <1>5 DEF AccountedAt
  <2>2. \A p \in Ops \ {o} : (AccountedAt(p))'
    BY <1>4 DEF AccountedAt, Inv, Accounted
  <2> QED
    BY <2>1, <2>2 DEF Accounted
<1> QED
  BY <1>2, <1>6, <1>7

-----------------------------------------------------------------------------
(* A lease.                                                                *)

\* lease_due takes pending rows: one that someone else still works on counts as
\* lost from then on.
LEMMA LeaseKeeps ==
  ASSUME Inv, NEW d \in Dispatchers, LeaseDue(d)
  PROVE  Numbered' /\ Alone' /\ Accounted'
<1> DEFINE T == Leased
<1>1. /\ batch[d] = {} /\ outcome[d] = None
      /\ batch' = [batch EXCEPT ![d] = {Id(o) : o \in T}]
      /\ UNCHANGED <<created, rows, outcome, orphans, writes>>
  BY DEF LeaseDue, TakeLease, Inv, TypeOK, TasksOK, Working
<1>2. \A o \in T : o \in Ops /\ status[o] \in Pending /\ wait[o] = 0
  BY DEF Leased, Due
<1>3. \A o \in Ops :
        /\ status'[o] = IF o \in T THEN "delivering" ELSE status[o]
        /\ lost'[o] = IF o \in T /\ status[o] = "delivering" /\ Elsewhere(d, o) THEN "yes" ELSE lost[o]
  BY <1>2 DEF LeaseDue, TakeLease
<1> HIDE DEF T
<1>4. batch'[d] = {Id(o) : o \in T} /\ \A e \in Dispatchers \ {d} : batch'[e] = batch[e]
  BY <1>1 DEF Inv, TypeOK, TasksOK
<1>5. \A o \in Ops : (Exists(o))' = Exists(o) /\ (Id(o))' = Id(o) /\ (Id(o) \in batch'[d] <=> o \in T)
  BY <1>1, <1>2, <1>3, <1>4 DEF Exists, Id, Pending
<1>6. Numbered'
  <2>1. \A o \in T : o \in Ops /\ created[o] <= rows /\ created[o] > 0
    BY <1>2 DEF Inv, Numbered, Exists, Pending
  <2>2. \A m \in batch'[d] : m[2] <= rows
    BY <1>4, <2>1 DEF Id
  <2>3. \A m, n \in batch'[d] : m[2] = n[2] => m = n
    BY <1>4, <2>1 DEF Id, Inv, Numbered
  <2>4. \A o \in Ops : created'[o] <= rows' /\ ((Exists(o))' => created'[o] > 0)
    BY <1>1, <1>5 DEF Inv, Numbered
  <2>5. /\ \A e \in Dispatchers : \A m \in batch'[e] : m[2] <= rows'
        /\ \A e \in Dispatchers : \A m, n \in batch'[e] : m[2] = n[2] => m = n
    BY <1>1, <1>4, <2>2, <2>3 DEF Inv, Numbered
  <2>6. \A o, p \in Ops : created'[o] = created'[p] /\ created'[o] > 0 => o = p
    BY <1>1 DEF Inv, Numbered
  <2>7. \A c \in orphans' : c[1][2] <= rows'
    BY <1>1 DEF Inv, Numbered
  <2> QED
    BY <2>4, <2>5, <2>6, <2>7 DEF Numbered
<1>7. ASSUME NEW o \in Ops PROVE (AloneAt(o))'
  <2> SUFFICES ASSUME Exists(o), lost'[o] = "no"
               PROVE  (AloneAt(o))'
    BY <1>5 DEF AloneAt
  <2>1. lost[o] = "no"
    BY <1>3
  <2>2. CASE o \in T
    <3>1. /\ \A e \in Dispatchers \ {d} : Id(o) \notin batch[e]
          /\ \A q \in Outcomes : <<Id(o), q>> \notin orphans
      <4>1. CASE status[o] = "delivering"
        BY <1>3, <2>2, <4>1 DEF Elsewhere
      <4>2. CASE status[o] # "delivering"
        BY <2>1, <4>2 DEF Inv, Alone, AloneAt
      <4> QED
        BY <4>1, <4>2
    <3>2. status'[o] = "delivering"
      BY <1>3, <2>2
    <3> QED
      BY <1>1, <1>4, <1>5, <3>1, <3>2 DEF AloneAt
  <2>3. CASE o \notin T
    <3>1. status'[o] = status[o] /\ Id(o) \notin batch'[d]
      BY <1>3, <1>5, <2>3
    <3> QED
      BY <1>1, <1>4, <1>5, <2>1, <3>1 DEF AloneAt, Inv, Alone
  <2> QED
    BY <2>2, <2>3
<1>8. ASSUME NEW o \in Ops PROVE (AccountedAt(o))'
  <2>1. (DeliveredUnstored(o))' <=> DeliveredUnstored(o)
    BY <1>1, <1>4, <1>5 DEF DeliveredUnstored, Oldest, None
  <2>2. status'[o] = "delivered" <=> status[o] = "delivered"
    BY <1>2, <1>3 DEF Pending
  <2>3. lost'[o] = "no" => lost[o] = "no"
    BY <1>3
  <2> QED
    BY <1>1, <1>5, <2>1, <2>2, <2>3 DEF AccountedAt, Inv, Accounted
<1> QED
  BY <1>6, <1>7, <1>8 DEF Alone, Accounted

-----------------------------------------------------------------------------
(* A delivery.                                                             *)

\* What m's dispatcher has delivered, and no other's, becomes known.
LEMMA OutcomeShows ==
  ASSUME Inv, NEW d \in Dispatchers, NEW m, Oldest(d, m), NEW result \in Outcomes,
         phase[d] \in {"deliver", "type"}, Outcome(d, result)
  PROVE  /\ UNCHANGED <<status, created, rows, batch, orphans>>
         /\ \A o \in Ops : (DeliveredUnstored(o))' <=>
              (DeliveredUnstored(o) \/ (m = Id(o) /\ result = "delivered"))
<1>1. /\ UNCHANGED <<status, created, rows, batch, orphans>>
      /\ outcome[d] = None /\ outcome'[d] = result
      /\ \A e \in Dispatchers \ {d} : outcome'[e] = outcome[e]
  BY DEF Outcome, rowVars, Inv, TypeOK, TasksOK
<1>2. ASSUME NEW o \in Ops
      PROVE  /\ (Id(o))' = Id(o)
             /\ \A e \in Dispatchers : (Oldest(e, Id(o)))' <=> Oldest(e, Id(o))
             /\ Oldest(d, Id(o)) <=> m = Id(o)
  <2>1. Oldest(d, Id(o)) <=> m = Id(o)
    BY OldestUnique DEF Inv
  <2> QED
    BY <1>1, <2>1 DEF Id, Oldest
<1> QED
  BY <1>1, <1>2 DEF DeliveredUnstored, None

\* A delivery that types its text notes that it did, or that its record is lost.
LEMMA DeliverKeeps ==
  ASSUME Inv, NEW d \in Dispatchers, NEW m, Oldest(d, m),
         Refused(d, m) \/ Purged(d, m) \/ Deferred(d, m) \/ Delivered(d, m) \/ Failed(d, m)
  PROVE  Numbered' /\ Alone' /\ Accounted'
<1>1. m \in batch[d]
  BY DEF Oldest
<1>2. m[1] \in Ops /\ (Current(m) <=> (Exists(m[1]) /\ m = Id(m[1])))
      /\ \A o \in Ops : m = Id(o) => o = m[1]
  BY <1>1, CurrentId DEF Inv
<1>3. PICK result \in Outcomes :
        /\ phase[d] \in {"deliver", "type"} /\ Outcome(d, result)
        /\ \/ result = "delivered" /\ writes' = Typed(m) /\ lost' = lost
           \/ result # "delivered" /\ writes' = writes /\ lost' = lost
           \/ result # "delivered" /\ writes' = Typed(m) /\ lost' = Unrecorded(m)
  BY DEF Refused, Purged, Deferred, Delivered, Failed, FailedDelivery, Outcomes, histVars
<1>4. /\ UNCHANGED <<status, created, rows, batch, orphans>>
      /\ \A o \in Ops : (DeliveredUnstored(o))' <=>
           (DeliveredUnstored(o) \/ (m = Id(o) /\ result = "delivered"))
  BY <1>3, OutcomeShows
<1>5. \A o \in Ops : (Exists(o))' = Exists(o) /\ (Id(o))' = Id(o)
  BY <1>4 DEF Exists, Id
<1>6. Numbered'
  BY <1>4, <1>5 DEF Inv, Numbered
<1>7. /\ \A o \in Ops : writes[o] \in 0..2 /\ lost[o] \in {"yes", "no"}
      /\ \A o \in Ops : o # m[1] \/ ~Current(m) => Typed(m)[o] = writes[o] /\ Unrecorded(m)[o] = lost[o]
      /\ Current(m) => Typed(m)[m[1]] > 0 /\ Unrecorded(m)[m[1]] = "yes"
  BY <1>2 DEF Inv, TypeOK, HistoryOK, Typed, Unrecorded, UpTo
<1>8. \A o \in Ops : lost'[o] = "no" => lost[o] = "no"
  BY <1>2, <1>3, <1>7
<1>9. Alone'
  BY <1>4, <1>5, <1>8 DEF Inv, Alone, AloneAt
<1>10. ASSUME NEW o \in Ops PROVE (AccountedAt(o))'
  <2> SUFFICES ASSUME Exists(o) PROVE (AccountedAt(o))'
    BY <1>5 DEF AccountedAt
  <2>1. CASE m = Id(o)
    <3>1. o = m[1] /\ Current(m)
      BY <1>2, <2>1
    <3>2. CASE result = "delivered"
      <4>1. writes'[o] > 0 /\ (DeliveredUnstored(o))'
        BY <1>3, <1>4, <1>7, <2>1, <3>1, <3>2
      <4> QED
        BY <4>1 DEF AccountedAt
    <3>3. CASE writes' = writes /\ lost' = lost /\ result # "delivered"
      BY <1>4, <3>3 DEF AccountedAt, Inv, Accounted, Exists
    <3>4. CASE writes' = Typed(m) /\ lost' = Unrecorded(m)
      <4>1. writes'[o] > 0 /\ lost'[o] = "yes"
        BY <1>7, <3>1, <3>4
      <4> QED
        BY <4>1 DEF AccountedAt
    <3> QED
      BY <1>3, <3>2, <3>3, <3>4
  <2>2. CASE m # Id(o)
    <3>1. o # m[1] \/ ~Current(m)
      BY <1>2, <2>2
    <3>2. writes'[o] = writes[o] /\ lost'[o] = lost[o]
      BY <1>3, <1>7, <3>1
    <3> QED
      BY <1>4, <2>2, <3>2 DEF AccountedAt, Inv, Accounted, Exists
  <2> QED
    BY <2>1, <2>2
<1> QED
  BY <1>6, <1>9, <1>10 DEF Accounted

\* A delivery that never returns has no outcome; if it typed its text, nothing
\* will record that.
LEMMA RetainedKeeps ==
  ASSUME Inv, NEW d \in Dispatchers, NEW m \in batch[d], Retained(d, m)
  PROVE  Numbered' /\ Alone' /\ Accounted'
<1>1. /\ UNCHANGED <<status, created, rows, batch, outcome, orphans>>
      /\ \/ UNCHANGED <<writes, lost>>
         \/ writes' = Typed(m) /\ lost' = Unrecorded(m)
  BY DEF Retained, rowVars
<1>2. \A o \in Ops : /\ (Exists(o))' = Exists(o) /\ (Id(o))' = Id(o)
                     /\ (DeliveredUnstored(o))' = DeliveredUnstored(o)
  BY <1>1 DEF Exists, Id, DeliveredUnstored, Oldest
<1>3. Numbered'
  BY <1>1, <1>2 DEF Inv, Numbered
<1>4. m[1] \in Ops
  BY CurrentId DEF Inv
<1>5. \A o \in Ops : \/ writes'[o] = writes[o] /\ lost'[o] = lost[o]
                     \/ writes'[o] > 0 /\ lost'[o] = "yes"
  BY <1>1, <1>4 DEF Inv, TypeOK, HistoryOK, Typed, Unrecorded, UpTo
<1>6. Alone'
  BY <1>1, <1>2, <1>5 DEF Inv, Alone, AloneAt
<1>7. Accounted'
  BY <1>1, <1>2, <1>5 DEF Inv, Accounted, AccountedAt
<1> QED
  BY <1>3, <1>6, <1>7

-----------------------------------------------------------------------------
(* The record of an outcome.                                               *)

\* A batch without its oldest message and without an outcome no longer speaks for m.
LEMMA BatchShrinks ==
  ASSUME Inv, NEW d \in Dispatchers, NEW m, Oldest(d, m), UNCHANGED <<created, orphans>>,
         outcome'[d] = None,
         \A e \in Dispatchers \ {d} : outcome'[e] = outcome[e] /\ batch'[e] = batch[e]
  PROVE  \A o \in Ops : (DeliveredUnstored(o))' => DeliveredUnstored(o)
BY DEF DeliveredUnstored, Oldest, Id, None

\* ... and still speaks for the others.
LEMMA OthersShow ==
  ASSUME Inv, NEW d \in Dispatchers, NEW m, Oldest(d, m), UNCHANGED <<created, orphans>>,
         outcome'[d] = None,
         \A e \in Dispatchers \ {d} : outcome'[e] = outcome[e] /\ batch'[e] = batch[e],
         NEW o \in Ops, m # Id(o) \/ outcome[d] # "delivered"
  PROVE  DeliveredUnstored(o) => (DeliveredUnstored(o))'
<1>1. ~(outcome[d] = "delivered" /\ Oldest(d, Id(o)))
  BY OldestUnique DEF Inv
<1> QED
  BY <1>1 DEF DeliveredUnstored, Oldest, Id, None

\* The row of a recorded message was its dispatcher's alone, or counts as lost.
LEMMA MarkKeeps ==
  ASSUME Inv, NEW d \in Dispatchers, NEW m, Oldest(d, m), Mark(d, m)
  PROVE  Numbered' /\ Alone' /\ Accounted'
<1> DEFINE o == m[1]
           result == outcome[d]
<1>1. /\ m \in batch[d] /\ o \in Ops /\ Exists(o) /\ m = Id(o) /\ result \in Outcomes
      /\ \A p \in Ops : m = Id(p) => p = o
  BY CurrentId DEF Oldest, Mark, Inv, TypeOK, TasksOK, None
<1>2. /\ Record(o, result) /\ UNCHANGED <<created, rows, orphans, writes, lost>>
      /\ batch' = [batch EXCEPT ![d] = batch[d] \ {m}]
      /\ outcome' = [outcome EXCEPT ![d] = None]
  BY DEF Mark, histVars
<1> HIDE DEF o, result
<1>3. /\ \A p \in Ops \ {o} : status'[p] = status[p]
      /\ status'[o] # "absent"
      /\ status'[o] = "delivered" <=> result = "delivered"
  <2>1. RowsOK /\ status \in [Ops -> Pending \cup Terminal \cup {"absent"}]
    BY DEF Inv, TypeOK, RowsOK
  <2>2. PICK st \in Pending \cup Terminal : status' = [status EXCEPT ![o] = st]
    BY <1>1, <1>2, <2>1, RecordTypes
  <2>3. result = "delivered" => status' = [status EXCEPT ![o] = "delivered"]
    BY <1>1, <1>2, <2>1, RecordTypes
  <2>4. result # "delivered" => status'[o] # "delivered"
    BY <1>1, <1>2, <2>1, RecordTypes
  <2> QED
    BY <1>1, <2>1, <2>2, <2>3, <2>4 DEF Pending, Terminal
<1>4. \A p \in Ops : (Exists(p))' = Exists(p) /\ (Id(p))' = Id(p)
  BY <1>1, <1>2, <1>3 DEF Exists, Id
<1>5. /\ batch'[d] = batch[d] \ {m} /\ outcome'[d] = None
      /\ \A e \in Dispatchers \ {d} : outcome'[e] = outcome[e] /\ batch'[e] = batch[e]
      /\ \A e \in Dispatchers : batch'[e] \subseteq batch[e]
  BY <1>2 DEF Inv, TypeOK, TasksOK
<1>6. Numbered'
  BY <1>2, <1>4, <1>5, NumberedFrame DEF Inv, Exists
<1>7. ASSUME lost[o] = "no"
      PROVE  /\ \A e \in Dispatchers : Id(o) \notin batch'[e]
             /\ \A q \in Outcomes : <<Id(o), q>> \notin orphans
             /\ status[o] = "delivering"
             /\ ~(DeliveredUnstored(o))'
  <2>1. /\ \A e \in Dispatchers : Id(o) \notin batch'[e]
        /\ \A q \in Outcomes : <<Id(o), q>> \notin orphans
        /\ status[o] = "delivering"
    BY <1>1, <1>5, <1>7 DEF Inv, Alone, AloneAt
  <2> QED
    BY <1>1, <1>2, <1>4, <2>1 DEF DeliveredUnstored, Oldest, Outcomes
<1>8. ASSUME NEW p \in Ops PROVE (AloneAt(p))'
  <2>1. CASE p = o
    BY <1>2, <1>4, <1>7, <2>1 DEF AloneAt
  <2>2. CASE p # o
    BY <1>2, <1>3, <1>4, <1>5, <2>2 DEF AloneAt, Inv, Alone
  <2> QED
    BY <2>1, <2>2
<1>9. (DeliveredUnstored(o))' => DeliveredUnstored(o)
  BY <1>1, <1>2, <1>5, BatchShrinks
<1>10. (AccountedAt(o))'
  <2>1. CASE result = "delivered"
    <3>1. DeliveredUnstored(o)
      BY <1>1, <2>1 DEF DeliveredUnstored, result
    <3> QED
      BY <1>1, <1>2, <1>3, <2>1, <3>1 DEF AccountedAt, Inv, Accounted
  <2>2. CASE result # "delivered"
    <3>1. status'[o] # "delivered"
      BY <1>3, <2>2
    <3>2. (DeliveredUnstored(o))' => writes'[o] > 0
      BY <1>1, <1>2, <1>9 DEF AccountedAt, Inv, Accounted
    <3>3. lost'[o] = "no" => ~(writes'[o] > 0)
      <4>1. DeliveredUnstored(o) => (DeliveredUnstored(o))'
        BY <1>1, <1>2, <1>5, <2>2, OthersShow DEF result
      <4> QED
        BY <1>1, <1>2, <1>7, <4>1 DEF AccountedAt, Inv, Accounted
    <3> QED
      BY <3>1, <3>2, <3>3 DEF AccountedAt
  <2> QED
    BY <2>1, <2>2
<1>11. ASSUME NEW p \in Ops, p # o PROVE (AccountedAt(p))'
  <2>1. (DeliveredUnstored(p))' <=> DeliveredUnstored(p)
    BY <1>1, <1>2, <1>5, <1>11, BatchShrinks, OthersShow
  <2> QED
    BY <1>2, <1>3, <1>4, <1>11, <2>1 DEF AccountedAt, Inv, Accounted
<1> QED
  BY <1>6, <1>8, <1>10, <1>11 DEF Alone, Accounted

\* A failed store call makes the record of a delivered message lost, and drops
\* the rest of the batch.
LEMMA MarkFailsKeeps ==
  ASSUME Inv, NEW d \in Dispatchers, NEW m, Oldest(d, m), MarkFails(d, m)
  PROVE  Numbered' /\ Alone' /\ Accounted'
<1>1. /\ m \in batch[d] /\ m[1] \in Ops /\ (Current(m) <=> (Exists(m[1]) /\ m = Id(m[1])))
      /\ \A p \in Ops : m = Id(p) => p = m[1]
  BY CurrentId DEF Oldest, Inv
<1>2. /\ UNCHANGED <<status, created, rows, orphans, writes>>
      /\ batch' = [batch EXCEPT ![d] = {}]
      /\ outcome' = [outcome EXCEPT ![d] = None]
  BY DEF MarkFails, rowVars
<1>3. \A p \in Ops : (Exists(p))' = Exists(p) /\ (Id(p))' = Id(p)
  BY <1>2 DEF Exists, Id
<1>4. /\ batch'[d] = {} /\ outcome'[d] = None
      /\ \A e \in Dispatchers \ {d} : outcome'[e] = outcome[e] /\ batch'[e] = batch[e]
      /\ \A e \in Dispatchers : batch'[e] \subseteq batch[e]
  BY <1>2 DEF Inv, TypeOK, TasksOK
<1>5. Numbered'
  BY <1>2, <1>4, NumberedFrame DEF Inv
<1>6. /\ \A p \in Ops : lost'[p] = "no" => lost[p] = "no"
      /\ outcome[d] = "delivered" /\ Current(m) => lost'[m[1]] = "yes"
      /\ \A p \in Ops \ {m[1]} : lost'[p] = lost[p]
      /\ outcome[d] # "delivered" => lost' = lost
  BY <1>1 DEF MarkFails, Unrecorded, Inv, TypeOK, HistoryOK
<1>7. Alone'
  BY <1>2, <1>3, <1>4, <1>6 DEF Inv, Alone, AloneAt
<1>8. ASSUME NEW p \in Ops PROVE (AccountedAt(p))'
  <2> SUFFICES ASSUME Exists(p) PROVE (AccountedAt(p))'
    BY <1>3 DEF AccountedAt
  <2>1. (DeliveredUnstored(p))' => DeliveredUnstored(p)
    BY <1>2, <1>4, BatchShrinks
  <2>2. CASE m = Id(p) /\ outcome[d] = "delivered"
    <3>1. lost'[p] = "yes"
      BY <1>1, <1>6, <2>2
    <3> QED
      BY <1>2, <1>3, <2>1, <3>1 DEF AccountedAt, Inv, Accounted
  <2>3. CASE ~(m = Id(p) /\ outcome[d] = "delivered")
    <3>1. DeliveredUnstored(p) => (DeliveredUnstored(p))'
      <4>1. CASE m # Id(p)
        BY <1>2, <1>4, <4>1, OthersShow
      <4>2. CASE outcome[d] # "delivered"
        BY <1>2, <1>4, <4>2, OthersShow
      <4> QED
        BY <2>3, <4>1, <4>2
    <3> QED
      BY <1>2, <1>3, <1>6, <2>1, <3>1 DEF AccountedAt, Inv, Accounted
  <2> QED
    BY <2>2, <2>3
<1> QED
  BY <1>5, <1>7, <1>8 DEF Accounted

\* A left-over store call writes the row it was made for, which was its alone or
\* counts as lost.
LEMMA OrphanKeeps ==
  ASSUME Inv, NEW c \in orphans, OrphanMark(c)
  PROVE  Numbered' /\ Alone' /\ Accounted'
<1> DEFINE o == c[1][1]
           result == c[2]
<1>1. /\ o \in Ops /\ result \in Outcomes /\ c = <<c[1], result>>
      /\ (Current(c[1]) <=> (Exists(o) /\ c[1] = Id(o)))
      /\ \A p \in Ops : c[1] = Id(p) => p = o
  BY OrphanId DEF Inv
<1>2. /\ orphans' = orphans \ {c}
      /\ UNCHANGED <<created, rows, batch, outcome, writes, lost>>
      /\ Current(c[1]) => Record(o, result)
      /\ ~Current(c[1]) => UNCHANGED status
  BY DEF OrphanMark, histVars
<1> HIDE DEF o, result
<1>3. /\ \A p \in Ops \ {o} : status'[p] = status[p]
      /\ Current(c[1]) => /\ status'[o] # "absent"
                          /\ status'[o] = "delivered" <=> result = "delivered"
  <2>1. CASE Current(c[1])
    <3>1. RowsOK /\ status \in [Ops -> Pending \cup Terminal \cup {"absent"}]
      BY DEF Inv, TypeOK, RowsOK
    <3>2. PICK st \in Pending \cup Terminal : status' = [status EXCEPT ![o] = st]
      BY <1>1, <1>2, <2>1, <3>1, RecordTypes
    <3>3. result = "delivered" => status' = [status EXCEPT ![o] = "delivered"]
      BY <1>1, <1>2, <2>1, <3>1, RecordTypes
    <3>4. result # "delivered" => status'[o] # "delivered"
      BY <1>1, <1>2, <2>1, <3>1, RecordTypes
    <3> QED
      BY <1>1, <3>1, <3>2, <3>3, <3>4 DEF Pending, Terminal
  <2>2. CASE ~Current(c[1])
    BY <1>2, <2>2
  <2> QED
    BY <2>1, <2>2
<1>4. \A p \in Ops : (Exists(p))' = Exists(p) /\ (Id(p))' = Id(p)
  BY <1>1, <1>2, <1>3 DEF Exists, Id
<1>5. Numbered'
  BY <1>2, <1>4, NumberedFrame DEF Inv, Exists
<1>6. ASSUME NEW p \in Ops
      PROVE  /\ (DeliveredUnstored(p))' => DeliveredUnstored(p)
             /\ DeliveredUnstored(p) /\ ~(c[1] = Id(p) /\ result = "delivered")
                  => (DeliveredUnstored(p))'
  BY <1>1, <1>2, <1>4 DEF DeliveredUnstored, Oldest
<1>7. ASSUME Current(c[1]), lost[o] = "no"
      PROVE  /\ \A e \in Dispatchers : Id(o) \notin batch[e]
             /\ \A q \in Outcomes : <<Id(o), q>> \notin orphans'
             /\ status[o] = "delivering"
  BY <1>1, <1>2, <1>7 DEF Inv, Alone, AloneAt
<1>8. ASSUME NEW p \in Ops PROVE (AloneAt(p))'
  <2>1. CASE p = o /\ Current(c[1])
    BY <1>2, <1>4, <1>7, <2>1 DEF AloneAt
  <2>2. CASE ~(p = o /\ Current(c[1]))
    <3>1. status'[p] = status[p]
      BY <1>2, <1>3, <2>2
    <3> QED
      BY <1>2, <1>4, <3>1 DEF AloneAt, Inv, Alone
  <2> QED
    BY <2>1, <2>2
<1>9. ASSUME NEW p \in Ops PROVE (AccountedAt(p))'
  <2> SUFFICES ASSUME Exists(p) PROVE (AccountedAt(p))'
    BY <1>4 DEF AccountedAt
  <2>1. CASE c[1] = Id(p)
    <3>1. p = o /\ Current(c[1])
      BY <1>1, <2>1
    <3>2. CASE result = "delivered"
      <4>1. DeliveredUnstored(p)
        BY <1>1, <2>1, <3>2 DEF DeliveredUnstored
      <4> QED
        BY <1>2, <1>3, <3>1, <3>2, <4>1 DEF AccountedAt, Inv, Accounted
    <3>3. CASE result # "delivered"
      <4>1. status'[p] # "delivered"
        BY <1>3, <3>1, <3>3
      <4>2. (DeliveredUnstored(p))' => writes'[p] > 0
        BY <1>2, <1>6 DEF AccountedAt, Inv, Accounted
      <4>3. lost'[p] = "no" /\ writes'[p] > 0 => (DeliveredUnstored(p))'
        BY <1>2, <1>6, <1>7, <3>1, <3>3 DEF AccountedAt, Inv, Accounted
      <4> QED
        BY <4>1, <4>2, <4>3 DEF AccountedAt
    <3> QED
      BY <3>2, <3>3
  <2>2. CASE c[1] # Id(p)
    <3>1. status'[p] = status[p]
      BY <1>1, <1>2, <1>3, <2>2
    <3>2. (DeliveredUnstored(p))' <=> DeliveredUnstored(p)
      BY <1>6, <2>2
    <3> QED
      BY <1>2, <1>4, <3>1, <3>2 DEF AccountedAt, Inv, Accounted
  <2> QED
    BY <2>1, <2>2
<1> QED
  BY <1>5, <1>8, <1>9 DEF Alone, Accounted

-----------------------------------------------------------------------------
(* Aborts, crashes and the reaper.                                         *)

\* An aborted dispatcher leaves at most one store call behind; what it may have
\* typed, or may not have recorded, counts as lost.
LEMMA AbortKeeps ==
  ASSUME Inv, NEW d \in Dispatchers, Abort(d)
  PROVE  Numbered' /\ Alone' /\ Accounted'
<1>1. /\ UNCHANGED <<status, created, rows>>
      /\ batch' = [batch EXCEPT ![d] = {}]
      /\ outcome' = [outcome EXCEPT ![d] = None]
  BY DEF Abort, rowVars
<1>2. /\ \A p \in Ops : (Exists(p))' = Exists(p) /\ (Id(p))' = Id(p)
      /\ batch'[d] = {} /\ outcome'[d] = None
      /\ \A e \in Dispatchers \ {d} : batch'[e] = batch[e] /\ outcome'[e] = outcome[e]
      /\ \A e \in Dispatchers : batch'[e] \subseteq batch[e]
  BY <1>1 DEF Exists, Id, Inv, TypeOK, TasksOK
<1>3. CASE phase[d] # "mark" /\ UNCHANGED <<writes, orphans, lost>>
  <2>1. Numbered'
    BY <1>1, <1>2, <1>3, NumberedFrame DEF Inv
  <2>2. Alone'
    BY <1>1, <1>2, <1>3 DEF Inv, Alone, AloneAt
  <2>3. outcome[d] = None
    BY <1>3 DEF Inv, TypeOK, TasksOK
  <2>4. \A p \in Ops : (DeliveredUnstored(p))' <=> DeliveredUnstored(p)
    BY <1>2, <1>3, <2>3 DEF DeliveredUnstored, Oldest, None
  <2>5. Accounted'
    BY <1>1, <1>2, <1>3, <2>4 DEF Inv, Accounted, AccountedAt
  <2> QED
    BY <2>1, <2>2, <2>5
<1>4. ASSUME NEW m \in batch[d], Oldest(d, m), phase[d] = "type",
             writes' = Typed(m), lost' = Unrecorded(m), UNCHANGED orphans
      PROVE  Numbered' /\ Alone' /\ Accounted'
  <2>1. Numbered'
    BY <1>1, <1>2, <1>4, NumberedFrame DEF Inv
  <2>2. /\ m[1] \in Ops /\ outcome[d] = None
        /\ \A p \in Ops : writes[p] \in 0..2 /\ lost[p] \in {"yes", "no"}
    BY CurrentId, <1>4 DEF Inv, TypeOK, TasksOK, HistoryOK
  <2>3. \A p \in Ops :
          \/ writes'[p] = writes[p] /\ lost'[p] = lost[p]
          \/ writes'[p] > 0 /\ lost'[p] = "yes"
    BY <1>4, <2>2 DEF Typed, Unrecorded, UpTo, Inv, TypeOK, HistoryOK
  <2>4. Alone'
    BY <1>1, <1>2, <1>4, <2>3 DEF Inv, Alone, AloneAt
  <2>5. \A p \in Ops : (DeliveredUnstored(p))' <=> DeliveredUnstored(p)
    BY <1>2, <1>4, <2>2 DEF DeliveredUnstored, Oldest, None
  <2>6. Accounted'
    BY <1>1, <1>2, <2>3, <2>5 DEF Inv, Accounted, AccountedAt
  <2> QED
    BY <2>1, <2>4, <2>6
<1>5. ASSUME NEW m \in batch[d], Oldest(d, m), phase[d] = "mark",
             orphans' \in {orphans, orphans \cup {<<m, outcome[d]>>}},
             lost' = IF outcome[d] = "delivered" THEN Unrecorded(m) ELSE lost,
             UNCHANGED writes
      PROVE  Numbered' /\ Alone' /\ Accounted'
  <2>1. Numbered'
    BY <1>1, <1>2, <1>5, NumberedFrame DEF Inv
  <2>2. /\ m[1] \in Ops /\ (Current(m) <=> (Exists(m[1]) /\ m = Id(m[1])))
        /\ \A p \in Ops : m = Id(p) => p = m[1]
    BY CurrentId DEF Inv
  <2>3. /\ \A p \in Ops : lost'[p] = "no" => lost[p] = "no"
        /\ \A p \in Ops : lost'[p] = lost[p] \/ (m = Id(p) /\ outcome[d] = "delivered")
        /\ \A p \in Ops : Exists(p) /\ m = Id(p) /\ outcome[d] = "delivered" => lost'[p] = "yes"
    BY <1>5, <2>2 DEF Unrecorded, Inv, TypeOK, HistoryOK
  <2>4. ASSUME NEW p \in Ops PROVE (AloneAt(p))'
    <3> SUFFICES ASSUME Exists(p), lost[p] = "no" PROVE (AloneAt(p))'
      BY <1>2, <2>3 DEF AloneAt
    <3>1. AloneAt(p)
      BY DEF Inv, Alone
    <3>2. CASE m = Id(p)
      <4>1. /\ \A e \in Dispatchers : Id(p) \notin batch'[e]
            /\ \A q \in Outcomes : <<Id(p), q>> \notin orphans
            /\ status[p] = "delivering"
        BY <1>2, <3>1, <3>2 DEF AloneAt
      <4> QED
        BY <1>1, <1>2, <1>5, <4>1 DEF AloneAt
    <3>3. CASE m # Id(p)
      <4>1. \A q \in Outcomes : <<Id(p), q>> \in orphans' <=> <<Id(p), q>> \in orphans
        BY <1>5, <3>3
      <4> QED
        BY <1>1, <1>2, <3>1, <4>1 DEF AloneAt
    <3> QED
      BY <3>2, <3>3
  <2>5. ASSUME NEW p \in Ops PROVE (AccountedAt(p))'
    <3> SUFFICES ASSUME Exists(p) PROVE (AccountedAt(p))'
      BY <1>2 DEF AccountedAt
    <3>1. (DeliveredUnstored(p))' => DeliveredUnstored(p)
      BY <1>2, <1>5 DEF DeliveredUnstored, Oldest, None
    <3>2. CASE m = Id(p) /\ outcome[d] = "delivered"
      <4>1. lost'[p] = "yes"
        BY <2>3, <3>2
      <4> QED
        BY <1>1, <1>2, <1>5, <3>1, <4>1 DEF AccountedAt, Inv, Accounted
    <3>3. CASE ~(m = Id(p) /\ outcome[d] = "delivered")
      <4>1. ~(outcome[d] = "delivered" /\ Oldest(d, Id(p)))
        BY <1>5, <3>3, OldestUnique DEF Inv
      <4>2. DeliveredUnstored(p) => (DeliveredUnstored(p))'
        BY <1>2, <1>5, <4>1 DEF DeliveredUnstored, Oldest
      <4>3. lost'[p] = lost[p]
        BY <2>3, <3>3
      <4> QED
        BY <1>1, <1>2, <1>5, <3>1, <4>2, <4>3 DEF AccountedAt, Inv, Accounted
    <3> QED
      BY <3>2, <3>3
  <2> QED
    BY <2>1, <2>4, <2>5 DEF Alone, Accounted
<1> QED
  BY <1>3, <1>4, <1>5 DEF Abort

\* After a crash nothing is in flight, and whatever was counts as lost.
LEMMA CrashKeeps ==
  ASSUME Inv, Crash
  PROVE  Numbered' /\ Alone' /\ Accounted'
<1>1. /\ UNCHANGED <<status, created, rows>> /\ orphans' = {}
      /\ batch' = [d \in Dispatchers |-> {}]
      /\ outcome' = [d \in Dispatchers |-> None]
  BY DEF Crash, rowVars
<1>2. \A o \in Ops : (Exists(o))' = Exists(o) /\ (Id(o))' = Id(o)
  BY <1>1 DEF Exists, Id
<1>3. Numbered'
  BY <1>1, <1>2 DEF Inv, Numbered
<1>4. Alone'
  BY <1>1, <1>2 DEF Alone, AloneAt
<1>5. \A o \in Ops :
        \/ writes'[o] > 0 /\ lost'[o] = "yes"
        \/ writes'[o] = writes[o] /\ lost'[o] = "yes"
        \/ writes'[o] = writes[o] /\ lost'[o] = lost[o] /\ ~DeliveredUnstored(o)
  BY DEF Crash, UpTo, Inv, TypeOK, HistoryOK
<1>6. \A o \in Ops : ~(DeliveredUnstored(o))'
  BY <1>1 DEF DeliveredUnstored, None
<1>7. Accounted'
  BY <1>1, <1>2, <1>5, <1>6 DEF Inv, Accounted, AccountedAt
<1> QED
  BY <1>3, <1>4, <1>7

\* The reaper only removes rows.
LEMMA ReapKeeps ==
  ASSUME Inv, NEW d \in Dispatchers, Reap(d)
  PROVE  Numbered' /\ Alone' /\ Accounted'
<1>1. /\ UNCHANGED <<created, rows, batch, outcome, orphans, writes, lost>>
      /\ \A o \in Ops : status'[o] \in {status[o], "absent"}
  BY DEF Reap, histVars
<1>2. \A o \in Ops : /\ (Id(o))' = Id(o)
                     /\ (DeliveredUnstored(o))' <=> DeliveredUnstored(o)
                     /\ (Exists(o))' => Exists(o) /\ status'[o] = status[o]
  BY <1>1 DEF Id, DeliveredUnstored, Oldest, Exists
<1>3. Numbered'
  BY <1>1, NumberedFrame DEF Inv
<1>4. Alone'
  BY <1>1, <1>2 DEF Inv, Alone, AloneAt
<1>5. Accounted'
  BY <1>1, <1>2 DEF Inv, Accounted, AccountedAt
<1> QED
  BY <1>3, <1>4, <1>5

-----------------------------------------------------------------------------
(* The theorems.                                                           *)

\* Nothing exists at the start.
LEMMA InitInv == Init => Inv
<1> SUFFICES ASSUME Init PROVE Inv
  OBVIOUS
<1>1. TypeOK
  BY DEF Init, TypeOK, RowsOK, TasksOK, EnvOK, HistoryOK, Phases, Working
<1>2. Numbered
  BY DEF Init, Numbered, Exists
<1>3. Alone /\ Accounted
  BY DEF Init, Alone, AloneAt, Accounted, AccountedAt, Exists
<1> QED
  BY <1>1, <1>2, <1>3 DEF Inv

\* Every step keeps the invariant.
LEMMA NextInv == Inv /\ [Next]_vars => Inv'
<1> SUFFICES ASSUME Inv, [Next]_vars PROVE Inv'
  OBVIOUS
<1>1. TypeOK'
  BY TypesKept DEF Inv
<1> SUFFICES Numbered' /\ Alone' /\ Accounted'
  BY <1>1 DEF Inv
<1>2. CASE Idle
  BY <1>2, IdleKeepsCore, CoreKeepsInv DEF Inv
<1>3. ASSUME NEW o \in Ops, Enqueue(o) PROVE Numbered' /\ Alone' /\ Accounted'
  BY <1>3, EnqueueKeeps
<1>4. ASSUME NEW d \in Dispatchers, Abort(d) \/ LeaseDue(d) \/ Reap(d)
      PROVE  Numbered' /\ Alone' /\ Accounted'
  BY <1>4, AbortKeeps, LeaseKeeps, ReapKeeps
<1>5. ASSUME NEW d \in Dispatchers, NEW m \in batch[d], Oldest(d, m),
             Deliver(d, m) \/ Mark(d, m) \/ MarkFails(d, m)
      PROVE  Idle \/ (Numbered' /\ Alone' /\ Accounted')
  <2>1. CASE Admitted(d, m)
    BY <2>1 DEF Idle
  <2>2. CASE Mark(d, m)
    BY <1>5, <2>2, MarkKeeps
  <2>3. CASE MarkFails(d, m)
    BY <1>5, <2>3, MarkFailsKeeps
  <2>4. CASE Deliver(d, m) /\ ~Admitted(d, m)
    BY <1>5, <2>4, DeliverKeeps DEF Deliver
  <2> QED
    BY <1>5, <2>1, <2>2, <2>3, <2>4
<1>6. CASE Crash
  BY <1>6, CrashKeeps
<1>7. ASSUME NEW c \in orphans, OrphanMark(c) PROVE Numbered' /\ Alone' /\ Accounted'
  BY <1>7, OrphanKeeps
<1>8. Idle \/ (Numbered' /\ Alone' /\ Accounted')
  BY <1>3, <1>4, <1>5, <1>6, <1>7, RetainedKeeps DEF Next, Work, Idle
<1> QED
  BY <1>2, <1>8

\* The invariant holds throughout.
LEMMA AlwaysInv == Spec => []Inv
BY InitInv, NextInv, PTL DEF Spec

\* The columns, the tasks and the history keep their types (messages,
\* run_dispatcher).
THEOREM TypeCorrect == Spec => []TypeOK
<1>1. Inv => TypeOK
  BY DEF Inv
<1> QED
  BY <1>1, AlwaysInv, PTL

\* A row that says 'delivered' was typed into its target, whichever dispatcher
\* or left-over store call said so (dispatch_due_with, mark_delivered).
THEOREM DeliveredRowsWereTyped == Spec => []DeliveredWasTyped
<1>1. Inv => DeliveredWasTyped
  BY DEF Inv, Accounted, AccountedAt, DeliveredWasTyped, Exists
<1> QED
  BY <1>1, AlwaysInv, PTL

\* Only a step that types m raises a count, and only m's.
LEMMA WhoTypes ==
  ASSUME Inv, [Next]_vars, NEW o \in Ops, created'[o] = created[o], writes[o] > 0,
         writes'[o] > writes[o]
  PROVE  \E d \in Dispatchers : \E m \in batch[d] :
           Oldest(d, m) /\ phase[d] = "type" /\ Current(m) /\ m[1] = o
<1>1. writes \in [Ops -> 0..2]
  BY DEF Inv, TypeOK, HistoryOK
<1>2. ~Idle
  BY <1>1, IdleKeepsCore DEF core
<1>3. ASSUME NEW p \in Ops, Enqueue(p) PROVE FALSE
  BY <1>1, <1>3 DEF Enqueue
<1>4. ASSUME NEW d \in Dispatchers, LeaseDue(d) \/ Reap(d) PROVE FALSE
  BY <1>1, <1>4 DEF LeaseDue, Reap, histVars
<1>5. ASSUME NEW c \in orphans, OrphanMark(c) PROVE FALSE
  BY <1>1, <1>5 DEF OrphanMark, histVars
<1>6. ASSUME NEW d \in Dispatchers, NEW m \in batch[d], Oldest(d, m), writes' = Typed(m)
      PROVE  Current(m) /\ m[1] = o
  <2>1. m[1] \in Ops
    BY CurrentId DEF Inv
  <2> QED
    BY <1>1, <1>6, <2>1 DEF Typed
<1>7. ASSUME NEW d \in Dispatchers, Abort(d)
      PROVE  \E m \in batch[d] : Oldest(d, m) /\ phase[d] = "type" /\ Current(m) /\ m[1] = o
  <2>1. writes' # writes
    BY <1>1
  <2>2. PICK m \in batch[d] : Oldest(d, m) /\ phase[d] = "type" /\ writes' = Typed(m)
    BY <1>7, <2>1 DEF Abort
  <2> QED
    BY <1>6, <2>2
<1>8. ASSUME NEW d \in Dispatchers, NEW m \in batch[d], Oldest(d, m),
             Deliver(d, m) \/ Retained(d, m) \/ Mark(d, m) \/ MarkFails(d, m), ~Admitted(d, m)
      PROVE  phase[d] = "type" /\ Current(m) /\ m[1] = o
  <2>1. writes' # writes
    BY <1>1
  <2>2. phase[d] = "type" /\ writes' = Typed(m)
    BY <1>8, <2>1 DEF Deliver, Refused, Purged, Deferred, Delivered, Failed, Retained, Mark, MarkFails,
                          histVars
  <2> QED
    BY <1>6, <1>8, <2>2
<1>9. CASE Crash
  <2>1. PICK d \in Dispatchers :
          status[o] # "absent" /\ phase[d] = "type" /\ Oldest(d, Id(o))
    BY <1>1, <1>9 DEF Crash
  <2>2. Id(o) \in batch[d] /\ Current(Id(o)) /\ Id(o)[1] = o
    BY <2>1 DEF Current, Id, Oldest
  <2> QED
    BY <2>1, <2>2
<1>10. \/ \E p \in Ops : Enqueue(p)
       \/ \E d \in Dispatchers : Abort(d) \/ LeaseDue(d) \/ Reap(d)
       \/ \E d \in Dispatchers : \E m \in batch[d] :
            /\ Oldest(d, m) /\ ~Admitted(d, m)
            /\ Deliver(d, m) \/ Retained(d, m) \/ Mark(d, m) \/ MarkFails(d, m)
       \/ Crash
       \/ \E c \in orphans : OrphanMark(c)
  BY <1>2 DEF Next, Work, Idle
<1> QED
  BY <1>3, <1>4, <1>5, <1>7, <1>8, <1>9, <1>10

\* A message is typed a second time only when the record of an earlier delivery
\* may be wrong (lease_due, dispatch_due_with, wait_for_dispatcher).
THEOREM TypedOnceUnlessLost == Spec => RetypedOnlyWhenLost
<1>1. Inv /\ [Next]_vars =>
        [\A o \in Ops : created'[o] = created[o] /\ writes[o] > 0 /\ writes'[o] > writes[o]
                           => lost[o] = "yes"]_vars
  <2> SUFFICES ASSUME Inv, [Next]_vars, NEW o \in Ops, created'[o] = created[o], writes[o] > 0,
                      writes'[o] > writes[o]
               PROVE  lost[o] = "yes"
    OBVIOUS
  <2>1. PICK d \in Dispatchers : \E m \in batch[d] :
            Oldest(d, m) /\ phase[d] = "type" /\ Current(m) /\ m[1] = o
    BY WhoTypes
  <2>2. lost[o] # "no"
    BY <2>1, TypingIsFirst
  <2> QED
    BY <2>2 DEF Inv, TypeOK, HistoryOK
<1> QED
  BY <1>1, AlwaysInv, PTL DEF Spec, RetypedOnlyWhenLost

\* The record of an outcome for a row that is terminal needs a loss before it.
LEMMA WhoRewrites ==
  ASSUME Inv, [Next]_vars, NEW o \in Ops, status[o] \in Terminal,
         status'[o] \notin {status[o], "absent"}
  PROVE  lost[o] = "yes"
<1>1. status \in [Ops -> Pending \cup Terminal \cup {"absent"}] /\ RowsOK
  BY DEF Inv, TypeOK, RowsOK
<1>2. status'[o] # status[o] /\ Exists(o) /\ status[o] # "delivering" /\ status[o] \notin Pending
  BY DEF Terminal, Pending, Exists
<1>3. ~Idle
  BY <1>2, IdleKeepsCore DEF core
<1>4. ASSUME NEW p \in Ops, Enqueue(p) PROVE FALSE
  BY <1>1, <1>2, <1>4 DEF Enqueue, Exists
<1>5. ASSUME NEW d \in Dispatchers, Abort(d) \/ LeaseDue(d) \/ Reap(d) PROVE FALSE
  <2>1. CASE LeaseDue(d)
    BY <1>2, <2>1 DEF LeaseDue, TakeLease, Leased, Due
  <2>2. CASE Abort(d)
    BY <1>2, <2>2 DEF Abort, rowVars
  <2>3. CASE Reap(d)
    BY <1>2, <2>3 DEF Reap
  <2> QED
    BY <1>5, <2>1, <2>2, <2>3
<1>6. ASSUME NEW d \in Dispatchers, NEW m \in batch[d],
             Deliver(d, m) \/ Retained(d, m) \/ MarkFails(d, m), ~Admitted(d, m)
      PROVE  FALSE
  BY <1>2, <1>6 DEF Deliver, Refused, Purged, Deferred, Delivered, Failed, FailedDelivery, Outcome,
                    Retained, MarkFails, rowVars
<1>7. CASE Crash
  BY <1>2, <1>7 DEF Crash, rowVars
<1>8. lost[o] # "no"
  <2> SUFFICES ASSUME lost[o] = "no" PROVE FALSE
    OBVIOUS
  <2>1. ASSUME NEW d \in Dispatchers, NEW m \in batch[d], Mark(d, m) PROVE FALSE
    <3>1. /\ m[1] \in Ops /\ m = Id(m[1]) /\ outcome[d] \in Outcomes
          /\ Record(m[1], outcome[d]) /\ UNCHANGED <<created, rows>>
      BY <2>1, CurrentId DEF Mark, Inv, TypeOK, TasksOK, None
    <3>2. m[1] = o
      BY <1>1, <1>2, <3>1, RecordTypes
    <3> QED
      BY <1>2, <3>1, <3>2 DEF Inv, Alone, AloneAt
  <2>2. ASSUME NEW c \in orphans, OrphanMark(c) PROVE FALSE
    <3>1. /\ Current(c[1]) /\ UNCHANGED <<created, rows>>
          /\ Record(c[1][1], c[2])
      BY <1>2, <2>2 DEF OrphanMark
    <3>2. c[1][1] \in Ops /\ c[2] \in Outcomes /\ c = <<Id(c[1][1]), c[2]>>
      BY <3>1, OrphanId DEF Inv
    <3>3. c[1][1] = o
      BY <1>1, <1>2, <3>1, <3>2, RecordTypes
    <3>4. <<Id(o), c[2]>> \in orphans
      BY <3>2, <3>3
    <3> QED
      BY <1>2, <3>2, <3>4 DEF Inv, Alone, AloneAt
  <2> QED
    BY <1>3, <1>4, <1>5, <1>6, <1>7, <2>1, <2>2 DEF Next, Work, Idle
<1> QED
  BY <1>8 DEF Inv, TypeOK, HistoryOK

\* A terminal row only ever disappears, unless a loss let two dispatchers work on
\* it (mark_delivered, mark_delivery_failed, release_delivery_lease).
THEOREM TerminalRowsStay == Spec => TerminalUnlessLost
<1>1. Inv /\ [Next]_vars =>
        [\A o \in Ops : status[o] \in Terminal /\ status'[o] \notin {status[o], "absent"}
                           => lost[o] = "yes"]_vars
  BY WhoRewrites
<1> QED
  BY <1>1, AlwaysInv, PTL DEF Spec, TerminalUnlessLost
=============================================================================
