----------------------- MODULE MessageBusPoisonProofs -----------------------
(***************************************************************************)
(* That a message of the bus is poisoned only after MaxAttempts failed     *)
(* deliveries, for any keys, targets, dispatchers, limits and bounds.      *)
(*                                                                         *)
(* The argument: an attempt is counted after the delivery it stands for    *)
(* has failed, possibly much later and by a store call whose dispatcher is *)
(* gone.  So the attempts of a row, together with the failures that are    *)
(* still on their way to it, never outnumber the deliveries that failed    *)
(* (CountedAt).  A failure is on its way at most once: a dispatcher that   *)
(* is aborted leaves at most the call it was about to make.                *)
(***************************************************************************)
EXTENDS MessageBusProofs, FiniteSetTheorems

USE TargetAssumption, ServerAssumption, LimitsAssumption, BoundsAssumption

\* The dispatchers that are about to record a failure of o's row, and whether a
\* left-over store call is.
Failing(o) == {d \in Dispatchers : outcome[d] = "failed" /\ Oldest(d, Id(o))}
LeftOver(o) == <<Id(o), "failed">> \in orphans

\* The failures on their way.
InFlight(o) == Cardinality(Failing(o)) + (IF LeftOver(o) THEN 1 ELSE 0)

\* No attempt is counted without a failed delivery, and none twice.
CountedAt(o) ==
  /\ IsFiniteSet(Failing(o))
  /\ Exists(o) => /\ UpTo(MaxAttempts, attempt[o] + InFlight(o)) <= failures[o]
                  /\ status[o] = "poisoned" => failures[o] = MaxAttempts

Counted == \A o \in Ops : CountedAt(o)

-----------------------------------------------------------------------------
(* The count of one row.                                                   *)

\* A count is a number.
LEMMA InFlightNat ==
  ASSUME NEW o, IsFiniteSet(Failing(o))
  PROVE  InFlight(o) \in Nat /\ Cardinality(Failing(o)) \in Nat
BY FS_CardinalityType DEF InFlight

\* Attempts and failures on their way may be exchanged, and fall.
LEMMA SumKept ==
  ASSUME TypeOK, TypeOK', NEW o \in Ops, CountedAt(o), IsFiniteSet((Failing(o))'),
         (Exists(o))' => Exists(o), failures'[o] = failures[o],
         attempt'[o] + (InFlight(o))' <= attempt[o] + InFlight(o),
         status'[o] = "poisoned" => status[o] = "poisoned" \/ attempt'[o] >= MaxAttempts
  PROVE  (CountedAt(o))'
<1> SUFFICES ASSUME (Exists(o))'
             PROVE  /\ UpTo(MaxAttempts, attempt'[o] + (InFlight(o))') <= failures'[o]
                    /\ status'[o] = "poisoned" => failures'[o] = MaxAttempts
  BY DEF CountedAt
<1> DEFINE before == attempt[o] + InFlight(o)
           after == attempt'[o] + (InFlight(o))'
<1>1. before \in Nat /\ after \in Nat /\ attempt'[o] \in Nat /\ failures[o] \in 0..MaxAttempts
      /\ after >= attempt'[o]
  <2>1. InFlight(o) \in Nat
    BY InFlightNat DEF CountedAt
  <2>2. (InFlight(o))' \in Nat
    <3>1. Cardinality((Failing(o))') \in Nat
      BY FS_CardinalityType
    <3> QED
      BY <3>1 DEF InFlight
  <2>3. attempt[o] \in Nat /\ attempt'[o] \in Nat /\ failures[o] \in 0..MaxAttempts
    BY DEF TypeOK, RowsOK, HistoryOK
  <2> QED
    BY <2>1, <2>2, <2>3
<1>2. UpTo(MaxAttempts, before) <= failures[o]
      /\ (status[o] = "poisoned" => failures[o] = MaxAttempts)
  BY DEF CountedAt
<1>3. after <= before
  OBVIOUS
<1> HIDE DEF before, after
<1>4. UpTo(MaxAttempts, after) <= failures'[o]
  BY <1>1, <1>2, <1>3 DEF UpTo
<1>5. attempt'[o] >= MaxAttempts => failures'[o] = MaxAttempts
  BY <1>1, <1>4 DEF UpTo
<1> QED
  BY <1>2, <1>4, <1>5 DEF after

\* Failures that are no longer on their way are not counted.
LEMMA FewerFailing ==
  ASSUME TypeOK, TypeOK', NEW o \in Ops, CountedAt(o), created'[o] = created[o],
         \A d \in Dispatchers : outcome'[d] = "failed"
                                  => outcome[d] = "failed" /\ batch'[d] = batch[d],
         (LeftOver(o))' => LeftOver(o),
         attempt'[o] = attempt[o], failures'[o] = failures[o], (Exists(o))' => Exists(o),
         status'[o] = "poisoned" => status[o] = "poisoned"
  PROVE  (CountedAt(o))'
<1>1. (Failing(o))' \subseteq Failing(o) /\ IsFiniteSet(Failing(o))
  BY DEF Failing, Oldest, Id, CountedAt
<1>2. /\ IsFiniteSet((Failing(o))')
      /\ Cardinality((Failing(o))') <= Cardinality(Failing(o))
  BY <1>1, FS_Subset
<1>3. Cardinality((Failing(o))') \in Nat /\ Cardinality(Failing(o)) \in Nat
  BY <1>1, <1>2, FS_CardinalityType
<1>4. (InFlight(o))' <= InFlight(o) /\ InFlight(o) \in Nat /\ (InFlight(o))' \in Nat
  BY <1>2, <1>3 DEF InFlight
<1>5. attempt'[o] + (InFlight(o))' <= attempt[o] + InFlight(o)
  BY <1>4 DEF TypeOK, RowsOK
<1> QED
  BY <1>2, <1>5, SumKept

-----------------------------------------------------------------------------
(* Failures on their way are neither made nor recorded.                    *)

\* Steps that make no failure and record none.
LEMMA CalmKeepsCounted ==
  ASSUME TypeOK, TypeOK', Counted, UNCHANGED <<created, attempt, failures>>,
         \A d \in Dispatchers : outcome'[d] = "failed"
                                  => outcome[d] = "failed" /\ batch'[d] = batch[d],
         \A o \in Ops : (LeftOver(o))' => LeftOver(o),
         \A o \in Ops : /\ status[o] = "absent" => status'[o] = "absent"
                        /\ status'[o] = "poisoned" => status[o] = "poisoned"
  PROVE  Counted'
<1> SUFFICES ASSUME NEW o \in Ops PROVE (CountedAt(o))'
  BY DEF Counted
<1>1. CountedAt(o) /\ ((Exists(o))' => Exists(o))
  BY DEF Counted, Exists
<1> QED
  BY <1>1, FewerFailing

\* The process and the targets.
LEMMA IdleKeepsCounted ==
  ASSUME TypeOK, TypeOK', Counted, Idle
  PROVE  Counted'
<1>1. UNCHANGED core
  BY IdleKeepsCore
<1>2. UNCHANGED <<attempt, failures>>
  BY DEF Idle, StartServer, StartFails, Start, Exit, BeginTick, LeaseFails, Admitted, StopServer,
         Hold, Unhold, PurgeBegin, PurgeEnd, Clock, vars, rowVars, histVars
<1>3. \A o \in Ops : (LeftOver(o))' = LeftOver(o)
  BY <1>1 DEF core, LeftOver, Id
<1> QED
  BY <1>1, <1>2, <1>3, CalmKeepsCounted DEF core

\* A lease, the reaper and a failed call.
LEMMA DropsKeepCounted ==
  ASSUME TypeOK, TypeOK', Counted, NEW d \in Dispatchers,
         LeaseDue(d) \/ Reap(d) \/ \E m \in batch[d] : MarkFails(d, m)
  PROVE  Counted'
<1>1. CASE LeaseDue(d)
  <2>1. /\ UNCHANGED <<created, attempt, failures, outcome, orphans>>
        /\ outcome[d] = None /\ \A e \in Dispatchers \ {d} : batch'[e] = batch[e]
        /\ status' = [o \in Ops |-> IF o \in Leased THEN "delivering" ELSE status[o]]
    BY <1>1 DEF LeaseDue, TakeLease, TypeOK, TasksOK
  <2>2. \A o \in Leased : status[o] # "absent"
    BY DEF Leased, Due, Pending
  <2>3. \A o \in Ops : (LeftOver(o))' = LeftOver(o)
    BY <2>1 DEF LeftOver, Id
  <2> QED
    BY <2>1, <2>2, <2>3, CalmKeepsCounted DEF None
<1>2. CASE Reap(d)
  <2>1. /\ UNCHANGED <<created, attempt, failures, outcome, orphans, batch>>
        /\ \A o \in Ops : status'[o] \in {status[o], "absent"}
    BY <1>2 DEF Reap, histVars
  <2>2. \A o \in Ops : (LeftOver(o))' = LeftOver(o)
    BY <2>1 DEF LeftOver, Id
  <2> QED
    BY <2>1, <2>2, CalmKeepsCounted
<1>3. ASSUME NEW m \in batch[d], MarkFails(d, m) PROVE Counted'
  <2>1. /\ UNCHANGED <<status, created, attempt, failures, orphans>> /\ outcome'[d] = None
        /\ \A e \in Dispatchers \ {d} : batch'[e] = batch[e] /\ outcome'[e] = outcome[e]
    BY <1>3 DEF MarkFails, rowVars, TypeOK, TasksOK
  <2>2. \A o \in Ops : (LeftOver(o))' = LeftOver(o)
    BY <2>1 DEF LeftOver, Id
  <2> QED
    BY <2>1, <2>2, CalmKeepsCounted DEF None
<1> QED
  BY <1>1, <1>2, <1>3

\* Nobody works on a new row, and it has not been tried.
LEMMA EnqueueKeepsCounted ==
  ASSUME Inv, TypeOK', Counted, NEW o \in Ops, Enqueue(o)
  PROVE  Counted'
<1>1. /\ rows \in Nat /\ created' = [created EXCEPT ![o] = rows + 1] /\ created \in [Ops -> Nat]
      /\ status' = [status EXCEPT ![o] = "queued"] /\ attempt' = [attempt EXCEPT ![o] = 0]
      /\ failures' = [failures EXCEPT ![o] = 0]
      /\ UNCHANGED <<batch, outcome, orphans>>
      /\ status \in [Ops -> Pending \cup Terminal \cup {"absent"}]
      /\ attempt \in [Ops -> Nat] /\ failures \in [Ops -> 0..MaxAttempts]
  BY DEF Enqueue, taskVars, Inv, TypeOK, RowsOK, TasksOK, HistoryOK
<1>2. ASSUME NEW p \in Ops, p # o PROVE (CountedAt(p))'
  <2>1. (LeftOver(p))' = LeftOver(p) /\ ((Exists(p))' => Exists(p)) /\ created'[p] = created[p]
    BY <1>1, <1>2 DEF LeftOver, Id, Exists
  <2> QED
    BY <1>1, <1>2, <2>1, FewerFailing DEF Counted, Inv
<1>3. (CountedAt(o))'
  <2>1. (Id(o))' = <<o, rows + 1>>
    BY <1>1 DEF Id
  <2>2. (Failing(o))' = {}
    <3>1. \A d \in Dispatchers : \A m \in batch[d] : m[2] \in Nat /\ m[2] <= rows
      BY DEF Inv, Numbered, TypeOK, TasksOK
    <3>2. \A d \in Dispatchers : <<o, rows + 1>> \notin batch[d]
      BY <1>1, <3>1
    <3> QED
      BY <1>1, <2>1, <3>2 DEF Failing, Oldest
  <2>3. ~(LeftOver(o))'
    <3>1. \A c \in orphans : c[1][2] \in Nat /\ c[1][2] <= rows
      BY DEF Inv, Numbered, TypeOK, TasksOK
    <3> QED
      BY <1>1, <2>1, <3>1 DEF LeftOver
  <2>4. (InFlight(o))' = 0 /\ IsFiniteSet((Failing(o))')
    BY <2>2, <2>3, FS_EmptySet DEF InFlight
  <2> QED
    BY <1>1, <2>4 DEF CountedAt, UpTo
<1> QED
  BY <1>2, <1>3 DEF Counted

-----------------------------------------------------------------------------
(* A failure is made.                                                      *)

\* A delivery that fails is counted as one failure more, on its way to the row.
LEMMA FailureKeepsCounted ==
  ASSUME Inv, TypeOK', Counted, NEW d \in Dispatchers, NEW m, Oldest(d, m),
         Purged(d, m) \/ Failed(d, m)
  PROVE  Counted'
<1> SUFFICES ASSUME NEW o \in Ops PROVE (CountedAt(o))'
  BY DEF Counted
<1>0. /\ phase[d] \in {"deliver", "type"} /\ Outcome(d, "failed")
      /\ failures' = IF Current(m)
                        THEN [failures EXCEPT ![m[1]] = UpTo(MaxAttempts, @ + 1)] ELSE failures
  BY DEF Purged, Failed, FailedDelivery
<1>1. /\ UNCHANGED <<status, created, attempt, batch, orphans>>
      /\ outcome' = [outcome EXCEPT ![d] = "failed"] /\ outcome[d] = None
      /\ outcome \in [Dispatchers -> Outcomes \cup {None}]
  BY <1>0 DEF Outcome, rowVars, Inv, TypeOK, TasksOK
<1>2. m \in batch[d] /\ (m = Id(o) => o = m[1]) /\ (Current(m) <=> Exists(m[1]) /\ m = Id(m[1]))
      /\ m[1] \in Ops
  BY CurrentId DEF Oldest, Inv
<1>3. (Id(o))' = Id(o) /\ (LeftOver(o))' = LeftOver(o) /\ (Exists(o))' = Exists(o)
  BY <1>1 DEF Id, LeftOver, Exists
<1>4. CountedAt(o) /\ IsFiniteSet(Failing(o))
  BY DEF Counted, CountedAt
<1>5. CASE m # Id(o)
  <2>1. (Failing(o))' = Failing(o)
    <3>1. ~Oldest(d, Id(o))
      BY <1>5, OldestUnique DEF Inv
    <3> QED
      BY <1>1, <1>3, <3>1 DEF Failing, Oldest
  <2>2. Exists(o) => failures'[o] = failures[o]
    BY <1>0, <1>2, <1>5 DEF Inv, TypeOK, HistoryOK
  <2>3. (InFlight(o))' = InFlight(o)
    BY <1>3, <2>1 DEF InFlight
  <2> QED
    BY <1>1, <1>3, <1>4, <2>1, <2>2, <2>3 DEF CountedAt
<1>6. CASE m = Id(o)
  <2>1. (Failing(o))' = Failing(o) \cup {d} /\ d \notin Failing(o)
    <3>1. d \notin Failing(o)
      BY <1>1 DEF Failing, None
    <3>2. \A e \in Dispatchers : (Oldest(e, Id(o)))' = Oldest(e, Id(o))
      BY <1>1, <1>3 DEF Oldest
    <3> QED
      BY <1>1, <1>3, <1>6, <3>1, <3>2 DEF Failing
  <2>2. /\ IsFiniteSet((Failing(o))')
        /\ Cardinality((Failing(o))') = Cardinality(Failing(o)) + 1
    BY <1>4, <2>1, FS_AddElement
  <2>3. (InFlight(o))' = InFlight(o) + 1 /\ InFlight(o) \in Nat
    BY <1>3, <1>4, <2>2, InFlightNat DEF InFlight
  <2>4. ASSUME Exists(o)
        PROVE  /\ UpTo(MaxAttempts, attempt'[o] + (InFlight(o))') <= failures'[o]
               /\ status'[o] = "poisoned" => failures'[o] = MaxAttempts
    <3>1. failures'[o] = UpTo(MaxAttempts, failures[o] + 1)
      BY <1>0, <1>2, <1>6, <2>4 DEF Inv, TypeOK, HistoryOK
    <3>2. failures[o] \in 0..MaxAttempts /\ attempt[o] \in Nat
      BY DEF Inv, TypeOK, RowsOK, HistoryOK
    <3>3. UpTo(MaxAttempts, attempt[o] + InFlight(o)) <= failures[o]
          /\ (status[o] = "poisoned" => failures[o] = MaxAttempts)
      BY <1>4, <2>4 DEF CountedAt
    <3> QED
      BY <1>1, <2>3, <3>1, <3>2, <3>3 DEF UpTo
  <2> QED
    BY <1>3, <2>2, <2>4 DEF CountedAt
<1> QED
  BY <1>5, <1>6

\* The other deliveries make no failure.
LEMMA DeliverKeepsCounted ==
  ASSUME Inv, TypeOK', Counted, NEW d \in Dispatchers, NEW m, Oldest(d, m),
         Refused(d, m) \/ Purged(d, m) \/ Deferred(d, m) \/ Delivered(d, m) \/ Failed(d, m)
  PROVE  Counted'
<1>1. CASE Purged(d, m) \/ Failed(d, m)
  BY <1>1, FailureKeepsCounted
<1>2. CASE Refused(d, m) \/ Deferred(d, m) \/ Delivered(d, m)
  <2>1. /\ UNCHANGED <<status, created, attempt, failures, batch, orphans>>
        /\ outcome'[d] # "failed" /\ \A e \in Dispatchers \ {d} : outcome'[e] = outcome[e]
    BY <1>2 DEF Refused, Deferred, Delivered, Outcome, rowVars, histVars, Inv, TypeOK, TasksOK
  <2>2. \A o \in Ops : (LeftOver(o))' = LeftOver(o)
    BY <2>1 DEF LeftOver, Id
  <2> QED
    BY <2>1, <2>2, CalmKeepsCounted DEF Inv
<1> QED
  BY <1>1, <1>2

-----------------------------------------------------------------------------
(* A failure is recorded, or left to a store call.                         *)

\* mark_delivery_failed counts an attempt; what records it is no longer on its
\* way.
LEMMA FailedMarkCounts ==
  ASSUME TypeOK, TypeOK', NEW o \in Ops, CountedAt(o), Exists(o), MarkDeliveryFailed(o),
         failures'[o] = failures[o], IsFiniteSet((Failing(o))'),
         (InFlight(o))' = InFlight(o) - 1
  PROVE  (CountedAt(o))'
<1>1. /\ attempt'[o] = attempt[o] + 1 /\ attempt[o] \in Nat
      /\ status'[o] = "poisoned" => attempt'[o] >= MaxAttempts
  BY DEF MarkDeliveryFailed, SetRow, TypeOK, RowsOK
<1>2. InFlight(o) \in Nat
  BY InFlightNat DEF CountedAt
<1>3. attempt'[o] + (InFlight(o))' <= attempt[o] + InFlight(o)
  BY <1>1, <1>2
<1> QED
  BY <1>1, <1>3, SumKept

\* The other records count nothing.
LEMMA OtherMarks ==
  ASSUME TypeOK, NEW o \in Ops, NEW result \in Outcomes \ {"failed"}, Record(o, result)
  PROVE  /\ attempt' = attempt
         /\ \A p \in Ops : /\ status[p] = "absent" /\ p # o => status'[p] = "absent"
                           /\ status'[p] = "poisoned" => status[p] = "poisoned"
BY DEF Record, MarkDelivered, ReleaseDeliveryLease, SetRow, Outcomes, TypeOK, RowsOK

\* The outcome of a delivery is recorded.
LEMMA MarkKeepsCounted ==
  ASSUME Inv, TypeOK', Counted, NEW d \in Dispatchers, NEW m, Oldest(d, m), Mark(d, m)
  PROVE  Counted'
<1> SUFFICES ASSUME NEW o \in Ops PROVE (CountedAt(o))'
  BY DEF Counted
<1>1. /\ m \in batch[d] /\ m[1] \in Ops /\ Exists(m[1]) /\ m = Id(m[1]) /\ outcome[d] \in Outcomes
      /\ (m = Id(o) => o = m[1])
  BY CurrentId DEF Oldest, Mark, Inv, TypeOK, TasksOK, None
<1>2. /\ Record(m[1], outcome[d]) /\ UNCHANGED <<created, orphans, failures>>
      /\ outcome'[d] = None
      /\ \A e \in Dispatchers \ {d} : outcome'[e] = outcome[e] /\ batch'[e] = batch[e]
  BY DEF Mark, histVars, Inv, TypeOK, TasksOK
<1>3. (Id(o))' = Id(o) /\ (LeftOver(o))' = LeftOver(o)
  BY <1>2 DEF Id, LeftOver
<1>4. CountedAt(o) /\ IsFiniteSet(Failing(o))
  BY DEF Counted, CountedAt
<1>5. CASE outcome[d] # "failed"
  <2>1. /\ attempt' = attempt /\ ((Exists(o))' => Exists(o))
        /\ status'[o] = "poisoned" => status[o] = "poisoned"
    BY <1>1, <1>2, <1>5, OtherMarks DEF Inv, Exists
  <2> QED
    BY <1>2, <1>3, <1>4, <2>1, FewerFailing DEF Inv, None
<1>6. CASE outcome[d] = "failed" /\ o # m[1]
  <2>1. attempt'[o] = attempt[o] /\ status'[o] = status[o]
    BY <1>2, <1>6 DEF Record, MarkDeliveryFailed, SetRow, Inv, TypeOK, RowsOK
  <2> QED
    BY <1>2, <1>3, <1>4, <2>1, FewerFailing DEF Inv, None, Exists
<1>7. CASE outcome[d] = "failed" /\ o = m[1]
  <2>1. (Failing(o))' = Failing(o) \ {d} /\ d \in Failing(o)
    BY <1>1, <1>2, <1>3, <1>7 DEF Failing, Oldest, None
  <2>2. /\ IsFiniteSet((Failing(o))')
        /\ Cardinality((Failing(o))') = Cardinality(Failing(o)) - 1
    BY <1>4, <2>1, FS_RemoveElement
  <2>3. (InFlight(o))' = InFlight(o) - 1
    BY <1>3, <1>4, <2>2, InFlightNat DEF InFlight
  <2>4. MarkDeliveryFailed(o)
    BY <1>2, <1>7 DEF Record
  <2> QED
    BY <1>1, <1>2, <1>4, <1>7, <2>2, <2>3, <2>4, FailedMarkCounts DEF Inv
<1> QED
  BY <1>5, <1>6, <1>7

\* A left-over call records its outcome.
LEMMA OrphanKeepsCounted ==
  ASSUME Inv, TypeOK', Counted, NEW c \in orphans, OrphanMark(c)
  PROVE  Counted'
<1> SUFFICES ASSUME NEW o \in Ops PROVE (CountedAt(o))'
  BY DEF Counted
<1>1. /\ c[1][1] \in Ops /\ c[2] \in Outcomes /\ c = <<c[1], c[2]>>
      /\ (Current(c[1]) <=> (Exists(c[1][1]) /\ c[1] = Id(c[1][1])))
  BY OrphanId DEF Inv
<1>2. /\ UNCHANGED <<created, failures, outcome, batch>> /\ orphans' = orphans \ {c}
      /\ Current(c[1]) => Record(c[1][1], c[2])
      /\ ~Current(c[1]) => UNCHANGED <<status, attempt>>
  BY DEF OrphanMark, histVars
<1>3. (Id(o))' = Id(o) /\ ((LeftOver(o))' => LeftOver(o)) /\ (Failing(o))' = Failing(o)
  BY <1>2 DEF Id, LeftOver, Failing, Oldest
<1>4. CountedAt(o) /\ IsFiniteSet(Failing(o))
  BY DEF Counted, CountedAt
<1>5. CASE ~Current(c[1])
  BY <1>2, <1>3, <1>4, <1>5, FewerFailing DEF Inv, Exists
<1>6. CASE Current(c[1]) /\ c[2] # "failed"
  <2>1. /\ attempt' = attempt /\ ((Exists(o))' => Exists(o))
        /\ status'[o] = "poisoned" => status[o] = "poisoned"
    BY <1>1, <1>2, <1>6, OtherMarks DEF Inv, Exists
  <2> QED
    BY <1>2, <1>3, <1>4, <2>1, FewerFailing DEF Inv
<1>7. CASE Current(c[1]) /\ c[2] = "failed" /\ o # c[1][1]
  <2>1. attempt'[o] = attempt[o] /\ status'[o] = status[o]
    BY <1>2, <1>7 DEF Record, MarkDeliveryFailed, SetRow, Inv, TypeOK, RowsOK
  <2> QED
    BY <1>2, <1>3, <1>4, <2>1, FewerFailing DEF Inv, Exists
<1>8. CASE Current(c[1]) /\ c[2] = "failed" /\ o = c[1][1]
  <2>1. LeftOver(o) /\ ~(LeftOver(o))'
    BY <1>1, <1>2, <1>3, <1>8 DEF LeftOver
  <2>2. (InFlight(o))' = InFlight(o) - 1
    BY <1>3, <1>4, <2>1, InFlightNat DEF InFlight
  <2>3. MarkDeliveryFailed(o)
    BY <1>2, <1>8 DEF Record
  <2> QED
    BY <1>1, <1>2, <1>3, <1>4, <1>8, <2>2, <2>3, FailedMarkCounts DEF Inv
<1> QED
  BY <1>5, <1>6, <1>7, <1>8

\* An aborted dispatcher's failure goes over to its left-over call, or is gone.
LEMMA AbortKeepsCounted ==
  ASSUME Inv, TypeOK', Counted, NEW d \in Dispatchers, Abort(d)
  PROVE  Counted'
<1> SUFFICES ASSUME NEW o \in Ops PROVE (CountedAt(o))'
  BY DEF Counted
<1>1. /\ UNCHANGED <<status, created, attempt, failures>> /\ outcome'[d] = None
      /\ \A e \in Dispatchers \ {d} : outcome'[e] = outcome[e] /\ batch'[e] = batch[e]
  BY DEF Abort, rowVars, Inv, TypeOK, TasksOK
<1>2. \/ orphans' = orphans
      \/ \E m \in batch[d] : Oldest(d, m) /\ orphans' = orphans \cup {<<m, outcome[d]>>}
  BY DEF Abort
<1>3. (Id(o))' = Id(o) /\ ((Exists(o))' <=> Exists(o))
  BY <1>1 DEF Id, Exists
<1>4. CountedAt(o) /\ IsFiniteSet(Failing(o))
  BY DEF Counted, CountedAt
<1>5. CASE (LeftOver(o))' => LeftOver(o)
  BY <1>1, <1>3, <1>4, <1>5, FewerFailing DEF Inv, None
<1>6. CASE (LeftOver(o))' /\ ~LeftOver(o)
  <2>1. Oldest(d, Id(o)) /\ outcome[d] = "failed"
    BY <1>2, <1>3, <1>6 DEF LeftOver
  <2>2. (Failing(o))' = Failing(o) \ {d} /\ d \in Failing(o)
    BY <1>1, <1>3, <2>1 DEF Failing, Oldest, None
  <2>3. /\ IsFiniteSet((Failing(o))')
        /\ Cardinality((Failing(o))') = Cardinality(Failing(o)) - 1
    BY <1>4, <2>2, FS_RemoveElement
  <2>4. (InFlight(o))' = InFlight(o) /\ InFlight(o) \in Nat
    BY <1>4, <1>6, <2>3, InFlightNat DEF InFlight
  <2>5. attempt'[o] + (InFlight(o))' <= attempt[o] + InFlight(o)
    BY <1>1, <2>4 DEF Inv, TypeOK, RowsOK
  <2> QED
    BY <1>1, <1>3, <1>4, <2>3, <2>5, SumKept DEF Inv
<1> QED
  BY <1>5, <1>6

-----------------------------------------------------------------------------
(* The theorem.                                                            *)

\* Every step keeps the count.
LEMMA NextKeepsCounted == Inv /\ Inv' /\ Counted /\ [Next]_vars => Counted'
<1> SUFFICES ASSUME Inv, TypeOK', Counted, [Next]_vars PROVE Counted'
  BY DEF Inv
<1>1. CASE Idle
  BY <1>1, IdleKeepsCounted DEF Inv
<1>2. ASSUME NEW o \in Ops, Enqueue(o) PROVE Counted'
  BY <1>2, EnqueueKeepsCounted
<1>3. ASSUME NEW d \in Dispatchers, Abort(d) \/ LeaseDue(d) \/ Reap(d) PROVE Counted'
  BY <1>3, AbortKeepsCounted, DropsKeepCounted DEF Inv
<1>4. ASSUME NEW d \in Dispatchers, NEW m \in batch[d], Oldest(d, m),
             Deliver(d, m) \/ Mark(d, m) \/ MarkFails(d, m)
      PROVE  Idle \/ Counted'
  <2>1. CASE Admitted(d, m)
    BY <2>1 DEF Idle
  <2>2. CASE Mark(d, m)
    BY <1>4, <2>2, MarkKeepsCounted
  <2>3. CASE MarkFails(d, m)
    BY <2>3, DropsKeepCounted DEF Inv
  <2>4. CASE Deliver(d, m) /\ ~Admitted(d, m)
    BY <1>4, <2>4, DeliverKeepsCounted DEF Deliver
  <2> QED
    BY <1>4, <2>1, <2>2, <2>3, <2>4
<1>5. CASE Crash
  <2>1. \A o \in Ops : (LeftOver(o))' => LeftOver(o)
    BY <1>5 DEF Crash, LeftOver
  <2> QED
    BY <1>5, <2>1, CalmKeepsCounted DEF Crash, rowVars, Inv, None
<1>6. ASSUME NEW c \in orphans, OrphanMark(c) PROVE Counted'
  BY <1>6, OrphanKeepsCounted
<1>7. ASSUME NEW d \in Dispatchers, NEW m \in batch[d], Retained(d, m) PROVE Counted'
  <2>1. UNCHANGED <<status, created, attempt, failures, batch, outcome, orphans>>
    BY <1>7 DEF Retained, rowVars
  <2>2. \A o \in Ops : (LeftOver(o))' = LeftOver(o)
    BY <2>1 DEF LeftOver, Id
  <2> QED
    BY <2>1, <2>2, CalmKeepsCounted DEF Inv
<1> QED
  BY <1>1, <1>2, <1>3, <1>4, <1>5, <1>6, <1>7 DEF Next, Work, Idle

\* A message is poisoned only after max_attempts failed deliveries; deferrals,
\* lost leases, aborts and restarts cost it nothing (mark_delivery_failed,
\* release_delivery_lease, wait_for_dispatcher).
THEOREM PoisonedOnlyByFailures == Spec => []PoisonedHasFailed
<1>1. Init => Counted
  <2> SUFFICES ASSUME Init, NEW o \in Ops PROVE CountedAt(o)
    BY DEF Counted
  <2>1. Failing(o) = {} /\ ~Exists(o)
    BY DEF Init, Failing, None, Exists
  <2> QED
    BY <2>1, FS_EmptySet DEF CountedAt
<1>2. Counted => PoisonedHasFailed
  BY DEF Counted, CountedAt, PoisonedHasFailed, Exists
<1> QED
  BY <1>1, <1>2, NextKeepsCounted, AlwaysInv, PTL DEF Spec

=============================================================================
