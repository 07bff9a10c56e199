--------------------------- MODULE PtyInputProofs ---------------------------
(***************************************************************************)
(* Type correctness of the PTY input operations, that a text is typed at   *)
(* most once, that the recorded outcome is true, that a target has one     *)
(* writer, that the operations implement the injection contract and so     *)
(* revise no outcome, and that a row to be retried has an attempt left,    *)
(* for any operations, targets, workers and bounds.                        *)
EXTENDS PtyInput, TLAPS

USE ConstantsAssumption, NamesAssumption

-----------------------------------------------------------------------------
(* Transactions keep the types of the columns.                             *)

\* terminalize_in_transaction writes a terminal status and its tombstone.
LEMMA TerminalizeTypes ==
  ASSUME RowsOK, NEW o \in Ops, NEW s \in Terminal, Terminalize(o, s)
  PROVE  RowsOK'
BY DEF RowsOK, Terminalize, Status, Terminal

\* claim_pty_input counts an attempt and writes a lease.
LEMMA ClaimTypes ==
  ASSUME RowsOK, NEW o \in Ops, NEW w \in Workers, NEW t \in Nat, ClaimPtyInput(o, w, t)
  PROVE  RowsOK'
<1>1. LeaseEnd(o, t) \in Nat
  BY DEF LeaseEnd, RowsOK
<1> QED
  BY <1>1 DEF RowsOK, ClaimPtyInput, Status, NonTerminal, Before

\* renew_pty_input_lease writes a lease.
LEMMA RenewTypes ==
  ASSUME RowsOK, NEW o \in Ops, NEW w \in Workers, NEW t \in Nat, RenewPtyInputLease(o, w, t)
  PROVE  RowsOK'
<1>1. LeaseEnd(o, t) \in Nat
  BY DEF LeaseEnd, RowsOK
<1> QED
  BY <1>1 DEF RowsOK, RenewPtyInputLease

\* begin_pty_actuating writes 'actuating' and its time.
LEMMA BeginTypes ==
  ASSUME RowsOK, NEW o \in Ops, NEW w \in Workers, NEW t \in Nat, BeginPtyActuating(o, w, t)
  PROVE  RowsOK'
BY DEF RowsOK, BeginPtyActuating, Status, NonTerminal

\* A row goes back to 'retry'.
LEMMA RescheduleTypes ==
  ASSUME RowsOK, NEW o \in Ops, NEW t \in Nat, Reschedule(o, t)
  PROVE  RowsOK'
BY DEF RowsOK, Reschedule, Status, NonTerminal, Before

\* retry_pty_input is one of the two above.
LEMMA RetryTypes ==
  ASSUME RowsOK, NEW o \in Ops, NEW w \in Workers, NEW t \in Nat, RetryPtyInput(o, w, t)
  PROVE  RowsOK'
<1>1. CASE attempt[o] >= MaxAttempts
  BY <1>1, TerminalizeTypes DEF RetryPtyInput, Terminal
<1>2. CASE ~(attempt[o] >= MaxAttempts)
  <2>1. t + Backoff \in Nat
    OBVIOUS
  <2> QED
    BY <1>2, <2>1, RescheduleTypes DEF RetryPtyInput
<1> QED
  BY <1>1, <1>2
-----------------------------------------------------------------------------
(* Steps of a worker keep the types of its locks and of its place.         *)

\* Moving on writes a step and the time of a call.
LEMMA GotoTypes ==
  ASSUME TypeOK, NEW w \in Workers, pc[w] # "idle", NEW next \in Steps, Goto(w, next)
  PROVE  /\ pc' \in [Workers -> Steps] /\ stamp' \in [Workers -> Nat]
         /\ job' \in [Workers -> Ops \cup {"none"}]
         /\ \A v \in Workers : pc'[v] # "idle" => job'[v] \in Ops
BY DEF TypeOK, WorkersOK, EnvOK, Goto

\* Returning frees locks.
LEMMA ContinueTypes ==
  ASSUME TypeOK, NEW w \in Workers, pc[w] # "idle", NEW next \in Steps, Continue(w, next)
  PROVE  WorkersOK'
<1>1. /\ pc' \in [Workers -> Steps] /\ stamp' \in [Workers -> Nat]
      /\ job' \in [Workers -> Ops \cup {"none"}]
      /\ \A v \in Workers : pc'[v] # "idle" => job'[v] \in Ops
  BY GotoTypes DEF Continue
<1>2. /\ opLock' \in [Ops -> Workers \cup {"nobody"}]
      /\ targetLock' \in [Targets -> Workers \cup {"nobody"}]
  BY DEF Continue, Release, lockVars, TypeOK, WorkersOK
<1> QED
  BY <1>1, <1>2 DEF WorkersOK

\* A step that leaves the rows alone.
LEMMA StepTypes ==
  ASSUME TypeOK, NEW w \in Workers, NEW from \in Steps \ {"idle"}, NEW next \in Steps,
         Step(w, from, next)
  PROVE  TypeOK'
<1>1. WorkersOK'
  BY ContinueTypes DEF Step
<1> QED
  BY <1>1 DEF Step, TypeOK, RowsOK, ScanOK, EnvOK, rowVars, scanVars, envVars

\* Taking the target.
LEMMA TakeTargetTypes ==
  ASSUME TypeOK, NEW w \in Workers, NEW from \in Steps \ {"idle"}, NEW next \in Steps,
         TakeTarget(w, from, next)
  PROVE  TypeOK'
<1>1. /\ pc' \in [Workers -> Steps] /\ stamp' \in [Workers -> Nat]
      /\ job' \in [Workers -> Ops \cup {"none"}]
      /\ \A v \in Workers : pc'[v] # "idle" => job'[v] \in Ops
  BY GotoTypes DEF TakeTarget
<1>2. targetLock' \in [Targets -> Workers \cup {"nobody"}] /\ opLock' = opLock
  BY DEF TakeTarget, TypeOK, WorkersOK
<1> QED
  BY <1>1, <1>2 DEF TakeTarget, TypeOK, WorkersOK, RowsOK, ScanOK, EnvOK, rowVars, scanVars,
                    envVars

\* A worker's step once its effect on the rows is known to be well typed.
LEMMA WorkerTypes ==
  ASSUME TypeOK, NEW w \in Workers, pc[w] # "idle", RowsOK',
         NEW next \in Steps, Continue(w, next),
         UNCHANGED <<scanVars, envVars>>, writes' \in [Ops -> Nat]
  PROVE  TypeOK'
<1>1. WorkersOK'
  BY ContinueTypes
<1> QED
  BY <1>1 DEF TypeOK, ScanOK, EnvOK, scanVars, envVars

\* Where a call leads is a step, and its effect is its transaction's or none.
LEMMA CallTypes ==
  ASSUME TypeOK, NEW w \in Workers, pc[w] # "idle",
         RowsOK' \/ UNCHANGED rowVars, NEW next \in Steps, Continue(w, next),
         UNCHANGED <<scanVars, envVars, writes>>
  PROVE  TypeOK'
<1>1. RowsOK'
  BY DEF TypeOK, RowsOK, rowVars
<1>2. writes' \in [Ops -> Nat]
  BY DEF TypeOK, EnvOK
<1> QED
  BY <1>1, <1>2, WorkerTypes

\* The store calls of a worker.
LEMMA CallsKeepTypes ==
  ASSUME TypeOK, NEW w \in Workers, pc[w] # "idle",
         \/ Claim(w) \/ Refresh(w) \/ Renew(w) \/ FinalLease(w) \/ Begin(w) \/ Record(w)
         \/ Lose(w) \/ Retry(w) \/ Reject(w)
  PROVE  TypeOK'
<1> job[w] \in Ops /\ stamp[w] \in Nat /\ now \in Nat /\ RowsOK
  BY DEF TypeOK, WorkersOK, EnvOK
<1>1. CASE Claim(w)
  <2>1. RowsOK' \/ UNCHANGED rowVars
    BY <1>1, ClaimTypes DEF Claim, Call
  <2>2. \E next \in Steps : Continue(w, next)
    BY <1>1 DEF Claim, Call, Steps, Calls
  <2> QED
    BY <1>1, <2>1, <2>2, CallTypes DEF Claim, Call
<1>2. CASE Refresh(w)
  <2>1. RowsOK' \/ UNCHANGED rowVars
    BY <1>2, RenewTypes DEF Refresh, Call
  <2>2. \E next \in Steps : Continue(w, next)
    BY <1>2 DEF Refresh, Call, LeaseFailure, Steps, Calls
  <2> QED
    BY <1>2, <2>1, <2>2, CallTypes DEF Refresh, Call
<1>3. CASE Renew(w)
  <2>1. RowsOK' \/ UNCHANGED rowVars
    BY <1>3, RenewTypes DEF Renew, Call
  <2>2. \E next \in Steps : Continue(w, next)
    BY <1>3 DEF Renew, Call, LeaseFailure, Steps, Calls
  <2> QED
    BY <1>3, <2>1, <2>2, CallTypes DEF Renew, Call
<1>4. CASE FinalLease(w)
  <2>1. RowsOK' \/ UNCHANGED rowVars
    BY <1>4, RenewTypes DEF FinalLease, Call
  <2>2. \E next \in Steps : Continue(w, next)
    BY <1>4 DEF FinalLease, Call, LeaseFailure, Steps, Calls
  <2> QED
    BY <1>4, <2>1, <2>2, CallTypes DEF FinalLease, Call
<1>5. CASE Begin(w)
  <2>1. RowsOK' \/ UNCHANGED rowVars
    BY <1>5, BeginTypes DEF Begin
  <2>2. \E next \in Steps : Continue(w, next)
    BY <1>5 DEF Begin, Steps, Calls
  <2> QED
    BY <1>5, <2>1, <2>2, CallTypes DEF Begin
<1>6. CASE Record(w)
  <2>1. RowsOK' \/ UNCHANGED rowVars
    BY <1>6, TerminalizeTypes DEF Record, Call, Terminal
  <2>2. \E next \in Steps : Continue(w, next)
    BY <1>6 DEF Record, Call, Steps
  <2> QED
    BY <1>6, <2>1, <2>2, CallTypes DEF Record, Call
<1>7. CASE Lose(w)
  <2>1. RowsOK' \/ UNCHANGED rowVars
    BY <1>7, TerminalizeTypes DEF Lose, Call, Terminal
  <2>2. \E next \in Steps : Continue(w, next)
    BY <1>7 DEF Lose, Call, Steps
  <2> QED
    BY <1>7, <2>1, <2>2, CallTypes DEF Lose, Call
<1>8. CASE Retry(w)
  <2>1. RowsOK' \/ UNCHANGED rowVars
    BY <1>8, RetryTypes DEF Retry, Call
  <2>2. \E next \in Steps : Continue(w, next)
    BY <1>8 DEF Retry, Call, Steps, Calls
  <2> QED
    BY <1>8, <2>1, <2>2, CallTypes DEF Retry, Call
<1>9. CASE Reject(w)
  <2>1. RowsOK' \/ UNCHANGED rowVars
    BY <1>9, TerminalizeTypes DEF Reject, Call, Terminal
  <2>2. \E next \in Steps : Continue(w, next)
    BY <1>9 DEF Reject, Call, Steps
  <2> QED
    BY <1>9, <2>1, <2>2, CallTypes DEF Reject, Call
<1> QED
  BY <1>1, <1>2, <1>3, <1>4, <1>5, <1>6, <1>7, <1>8, <1>9

\* The steps of a worker between its calls.
LEMMA StepsKeepTypes ==
  ASSUME TypeOK, NEW w \in Workers, pc[w] # "idle",
         \/ TryOperationLock(w) \/ Admit(w) \/ AcquireTarget(w) \/ Select(w) \/ Reacquire(w)
         \/ Ready(w) \/ Writer(w) \/ BoundaryFails(w) \/ Write(w) \/ Submit(w) \/ Stopped(w)
  PROVE  TypeOK'
<1> job[w] \in Ops /\ TargetOf[job[w]] \in Targets
  BY DEF TypeOK, WorkersOK
<1>1. ASSUME NEW from \in Steps \ {"idle"}, NEW next \in Steps, Step(w, from, next)
      PROVE  TypeOK'
  BY <1>1, StepTypes
<1>2. CASE TryOperationLock(w)
  <2>1. CASE Step(w, "start", "idle")
    BY <2>1, <1>1 DEF Steps
  <2>2. CASE ~Step(w, "start", "idle")
    <3>1. /\ opLock' = [opLock EXCEPT ![job[w]] = w] /\ targetLock' = targetLock
          /\ Goto(w, "admit") /\ UNCHANGED <<rowVars, scanVars, envVars, writes>>
      BY <1>2, <2>2 DEF TryOperationLock
    <3>2. /\ pc' \in [Workers -> Steps] /\ stamp' \in [Workers -> Nat]
          /\ job' \in [Workers -> Ops \cup {"none"}]
          /\ \A v \in Workers : pc'[v] # "idle" => job'[v] \in Ops
      BY <3>1, GotoTypes DEF Steps
    <3> QED
      BY <3>1, <3>2 DEF TypeOK, WorkersOK, RowsOK, ScanOK, EnvOK, rowVars, scanVars, envVars
  <2> QED
    BY <2>1, <2>2
<1>3. CASE Admit(w)
  BY <1>3, <1>1 DEF Admit, Steps
<1>4. CASE AcquireTarget(w)
  <2>1. CASE TakeTarget(w, "target", "claim")
    BY <2>1, TakeTargetTypes DEF Steps, Calls
  <2> QED
    BY <1>4, <2>1, <1>1 DEF AcquireTarget, Steps, Calls
<1>5. CASE Select(w)
  <2>1. CASE \E next \in {"ready", "retry", "reject", "idle"} : Step(w, "select", next)
    BY <2>1, <1>1 DEF Steps, Calls
  <2>2. CASE ~\E next \in {"ready", "retry", "reject", "idle"} : Step(w, "select", next)
    <3>1. /\ targetLock' = [targetLock EXCEPT ![TargetOf[job[w]]] = "nobody"]
          /\ Goto(w, "refresh") /\ UNCHANGED <<opLock, rowVars, scanVars, envVars, writes>>
      BY <1>5, <2>2 DEF Select
    <3>2. /\ pc' \in [Workers -> Steps] /\ stamp' \in [Workers -> Nat]
          /\ job' \in [Workers -> Ops \cup {"none"}]
          /\ \A v \in Workers : pc'[v] # "idle" => job'[v] \in Ops
      BY <3>1, GotoTypes DEF Steps, Calls
    <3> QED
      BY <3>1, <3>2 DEF TypeOK, WorkersOK, RowsOK, ScanOK, EnvOK, rowVars, scanVars, envVars
  <2> QED
    BY <2>1, <2>2
<1>6. CASE Reacquire(w)
  <2>1. CASE TakeTarget(w, "reacquire", "refresh")
    BY <2>1, TakeTargetTypes DEF Steps, Calls
  <2> QED
    BY <1>6, <2>1, <1>1 DEF Reacquire, Steps, Calls
<1>7. CASE Ready(w) \/ Writer(w)
  BY <1>7, <1>1 DEF Ready, Writer, Steps, Calls
<1>8. CASE BoundaryFails(w) \/ Submit(w)
  BY <1>8, <1>1 DEF BoundaryFails, Submit, Steps, Calls
<1>9. CASE Write(w)
  <2>1. \E next \in Steps : Continue(w, next)
    BY <1>9 DEF Write, Steps, Calls
  <2>2. writes' \in [Ops -> Nat] /\ RowsOK'
    BY <1>9 DEF Write, TypeOK, EnvOK, RowsOK, rowVars
  <2> QED
    BY <1>9, <2>1, <2>2, WorkerTypes DEF Write
<1>10. CASE Stopped(w)
  BY <1>10, <1>1 DEF Stopped, Steps, Calls
<1> QED
  BY <1>2, <1>3, <1>4, <1>5, <1>6, <1>7, <1>8, <1>9, <1>10
-----------------------------------------------------------------------------
(* Type correctness.                                                       *)

\* Everything but workers: admission, maintenance and recovery.
LEMMA StoreKeepsTypes ==
  ASSUME TypeOK, NEW o \in Ops, Store(o)
  PROVE  TypeOK'
<1> RowsOK /\ now \in Nat /\ scanAt \in Nat
  BY DEF TypeOK, EnvOK, ScanOK
<1>1. CASE Enqueue(o)
  <2>1. now + Lifetime \in Nat
    OBVIOUS
  <2>2. RowsOK'
    BY <1>1, <2>1 DEF Enqueue, RowsOK, Status, NonTerminal, Before, leaseVars
  <2> QED
    BY <1>1, <2>2 DEF Enqueue, TypeOK, WorkersOK, ScanOK, EnvOK, lockVars, workerVars,
                      scanVars, envVars
<1>2. CASE ExpireForAdmission(o)
  <2>1. RowsOK'
    BY <1>2, TerminalizeTypes DEF ExpireForAdmission, Terminal
  <2> QED
    BY <1>2, <2>1 DEF ExpireForAdmission, TypeOK, WorkersOK, ScanOK, EnvOK, lockVars,
                      workerVars, scanVars, envVars
<1>3. CASE RecordHostRejection(o)
  <2>1. RowsOK'
    BY <1>3 DEF RecordHostRejection, RowsOK, Terminal, leaseVars
  <2> QED
    BY <1>3, <2>1 DEF RecordHostRejection, TypeOK, WorkersOK, ScanOK, EnvOK, lockVars,
                      workerVars, scanVars, envVars
<1>4. CASE Compact(o)
  <2>1. RowsOK'
    BY <1>4 DEF Compact, RowsOK, Status, leaseVars
  <2> QED
    BY <1>4, <2>1 DEF Compact, TypeOK, WorkersOK, ScanOK, EnvOK, lockVars, workerVars,
                      scanVars, envVars
<1>5. CASE Recover(o)
  <2>1. RowsOK'
    <3>1. CASE UNCHANGED rowVars
      BY <3>1 DEF RowsOK, rowVars
    <3>2. CASE RecoveryTx(o)
      <4>1. CASE Verdict(o) = "retry"
        BY <3>2, <4>1, RescheduleTypes DEF RecoveryTx
      <4>2. CASE Verdict(o) # "retry"
        <5>1. Verdict(o) \in Terminal
          BY <4>2 DEF Verdict, Terminal
        <5> QED
          BY <3>2, <4>2, <5>1, TerminalizeTypes DEF RecoveryTx
      <4> QED
        BY <4>1, <4>2
    <3> QED
      BY <1>5, <3>1, <3>2 DEF Recover
  <2>2. ScanOK'
    BY <1>5 DEF Recover, Forget, Abandon, NoScan, TypeOK, ScanOK
  <2> QED
    BY <1>5, <2>1, <2>2 DEF Recover, TypeOK, WorkersOK, EnvOK, lockVars, workerVars, envVars
<1>6. CASE RecoverAtStartup(o)
  <2>1. (\E s \in Terminal : Terminalize(o, s)) \/ Reschedule(o, now)
    BY <1>6 DEF RecoverAtStartup, StartupTx, Terminal
  <2>2. RowsOK'
    BY <2>1, TerminalizeTypes, RescheduleTypes
  <2> QED
    BY <1>6, <2>2 DEF RecoverAtStartup, TypeOK, WorkersOK, ScanOK, EnvOK, lockVars, workerVars,
                      scanVars, envVars
<1> QED
  BY <1>1, <1>2, <1>3, <1>4, <1>5, <1>6 DEF Store

\* The process, the clock and the start of a recovery pass.
LEMMA ProcessKeepsTypes ==
  ASSUME TypeOK, \/ RecoveryScan \/ StartupDone \/ Shutdown \/ ProcessEnds \/ Restart \/ Tick
  PROVE  TypeOK'
<1>1. CASE RecoveryScan
  <2>1. ScanOK'
    <3>1. \A o \in Ops : RuntimeCandidate(o, now) => row[o] \in NonTerminal
      BY DEF RuntimeCandidate, NonTerminal, Before
    <3> QED
      BY <1>1, <3>1 DEF RecoveryScan, TypeOK, RowsOK, EnvOK, ScanOK
  <2> QED
    BY <1>1, <2>1 DEF RecoveryScan, TypeOK, RowsOK, WorkersOK, EnvOK, rowVars, lockVars,
                      workerVars, envVars
<1>2. CASE StartupDone \/ Shutdown \/ Restart
  BY <1>2 DEF StartupDone, Shutdown, Restart, TypeOK, RowsOK, WorkersOK, ScanOK, EnvOK, rowVars,
              lockVars, workerVars, scanVars
<1>3. CASE ProcessEnds
  <2>1. WorkersOK'
    BY <1>3 DEF ProcessEnds, WorkersOK, Steps
  <2>2. ScanOK'
    BY <1>3 DEF ProcessEnds, Abandon, NoScan, TypeOK, ScanOK
  <2> QED
    BY <1>3, <2>1, <2>2 DEF ProcessEnds, TypeOK, RowsOK, EnvOK, rowVars
<1>4. CASE Tick
  BY <1>4 DEF Tick, TypeOK, RowsOK, WorkersOK, ScanOK, EnvOK, rowVars, lockVars, workerVars,
              scanVars
<1> QED
  BY <1>1, <1>2, <1>3, <1>4

\* Spawning a worker and its heartbeat.
LEMMA SpawnKeepsTypes ==
  ASSUME TypeOK, NEW w \in Workers, (\E o \in Ops : Spawn(w, o)) \/ Heartbeat(w)
  PROVE  TypeOK'
<1>1. CASE \E o \in Ops : Spawn(w, o)
  <2>1. WorkersOK'
    BY <1>1 DEF Spawn, TypeOK, WorkersOK, Steps, lockVars
  <2> QED
    BY <1>1, <2>1 DEF Spawn, TypeOK, RowsOK, ScanOK, EnvOK, rowVars, scanVars, envVars
<1>2. CASE Heartbeat(w)
  <2>1. job[w] \in Ops /\ now \in Nat /\ RowsOK
    BY <1>2 DEF Heartbeat, TypeOK, WorkersOK, EnvOK
  <2>2. RowsOK'
    BY <1>2, <2>1, RenewTypes DEF Heartbeat
  <2> QED
    BY <1>2, <2>2 DEF Heartbeat, TypeOK, WorkersOK, ScanOK, EnvOK, lockVars, workerVars,
                      scanVars, envVars
<1> QED
  BY <1>1, <1>2

\* Every step keeps the types.
LEMMA NextKeepsTypes == TypeOK /\ [Next]_vars => TypeOK'
<1> SUFFICES ASSUME TypeOK, [Next]_vars PROVE TypeOK'
  OBVIOUS
<1>1. ASSUME NEW w \in Workers, Worker(w) PROVE TypeOK'
  BY <1>1, CallsKeepTypes, StepsKeepTypes DEF Worker
<1>2. ASSUME NEW w \in Workers, Heartbeat(w) \/ \E o \in Ops : Spawn(w, o) PROVE TypeOK'
  BY <1>2, SpawnKeepsTypes
<1>3. ASSUME NEW o \in Ops, Store(o) PROVE TypeOK'
  BY <1>3, StoreKeepsTypes
<1>4. CASE RecoveryScan \/ StartupDone \/ Shutdown \/ ProcessEnds \/ Restart \/ Tick
  BY <1>4, ProcessKeepsTypes
<1>5. CASE UNCHANGED vars
  BY <1>5 DEF vars, TypeOK, RowsOK, WorkersOK, ScanOK, EnvOK
<1> QED
  BY <1>1, <1>2, <1>3, <1>4, <1>5 DEF Next

\* The columns, the locks and the workers keep their types (pty_*.rs).
THEOREM TypeCorrect == Spec => []TypeOK
<1>1. Init => TypeOK
  BY DEF Init, TypeOK, RowsOK, WorkersOK, ScanOK, EnvOK, Status, Steps
<1> QED
  BY <1>1, NextKeepsTypes, PTL DEF Spec
-----------------------------------------------------------------------------
(* The inductive invariant.                                                *)

\* Past the commit of 'actuating', with the outcome still to be recorded.
Crossing == {"boundary", "submit", "record", "lost"}

\* What status r, tombstone t and n writes of one operation say of each other.
Coherent(r, t, n) ==
  /\ n \in {0, 1}
  /\ r \in Before => t = "none" /\ n = 0
  /\ r = "actuating" => t = "none"
  /\ r \in Terminal => t = r
  /\ r = "none" /\ t = "none" => n = 0
  /\ t = "rejected" => n = 0
  /\ t = "injected" => n = 1

RowsCoherent == \A o \in Ops : Coherent(row[o], tomb[o], writes[o])

\* A dispatch that got past its first step holds the operation.
OpLocked == \A w \in Workers : pc[w] \notin {"idle", "start"} => opLock[job[w]] = w

\* No worker outlives the process.
Quiet == phase \in {"down", "recovering"} => \A w \in Workers : pc[w] = "idle"

\* While a worker crosses, its row stays 'actuating', and it knows what it wrote.
CrossingOK ==
  \A w \in Workers :
    /\ pc[w] \in Crossing => row[job[w]] = "actuating"
    /\ pc[w] = "boundary" => writes[job[w]] = 0
    /\ pc[w] \in {"submit", "record"} => writes[job[w]] = 1

Safe == RowsCoherent /\ OpLocked /\ Quiet /\ CrossingOK

\* Where a worker holds its target.
Holding == {"claim", "select", "ready", "renew", "writer", "final", "begin", "boundary", "submit"}

TargetHeld ==
  \A w \in Workers : pc[w] \in Holding => targetLock[TargetOf[job[w]]] = w
-----------------------------------------------------------------------------
(* Transactions keep rows, tombstones and writes coherent.                 *)

\* Only the operation's own row changes.
OnlyRow(o) == \A p \in Ops \ {o} : row'[p] = row[p]

\* A rejection comes before any write, an injection is recorded after one.
LEMMA TerminalizeCoherent ==
  ASSUME TypeOK, RowsCoherent, NEW o \in Ops, NEW s \in Terminal, Terminalize(o, s),
         s = "injected" => writes[o] = 1, UNCHANGED writes
  PROVE  RowsCoherent' /\ OnlyRow(o)
<1>1. row' = [row EXCEPT ![o] = s] /\ tomb' = [tomb EXCEPT ![o] = s]
  BY DEF Terminalize
<1>2. row \in [Ops -> Status] /\ tomb \in [Ops -> {"none"} \cup Terminal]
  BY DEF TypeOK, RowsOK
<1>3. s = "rejected" => writes[o] = 0
  BY DEF Terminalize, Allowed, RowsCoherent, Coherent
<1> QED
  BY <1>1, <1>2, <1>3 DEF RowsCoherent, Coherent, OnlyRow, Terminal, Before

\* A row that was never written may be prepared, or scheduled, again.
LEMMA BeforeCoherent ==
  ASSUME TypeOK, RowsCoherent, NEW o \in Ops, NEW s \in Before, row[o] \in Before,
         row' = [row EXCEPT ![o] = s], UNCHANGED <<tomb, writes>>
  PROVE  RowsCoherent' /\ OnlyRow(o)
BY DEF TypeOK, RowsOK, RowsCoherent, Coherent, OnlyRow, Terminal, Before

\* The commit of 'actuating' comes before any write.
LEMMA BeginCoherent ==
  ASSUME TypeOK, RowsCoherent, NEW o \in Ops, NEW w \in Workers, NEW t \in Nat,
         BeginPtyActuating(o, w, t), UNCHANGED writes
  PROVE  RowsCoherent' /\ OnlyRow(o) /\ row'[o] = "actuating" /\ writes'[o] = 0
BY DEF TypeOK, RowsOK, BeginPtyActuating, Leased, RowsCoherent, Coherent, OnlyRow, Terminal,
       Before

\* retry_pty_input reschedules or rejects what is being prepared.
LEMMA RetryCoherent ==
  ASSUME TypeOK, RowsCoherent, NEW o \in Ops, NEW w \in Workers, NEW t \in Nat,
         RetryPtyInput(o, w, t), UNCHANGED writes
  PROVE  RowsCoherent' /\ OnlyRow(o)
<1>1. CASE attempt[o] >= MaxAttempts
  BY <1>1, TerminalizeCoherent DEF RetryPtyInput, Terminal
<1>2. CASE ~(attempt[o] >= MaxAttempts)
  BY <1>2, BeforeCoherent DEF RetryPtyInput, Reschedule, Before
<1> QED
  BY <1>1, <1>2
-----------------------------------------------------------------------------
(* A worker leaves the others' operations alone.                           *)

\* Two dispatches past their first step have different operations.
LEMMA JobsApart ==
  ASSUME TypeOK, Safe, NEW v \in Workers, NEW w \in Workers, v # w,
         pc[v] \notin {"idle", "start"}, pc[w] \notin {"idle", "start"}
  PROVE  job[v] # job[w]
BY DEF Safe, OpLocked

\* A worker moves on, with its own place in order and no other crossing
\* worker's row disturbed.
LEMMA WorkerSafe ==
  ASSUME TypeOK, Safe, NEW w \in Workers, pc[w] # "idle", NEW next \in Steps \ {"start"},
         next = "idle" \/ pc[w] # "start", Continue(w, next), UNCHANGED phase,
         RowsCoherent', OnlyRow(job[w]), \A p \in Ops \ {job[w]} : writes'[p] = writes[p],
         pc[w] = "start" => UNCHANGED <<row, writes>>,
         next \in Crossing => row'[job[w]] = "actuating",
         next = "boundary" => writes'[job[w]] = 0,
         next \in {"submit", "record"} => writes'[job[w]] = 1
  PROVE  Safe'
<1>1. /\ pc' = [pc EXCEPT ![w] = next] /\ pc \in [Workers -> Steps]
      /\ \A v \in Workers \ {w} : pc'[v] = pc[v] /\ job'[v] = job[v]
      /\ next # "idle" => job' = job
  BY DEF Continue, Goto, TypeOK, WorkersOK
<1>2. OpLocked'
  <2> SUFFICES ASSUME NEW v \in Workers, pc'[v] \notin {"idle", "start"}
               PROVE  opLock'[job'[v]] = v
    BY DEF OpLocked
  <2>1. CASE v = w
    BY <2>1, <1>1 DEF Safe, OpLocked, Continue, lockVars
  <2>2. CASE v # w
    <3>1. pc[v] \notin {"idle", "start"} /\ opLock[job[v]] = v /\ job'[v] = job[v]
      BY <2>2, <1>1 DEF Safe, OpLocked
    <3>2. job[v] \in Ops
      BY <3>1 DEF TypeOK, WorkersOK
    <3> QED
      BY <2>2, <3>1, <3>2 DEF Continue, Release, lockVars
  <2> QED
    BY <2>1, <2>2
<1>3. Quiet'
  BY DEF Safe, Quiet
<1>4. CrossingOK'
  <2> SUFFICES ASSUME NEW v \in Workers
               PROVE  /\ pc'[v] \in Crossing => row'[job'[v]] = "actuating"
                      /\ pc'[v] = "boundary" => writes'[job'[v]] = 0
                      /\ pc'[v] \in {"submit", "record"} => writes'[job'[v]] = 1
    BY DEF CrossingOK
  <2>1. CASE v = w
    BY <2>1, <1>1 DEF Crossing
  <2>2. CASE v # w /\ pc[v] \in Crossing
    <3>1. job[v] \in Ops /\ pc'[v] = pc[v] /\ job'[v] = job[v]
      BY <2>2, <1>1 DEF TypeOK, WorkersOK, Crossing
    <3>2. row'[job[v]] = row[job[v]] /\ writes'[job[v]] = writes[job[v]]
      <4>1. CASE pc[w] = "start"
        BY <4>1
      <4>2. CASE pc[w] # "start"
        BY <2>2, <4>2, <3>1, JobsApart DEF OnlyRow, Crossing
      <4> QED
        BY <4>1, <4>2
    <3> QED
      BY <2>2, <3>1, <3>2 DEF Safe, CrossingOK
  <2>3. CASE v # w /\ pc[v] \notin Crossing
    BY <2>3, <1>1 DEF Crossing
  <2> QED
    BY <2>1, <2>2, <2>3
<1> QED
  BY <1>2, <1>3, <1>4 DEF Safe

\* A step that leaves the rows alone.
LEMMA StepSafe ==
  ASSUME TypeOK, Safe, NEW w \in Workers, NEW from \in Steps \ {"idle"},
         NEW next \in Steps \ {"start", "boundary", "submit"}, Step(w, from, next),
         next = "idle" \/ from # "start", next \in Crossing => from \in Crossing,
         next = "record" => from = "submit"
  PROVE  Safe'
<1>1. RowsCoherent' /\ OnlyRow(job[w]) /\ UNCHANGED <<row, writes, phase>>
  BY DEF Step, rowVars, envVars, Safe, RowsCoherent, OnlyRow
<1>2. next \in Crossing => row'[job[w]] = "actuating"
  BY <1>1 DEF Step, Safe, CrossingOK
<1>3. next \in {"submit", "record"} => writes'[job[w]] = 1
  BY <1>1 DEF Step, Safe, CrossingOK
<1> QED
  BY <1>1, <1>2, <1>3, WorkerSafe DEF Step

\* A step that takes a lock or lets the target go.
LEMMA LockSafe ==
  ASSUME TypeOK, Safe, NEW w \in Workers, pc[w] # "idle",
         NEW next \in Steps \ ({"idle", "start"} \cup Crossing), Goto(w, next),
         UNCHANGED <<rowVars, writes, phase>>,
         \/ opLock[job[w]] = "nobody" /\ opLock' = [opLock EXCEPT ![job[w]] = w]
         \/ pc[w] # "start" /\ UNCHANGED opLock
  PROVE  Safe'
<1>1. /\ pc' = [pc EXCEPT ![w] = next] /\ pc \in [Workers -> Steps] /\ job' = job
      /\ opLock \in [Ops -> Workers \cup {"nobody"}]
      /\ row' = row /\ tomb' = tomb /\ writes' = writes /\ phase' = phase
  BY DEF Goto, TypeOK, WorkersOK, rowVars
<1>2. \A v \in Workers : pc[v] # "idle" => job[v] \in Ops
  BY DEF TypeOK, WorkersOK
<1>3. RowsCoherent' /\ Quiet'
  <2>1. RowsCoherent'
    BY <1>1 DEF Safe, RowsCoherent
  <2>2. Quiet'
    BY <1>1 DEF Safe, Quiet
  <2> QED
    BY <2>1, <2>2
<1>4. OpLocked'
  <2> SUFFICES ASSUME NEW v \in Workers, pc'[v] \notin {"idle", "start"}
               PROVE  opLock'[job[v]] = v
    BY <1>1 DEF OpLocked
  <2>1. CASE v = w
    BY <2>1, <1>1, <1>2 DEF Safe, OpLocked
  <2>2. CASE v # w
    <3>1. opLock[job[v]] = v /\ job[v] \in Ops
      BY <2>2, <1>1, <1>2 DEF Safe, OpLocked
    <3> QED
      BY <2>2, <3>1, <1>1, <1>2, NamesAssumption
  <2> QED
    BY <2>1, <2>2
<1>5. CrossingOK'
  BY <1>1 DEF Safe, CrossingOK, Crossing
<1> QED
  BY <1>3, <1>4, <1>5 DEF Safe

\* The steps of a worker between its calls.
LEMMA StepsKeepSafe ==
  ASSUME TypeOK, Safe, NEW w \in Workers, pc[w] # "idle",
         \/ TryOperationLock(w) \/ Admit(w) \/ AcquireTarget(w) \/ Select(w) \/ Reacquire(w)
         \/ Ready(w) \/ Writer(w) \/ BoundaryFails(w) \/ Write(w) \/ Submit(w) \/ Stopped(w)
  PROVE  Safe'
<1> job[w] \in Ops
  BY DEF TypeOK, WorkersOK
<1>1. ASSUME NEW from \in Steps \ {"idle"},
             NEW next \in Steps \ {"start", "boundary", "submit"}, Step(w, from, next),
             next = "idle" \/ from # "start", next \in Crossing => from \in Crossing,
             next = "record" => from = "submit"
      PROVE  Safe'
  BY <1>1, StepSafe
<1>2. ASSUME NEW from \in Steps, NEW next \in Steps \ ({"idle", "start"} \cup Crossing),
             TakeTarget(w, from, next), from # "start"
      PROVE  Safe'
  BY <1>2, LockSafe DEF TakeTarget, envVars
<1>3. CASE TryOperationLock(w)
  <2>1. CASE Step(w, "start", "idle")
    BY <2>1, <1>1 DEF Steps, Crossing
  <2>2. CASE ~Step(w, "start", "idle")
    <3>1. /\ opLock[job[w]] = "nobody" /\ opLock' = [opLock EXCEPT ![job[w]] = w]
          /\ Goto(w, "admit") /\ UNCHANGED <<rowVars, envVars, writes>>
      BY <1>3, <2>2 DEF TryOperationLock
    <3> QED
      BY <3>1, LockSafe DEF Steps, Crossing, envVars
  <2> QED
    BY <2>1, <2>2
<1>4. CASE Admit(w)
  BY <1>4, <1>1 DEF Admit, Steps, Crossing
<1>5. CASE AcquireTarget(w)
  <2>1. CASE TakeTarget(w, "target", "claim")
    BY <2>1, <1>2 DEF Steps, Calls, Crossing
  <2> QED
    BY <1>5, <2>1, <1>1 DEF AcquireTarget, Steps, Calls, Crossing
<1>6. CASE Select(w)
  <2>1. CASE \E next \in {"ready", "retry", "reject", "idle"} : Step(w, "select", next)
    BY <2>1, <1>1 DEF Steps, Calls, Crossing
  <2>2. CASE ~\E next \in {"ready", "retry", "reject", "idle"} : Step(w, "select", next)
    <3>1. /\ pc[w] = "select" /\ Goto(w, "refresh")
          /\ UNCHANGED <<opLock, rowVars, envVars, writes>>
      BY <1>6, <2>2 DEF Select
    <3> QED
      BY <3>1, LockSafe DEF Steps, Calls, Crossing, envVars
  <2> QED
    BY <2>1, <2>2
<1>7. CASE Reacquire(w)
  <2>1. CASE TakeTarget(w, "reacquire", "refresh")
    BY <2>1, <1>2 DEF Steps, Calls, Crossing
  <2> QED
    BY <1>7, <2>1, <1>1 DEF Reacquire, Steps, Calls, Crossing
<1>8. CASE Ready(w) \/ Writer(w)
  BY <1>8, <1>1 DEF Ready, Writer, Steps, Calls, Crossing
<1>9. CASE BoundaryFails(w) \/ Submit(w)
  BY <1>9, <1>1 DEF BoundaryFails, Submit, Steps, Calls, Crossing
<1>10. CASE Write(w)
  <2>1. /\ pc[w] = "boundary" /\ writes' = [writes EXCEPT ![job[w]] = @ + 1]
        /\ writes \in [Ops -> Nat] /\ row' = row /\ tomb' = tomb /\ phase' = phase
    BY <1>10 DEF Write, rowVars, envVars, TypeOK, EnvOK
  <2>2. row[job[w]] = "actuating" /\ writes[job[w]] = 0
    BY <2>1 DEF Safe, CrossingOK, Crossing
  <2>3. writes'[job[w]] = 1 /\ \A p \in Ops \ {job[w]} : writes'[p] = writes[p]
    BY <2>1, <2>2
  <2>4. RowsCoherent'
    BY <2>1, <2>2, <2>3 DEF Safe, RowsCoherent, Coherent, Before, Terminal
  <2>5. PICK next \in {"submit", "lost"} : Continue(w, next)
    BY <1>10 DEF Write
  <2>6. next \in Steps \ {"start"}
    BY <2>5 DEF Steps, Calls
  <2> QED
    BY <2>1, <2>2, <2>3, <2>4, <2>5, <2>6, WorkerSafe DEF OnlyRow
<1>11. CASE Stopped(w)
  BY <1>11, <1>1 DEF Stopped, Steps, Calls, Crossing
<1> QED
  BY <1>3, <1>4, <1>5, <1>6, <1>7, <1>8, <1>9, <1>10, <1>11

\* A call that leads to a step before the boundary, or to a return.
LEMMA CallSafe ==
  ASSUME TypeOK, Safe, NEW w \in Workers, pc[w] \notin {"idle", "start"},
         UNCHANGED rowVars \/ (RowsCoherent' /\ OnlyRow(job[w])),
         NEW next \in Steps \ ({"start"} \cup Crossing), Continue(w, next),
         UNCHANGED <<phase, writes>>
  PROVE  Safe'
<1>1. RowsCoherent' /\ OnlyRow(job[w])
  BY DEF Safe, RowsCoherent, OnlyRow, rowVars
<1> QED
  BY <1>1, WorkerSafe DEF Crossing

\* The store calls of a worker.
LEMMA CallsKeepSafe ==
  ASSUME TypeOK, Safe, NEW w \in Workers, pc[w] # "idle",
         \/ Claim(w) \/ Refresh(w) \/ Renew(w) \/ FinalLease(w) \/ Begin(w) \/ Record(w)
         \/ Lose(w) \/ Retry(w) \/ Reject(w)
  PROVE  Safe'
<1> job[w] \in Ops /\ stamp[w] \in Nat /\ RowsCoherent
  BY DEF TypeOK, WorkersOK, Safe
<1>r. ASSUME RenewPtyInputLease(job[w], w, stamp[w]), UNCHANGED writes
      PROVE  RowsCoherent' /\ OnlyRow(job[w])
  BY <1>r DEF RenewPtyInputLease, RowsCoherent, OnlyRow
<1>1. CASE Claim(w)
  <2>1. pc[w] = "claim" /\ UNCHANGED <<phase, writes>>
    BY <1>1 DEF Claim, Call, envVars
  <2>2. UNCHANGED rowVars \/ (RowsCoherent' /\ OnlyRow(job[w]))
    BY <1>1, <2>1, BeforeCoherent DEF Claim, Call, ClaimPtyInput, Claimable, Before
  <2>3. \E next \in Steps \ ({"start"} \cup Crossing) : Continue(w, next)
    BY <1>1 DEF Claim, Call, Steps, Calls, Crossing
  <2> QED
    BY <2>1, <2>2, <2>3, CallSafe
<1>2. CASE Refresh(w)
  <2>1. pc[w] = "refresh" /\ UNCHANGED <<phase, writes>>
    BY <1>2 DEF Refresh, Call, envVars
  <2>2. UNCHANGED rowVars \/ (RowsCoherent' /\ OnlyRow(job[w]))
    BY <1>2, <2>1, <1>r DEF Refresh, Call
  <2>3. \E next \in Steps \ ({"start"} \cup Crossing) : Continue(w, next)
    BY <1>2 DEF Refresh, Call, LeaseFailure, Steps, Calls, Crossing
  <2> QED
    BY <2>1, <2>2, <2>3, CallSafe
<1>3. CASE Renew(w)
  <2>1. pc[w] = "renew" /\ UNCHANGED <<phase, writes>>
    BY <1>3 DEF Renew, Call, envVars
  <2>2. UNCHANGED rowVars \/ (RowsCoherent' /\ OnlyRow(job[w]))
    BY <1>3, <2>1, <1>r DEF Renew, Call
  <2>3. \E next \in Steps \ ({"start"} \cup Crossing) : Continue(w, next)
    BY <1>3 DEF Renew, Call, LeaseFailure, Steps, Calls, Crossing
  <2> QED
    BY <2>1, <2>2, <2>3, CallSafe
<1>4. CASE FinalLease(w)
  <2>1. pc[w] = "final" /\ UNCHANGED <<phase, writes>>
    BY <1>4 DEF FinalLease, Call, envVars
  <2>2. UNCHANGED rowVars \/ (RowsCoherent' /\ OnlyRow(job[w]))
    BY <1>4, <2>1, <1>r DEF FinalLease, Call
  <2>3. \E next \in Steps \ ({"start"} \cup Crossing) : Continue(w, next)
    BY <1>4 DEF FinalLease, Call, LeaseFailure, Steps, Calls, Crossing
  <2> QED
    BY <2>1, <2>2, <2>3, CallSafe
<1>5. CASE Begin(w)
  <2>1. pc[w] = "begin" /\ UNCHANGED <<phase, writes>>
    BY <1>5 DEF Begin, envVars
  <2>2. CASE BeginPtyActuating(job[w], w, stamp[w])
    <3>1. /\ RowsCoherent' /\ OnlyRow(job[w]) /\ row'[job[w]] = "actuating"
          /\ writes'[job[w]] = 0
      BY <2>1, <2>2, BeginCoherent
    <3>2. PICK next \in {"boundary", "lost", "reject"} : Continue(w, next)
      BY <1>5 DEF Begin
    <3>3. next \in Steps \ {"start"} /\ next \notin {"submit", "record"}
      BY <3>2 DEF Steps, Calls
    <3> QED
      BY <2>1, <3>1, <3>2, <3>3, WorkerSafe
  <2>3. CASE UNCHANGED rowVars /\ Continue(w, "reject")
    BY <2>1, <2>3, CallSafe DEF Steps, Calls, Crossing
  <2> QED
    BY <1>5, <2>2, <2>3 DEF Begin
<1>6. CASE Record(w)
  <2>1. pc[w] = "record" /\ UNCHANGED <<phase, writes>>
    BY <1>6 DEF Record, Call, envVars
  <2>2. writes[job[w]] = 1
    BY <2>1 DEF Safe, CrossingOK
  <2>3. UNCHANGED rowVars \/ (RowsCoherent' /\ OnlyRow(job[w]))
    BY <1>6, <2>1, <2>2, TerminalizeCoherent DEF Record, Call, Terminal
  <2>4. Continue(w, "idle")
    BY <1>6 DEF Record, Call
  <2> QED
    BY <2>1, <2>3, <2>4, CallSafe DEF Steps, Crossing
<1>7. CASE Lose(w)
  <2>1. pc[w] = "lost" /\ UNCHANGED <<phase, writes>>
    BY <1>7 DEF Lose, Call, envVars
  <2>2. UNCHANGED rowVars \/ (RowsCoherent' /\ OnlyRow(job[w]))
    BY <1>7, <2>1, TerminalizeCoherent DEF Lose, Call, Terminal
  <2>3. Continue(w, "idle")
    BY <1>7 DEF Lose, Call
  <2> QED
    BY <2>1, <2>2, <2>3, CallSafe DEF Steps, Crossing
<1>8. CASE Retry(w)
  <2>1. pc[w] = "retry" /\ UNCHANGED <<phase, writes>>
    BY <1>8 DEF Retry, Call, envVars
  <2>2. UNCHANGED rowVars \/ (RowsCoherent' /\ OnlyRow(job[w]))
    BY <1>8, <2>1, RetryCoherent DEF Retry, Call
  <2>3. \E next \in Steps \ ({"start"} \cup Crossing) : Continue(w, next)
    BY <1>8 DEF Retry, Call, Steps, Calls, Crossing
  <2> QED
    BY <2>1, <2>2, <2>3, CallSafe
<1>9. CASE Reject(w)
  <2>1. pc[w] = "reject" /\ UNCHANGED <<phase, writes>>
    BY <1>9 DEF Reject, Call, envVars
  <2>2. UNCHANGED rowVars \/ (RowsCoherent' /\ OnlyRow(job[w]))
    BY <1>9, <2>1, TerminalizeCoherent DEF Reject, Call, Terminal
  <2>3. Continue(w, "idle")
    BY <1>9 DEF Reject, Call
  <2> QED
    BY <2>1, <2>2, <2>3, CallSafe DEF Steps, Crossing
<1> QED
  BY <1>1, <1>2, <1>3, <1>4, <1>5, <1>6, <1>7, <1>8, <1>9

\* A change of one row by nobody's worker, while no worker holds the operation
\* or before the row has crossed.
LEMMA StoreSafe ==
  ASSUME TypeOK, Safe, NEW o \in Ops, RowsCoherent', OnlyRow(o),
         UNCHANGED <<lockVars, workerVars, phase, writes>>,
         \/ row'[o] = row[o] \/ row[o] # "actuating"
         \/ opLock[o] = "nobody" \/ phase = "recovering"
  PROVE  Safe'
<1>1. /\ pc' = pc /\ job' = job /\ opLock' = opLock /\ phase' = phase /\ writes' = writes
  BY DEF lockVars, workerVars
<1>2. OpLocked' /\ Quiet'
  BY <1>1 DEF Safe, OpLocked, Quiet
<1>3. CrossingOK'
  <2> SUFFICES ASSUME NEW w \in Workers, pc[w] \in Crossing
               PROVE  row'[job[w]] = row[job[w]]
    BY <1>1 DEF Safe, CrossingOK, Crossing
  <2>1. /\ job[w] \in Ops /\ opLock[job[w]] = w /\ row[job[w]] = "actuating"
        /\ phase # "recovering"
    BY DEF TypeOK, WorkersOK, Safe, OpLocked, CrossingOK, Quiet, Crossing
  <2> QED
    BY <2>1, NamesAssumption DEF OnlyRow
<1> QED
  BY <1>2, <1>3 DEF Safe

\* Admission, maintenance and recovery.
LEMMA StoreKeepsSafe ==
  ASSUME TypeOK, Safe, NEW o \in Ops, Store(o)
  PROVE  Safe'
<1> RowsCoherent /\ row \in [Ops -> Status] /\ tomb \in [Ops -> {"none"} \cup Terminal]
  BY DEF Safe, TypeOK, RowsOK
<1>1. CASE Enqueue(o)
  <2>1. /\ row[o] = "none" /\ tomb[o] = "none" /\ row' = [row EXCEPT ![o] = "queued"]
        /\ UNCHANGED <<tomb, lockVars, workerVars, phase, writes>>
    BY <1>1 DEF Enqueue, Known, envVars
  <2>2. RowsCoherent' /\ OnlyRow(o)
    BY <2>1 DEF RowsCoherent, Coherent, OnlyRow, Before, Terminal
  <2> QED
    BY <2>1, <2>2, StoreSafe
<1>2. CASE ExpireForAdmission(o)
  <2>1. /\ Terminalize(o, "rejected") /\ opLock[o] = "nobody"
        /\ UNCHANGED <<lockVars, workerVars, phase, writes>>
    BY <1>2 DEF ExpireForAdmission, envVars
  <2>2. RowsCoherent' /\ OnlyRow(o)
    BY <2>1, TerminalizeCoherent DEF Terminal
  <2> QED
    BY <2>1, <2>2, StoreSafe
<1>3. CASE RecordHostRejection(o)
  <2>1. /\ row[o] = "none" /\ tomb[o] = "none" /\ tomb' = [tomb EXCEPT ![o] = "rejected"]
        /\ UNCHANGED <<row, lockVars, workerVars, phase, writes>>
    BY <1>3 DEF RecordHostRejection, Known, envVars
  <2>2. RowsCoherent' /\ OnlyRow(o)
    BY <2>1 DEF RowsCoherent, Coherent, OnlyRow, Before, Terminal
  <2> QED
    BY <2>1, <2>2, StoreSafe
<1>4. CASE Compact(o)
  <2>1. /\ row[o] \in Terminal /\ tomb[o] = row[o] /\ row' = [row EXCEPT ![o] = "none"]
        /\ UNCHANGED <<tomb, lockVars, workerVars, phase, writes>> /\ opLock[o] = "nobody"
    BY <1>4 DEF Compact, envVars
  <2>2. RowsCoherent' /\ OnlyRow(o)
    BY <2>1 DEF RowsCoherent, Coherent, OnlyRow, Before, Terminal
  <2> QED
    BY <2>1, <2>2, StoreSafe
<1>5. CASE Recover(o)
  <2>1. UNCHANGED <<lockVars, workerVars, phase, writes>>
    BY <1>5 DEF Recover, envVars
  <2>2. CASE UNCHANGED rowVars
    BY <2>1, <2>2, StoreSafe DEF rowVars, RowsCoherent, OnlyRow
  <2>3. CASE opLock[o] = "nobody" /\ VerdictStands(o) /\ RecoveryTx(o)
    <3>1. CASE Verdict(o) = "retry"
      BY <2>1, <2>3, <3>1, BeforeCoherent, StoreSafe DEF VerdictStands, RecoveryTx, Reschedule, Before
    <3>2. CASE Verdict(o) # "retry"
      <4>1. Verdict(o) \in {"rejected", "indeterminate"}
        BY <3>2 DEF Verdict
      <4>2. RowsCoherent' /\ OnlyRow(o)
        BY <2>1, <2>3, <3>2, <4>1, TerminalizeCoherent DEF RecoveryTx, Terminal
      <4> QED
        BY <2>1, <2>3, <4>2, StoreSafe
    <3> QED
      BY <3>1, <3>2
  <2> QED
    BY <1>5, <2>2, <2>3 DEF Recover
<1>6. CASE RecoverAtStartup(o)
  <2>1. phase = "recovering" /\ UNCHANGED <<lockVars, workerVars, phase, writes>>
    BY <1>6 DEF RecoverAtStartup, envVars
  <2>2. \/ \E s \in {"rejected", "indeterminate"} : Terminalize(o, s)
        \/ row[o] \in Before /\ Reschedule(o, now)
    BY <1>6 DEF RecoverAtStartup, StartupTx, StartupCandidate, Before
  <2>3. RowsCoherent' /\ OnlyRow(o)
    <3>1. CASE \E s \in {"rejected", "indeterminate"} : Terminalize(o, s)
      BY <2>1, <3>1, TerminalizeCoherent DEF Terminal
    <3>2. CASE row[o] \in Before /\ Reschedule(o, now)
      BY <2>1, <3>2, BeforeCoherent DEF Reschedule, Before
    <3> QED
      BY <2>2, <3>1, <3>2
  <2> QED
    BY <2>1, <2>3, StoreSafe
<1> QED
  BY <1>1, <1>2, <1>3, <1>4, <1>5, <1>6 DEF Store

\* The process, the clock and the start of a recovery pass.
LEMMA ProcessKeepsSafe ==
  ASSUME TypeOK, Safe,
         \/ RecoveryScan \/ StartupDone \/ Shutdown \/ ProcessEnds \/ Restart \/ Tick
  PROVE  Safe'
<1>1. CASE RecoveryScan \/ Tick
  BY <1>1 DEF RecoveryScan, Tick, Safe, RowsCoherent, OpLocked, Quiet, CrossingOK, rowVars,
              lockVars, workerVars, envVars
<1>2. CASE StartupDone \/ Shutdown \/ Restart
  BY <1>2 DEF StartupDone, Shutdown, Restart, Safe, RowsCoherent, OpLocked, Quiet, CrossingOK,
              rowVars, lockVars, workerVars
<1>3. CASE ProcessEnds
  BY <1>3 DEF ProcessEnds, Safe, RowsCoherent, OpLocked, Quiet, CrossingOK, Crossing, rowVars
<1> QED
  BY <1>1, <1>2, <1>3

\* Spawning a worker and its heartbeat.
LEMMA SpawnKeepsSafe ==
  ASSUME TypeOK, Safe, NEW w \in Workers, (\E o \in Ops : Spawn(w, o)) \/ Heartbeat(w)
  PROVE  Safe'
<1>1. CASE \E o \in Ops : Spawn(w, o)
  <2>1. PICK o \in Ops : Spawn(w, o)
    BY <1>1
  <2>2. /\ pc[w] = "idle" /\ phase = "up" /\ phase' = phase /\ row' = row /\ tomb' = tomb
        /\ writes' = writes /\ opLock' = opLock
        /\ pc' = [pc EXCEPT ![w] = "start"] /\ job' = [job EXCEPT ![w] = o]
        /\ pc \in [Workers -> Steps] /\ job \in [Workers -> Ops \cup {"none"}]
    BY <2>1 DEF Spawn, rowVars, lockVars, envVars, TypeOK, WorkersOK
  <2>3. RowsCoherent' /\ Quiet'
    <3>1. RowsCoherent'
      BY <2>2 DEF Safe, RowsCoherent
    <3>2. Quiet'
      BY <2>2 DEF Quiet
    <3> QED
      BY <3>1, <3>2
  <2>4. OpLocked' /\ CrossingOK'
    BY <2>2 DEF Safe, OpLocked, CrossingOK, Crossing
  <2> QED
    BY <2>3, <2>4 DEF Safe
<1>2. CASE Heartbeat(w)
  <2>1. /\ job[w] \in Ops /\ row' = row /\ tomb' = tomb
        /\ UNCHANGED <<lockVars, workerVars, phase, writes>>
    BY <1>2 DEF Heartbeat, RenewPtyInputLease, envVars, TypeOK, WorkersOK
  <2> QED
    BY <2>1, StoreSafe DEF Safe, RowsCoherent, OnlyRow
<1> QED
  BY <1>1, <1>2

\* Every step keeps the invariant.
LEMMA NextKeepsSafe ==
  ASSUME TypeOK, Safe, [Next]_vars
  PROVE  Safe'
<1>1. ASSUME NEW w \in Workers, Worker(w) PROVE Safe'
  BY <1>1, CallsKeepSafe, StepsKeepSafe DEF Worker
<1>2. ASSUME NEW w \in Workers, Heartbeat(w) \/ \E o \in Ops : Spawn(w, o) PROVE Safe'
  BY <1>2, SpawnKeepsSafe
<1>3. ASSUME NEW o \in Ops, Store(o) PROVE Safe'
  BY <1>3, StoreKeepsSafe
<1>4. CASE RecoveryScan \/ StartupDone \/ Shutdown \/ ProcessEnds \/ Restart \/ Tick
  BY <1>4, ProcessKeepsSafe
<1>5. CASE UNCHANGED vars
  BY <1>5 DEF vars, Safe, RowsCoherent, OpLocked, Quiet, CrossingOK
<1> QED
  BY <1>1, <1>2, <1>3, <1>4, <1>5 DEF Next

\* Nothing has been accepted or written in the beginning.
LEMMA InitSafe == Init => Safe
BY DEF Init, Safe, RowsCoherent, Coherent, OpLocked, Quiet, CrossingOK, Crossing, Before, Terminal

\* Rows, tombstones, locks and workers agree in every state.
LEMMA SafeAlways == Spec => [](TypeOK /\ Safe)
<1>1. TypeOK /\ Safe /\ [Next]_vars => Safe'
  BY NextKeepsSafe
<1> QED
  BY <1>1, InitSafe, TypeCorrect, PTL DEF Spec

\* However often a request is repeated, retried, recovered or interrupted, its
\* text is written at most once (dispatch_boundary_write).
THEOREM WrittenAtMostOnce == Spec => []AtMostOnce
<1>1. Safe => AtMostOnce
  BY DEF Safe, RowsCoherent, Coherent, AtMostOnce
<1> QED
  BY <1>1, SafeAlways, PTL

\* A rejected operation was never written and an injected one was
\* (terminalize_in_transaction).
THEOREM OutcomesAreTrue == Spec => []OutcomeIsTrue
<1>1. Safe => OutcomeIsTrue
  BY DEF Safe, RowsCoherent, Coherent, OutcomeIsTrue
<1> QED
  BY <1>1, SafeAlways, PTL
-----------------------------------------------------------------------------
(* One writer per target.                                                  *)

\* A worker that moves on without taking a lock: it gets to a place that needs
\* the target from one that has it.
LEMMA MoveHeld ==
  ASSUME TypeOK, TargetHeld, NEW w \in Workers, pc[w] # "idle", NEW next \in Steps,
         Continue(w, next), next \in Holding => targetLock[TargetOf[job[w]]] = w
  PROVE  TargetHeld'
<1> SUFFICES ASSUME NEW v \in Workers, pc'[v] \in Holding
             PROVE  targetLock'[TargetOf[job'[v]]] = v
  BY DEF TargetHeld
<1>1. pc' = [pc EXCEPT ![w] = next] /\ pc \in [Workers -> Steps]
  BY DEF Continue, Goto, TypeOK, WorkersOK
<1>2. CASE v = w
  <2>1. next \in Holding /\ next # "idle"
    BY <1>1, <1>2 DEF Holding
  <2> QED
    BY <1>2, <2>1 DEF Continue, Goto, lockVars
<1>3. CASE v # w
  <2>1. pc[v] \in Holding /\ job'[v] = job[v] /\ targetLock[TargetOf[job[v]]] = v
    BY <1>1, <1>3 DEF Continue, Goto, TypeOK, WorkersOK, TargetHeld
  <2>2. TargetOf[job[v]] \in Targets
    BY <2>1 DEF TypeOK, WorkersOK, Holding
  <2> QED
    BY <1>3, <2>1, <2>2 DEF Continue, Release, lockVars
<1> QED
  BY <1>2, <1>3

\* A worker that takes a free target, or gives its own up, or neither.
LEMMA LockHeld ==
  ASSUME TypeOK, TargetHeld, NEW w \in Workers, pc[w] # "idle", NEW next \in Steps \ {"idle"},
         Goto(w, next),
         \/ /\ targetLock[TargetOf[job[w]]] = "nobody"
            /\ targetLock' = [targetLock EXCEPT ![TargetOf[job[w]]] = w]
         \/ /\ targetLock[TargetOf[job[w]]] = w /\ next \notin Holding
            /\ targetLock' = [targetLock EXCEPT ![TargetOf[job[w]]] = "nobody"]
         \/ next \notin Holding /\ targetLock' = targetLock
  PROVE  TargetHeld'
<1> SUFFICES ASSUME NEW v \in Workers, pc'[v] \in Holding
             PROVE  targetLock'[TargetOf[job'[v]]] = v
  BY DEF TargetHeld
<1>1. /\ pc' = [pc EXCEPT ![w] = next] /\ pc \in [Workers -> Steps] /\ job' = job
      /\ targetLock \in [Targets -> Workers \cup {"nobody"}]
  BY DEF Goto, TypeOK, WorkersOK
<1>2. TargetOf[job[w]] \in Targets
  BY DEF TypeOK, WorkersOK
<1>3. CASE v = w
  BY <1>1, <1>2, <1>3
<1>4. CASE v # w
  <2>1. pc[v] \in Holding /\ targetLock[TargetOf[job[v]]] = v
    BY <1>1, <1>4 DEF TargetHeld
  <2>2. TargetOf[job[v]] \in Targets
    BY <2>1 DEF TypeOK, WorkersOK, Holding
  <2> QED
    BY <1>1, <1>2, <1>4, <2>1, <2>2, NamesAssumption
<1> QED
  BY <1>3, <1>4

\* Every step of a worker.
LEMMA WorkersKeepHeld ==
  ASSUME TypeOK, TargetHeld, NEW w \in Workers, Worker(w)
  PROVE  TargetHeld'
<1>0. pc[w] # "idle"
  BY DEF Worker
<1>1. pc[w] \in Holding => targetLock[TargetOf[job[w]]] = w
  BY DEF TargetHeld
<1>2. ASSUME NEW next \in Steps, Continue(w, next),
             next \in Holding => targetLock[TargetOf[job[w]]] = w
      PROVE  TargetHeld'
  BY <1>0, <1>2, MoveHeld
<1>3. ASSUME NEW from \in Steps, NEW next \in Steps, Step(w, from, next),
             next \in Holding => from \in Holding
      PROVE  TargetHeld'
  BY <1>1, <1>2, <1>3 DEF Step
<1>4. CASE TryOperationLock(w)
  <2>1. CASE Step(w, "start", "idle")
    BY <2>1, <1>3 DEF Steps, Holding
  <2>2. CASE ~Step(w, "start", "idle")
    <3>1. Goto(w, "admit") /\ targetLock' = targetLock
      BY <1>4, <2>2 DEF TryOperationLock
    <3> QED
      BY <1>0, <3>1, LockHeld DEF Steps, Holding
  <2> QED
    BY <2>1, <2>2
<1>5. CASE AcquireTarget(w)
  <2>1. CASE TakeTarget(w, "target", "claim")
    BY <1>0, <2>1, LockHeld DEF TakeTarget, Steps, Calls
  <2> QED
    BY <1>5, <2>1, <1>3 DEF AcquireTarget, Steps, Calls, Holding
<1>6. CASE Select(w)
  <2>1. CASE \E next \in {"ready", "retry", "reject", "idle"} : Step(w, "select", next)
    BY <2>1, <1>3 DEF Steps, Calls, Holding
  <2>2. CASE ~\E next \in {"ready", "retry", "reject", "idle"} : Step(w, "select", next)
    <3>1. /\ pc[w] = "select" /\ Goto(w, "refresh")
          /\ targetLock' = [targetLock EXCEPT ![TargetOf[job[w]]] = "nobody"]
      BY <1>6, <2>2 DEF Select
    <3>2. targetLock[TargetOf[job[w]]] = w
      BY <1>1, <3>1 DEF Holding
    <3> QED
      BY <1>0, <3>1, <3>2, LockHeld DEF Steps, Calls, Holding
  <2> QED
    BY <2>1, <2>2
<1>7. CASE Reacquire(w)
  <2>1. CASE TakeTarget(w, "reacquire", "refresh")
    BY <1>0, <2>1, LockHeld DEF TakeTarget, Steps, Calls
  <2> QED
    BY <1>7, <2>1, <1>3 DEF Reacquire, Steps, Calls, Holding
<1>8. CASE Admit(w) \/ Ready(w) \/ Writer(w) \/ BoundaryFails(w) \/ Submit(w) \/ Stopped(w)
  BY <1>8, <1>3 DEF Admit, Ready, Writer, BoundaryFails, Submit, Stopped, Steps, Calls, Holding
<1>9. CASE Write(w)
  BY <1>9, <1>1, <1>2 DEF Write, Steps, Calls, Holding
<1>10. CASE Begin(w)
  BY <1>10, <1>1, <1>2 DEF Begin, Steps, Calls, Holding
<1>11. CASE Claim(w) \/ Record(w) \/ Lose(w) \/ Retry(w) \/ Reject(w)
  BY <1>11, <1>2 DEF Claim, Record, Lose, Retry, Reject, Call, Steps, Calls, Holding
<1>12. CASE Renew(w) \/ FinalLease(w)
  BY <1>12, <1>1, <1>2 DEF Renew, FinalLease, LeaseFailure, Call, Steps, Calls, Holding
<1>13. CASE Refresh(w)
  BY <1>13, <1>2 DEF Refresh, LeaseFailure, Call, Steps, Calls, Holding
<1> QED
  BY <1>4, <1>5, <1>6, <1>7, <1>8, <1>9, <1>10, <1>11, <1>12, <1>13 DEF Worker

\* Every step.
LEMMA NextKeepsHeld ==
  ASSUME TypeOK, TargetHeld, [Next]_vars
  PROVE  TargetHeld'
<1>1. ASSUME NEW w \in Workers, Worker(w) PROVE TargetHeld'
  BY <1>1, WorkersKeepHeld
<1>2. CASE UNCHANGED <<lockVars, workerVars>>
  BY <1>2 DEF TargetHeld, lockVars, workerVars
<1>3. ASSUME NEW w \in Workers, NEW o \in Ops, Spawn(w, o) PROVE TargetHeld'
  BY <1>3 DEF Spawn, TargetHeld, Holding, lockVars, TypeOK, WorkersOK
<1>4. ASSUME NEW w \in Workers, Heartbeat(w) PROVE TargetHeld'
  BY <1>2, <1>4 DEF Heartbeat
<1>5. ASSUME NEW o \in Ops, Store(o) PROVE TargetHeld'
  BY <1>2, <1>5 DEF Store, Enqueue, ExpireForAdmission, RecordHostRejection, Compact, Recover,
                    RecoverAtStartup
<1>6. CASE RecoveryScan \/ StartupDone \/ Shutdown \/ Restart \/ Tick
  BY <1>2, <1>6 DEF RecoveryScan, StartupDone, Shutdown, Restart, Tick
<1>7. CASE ProcessEnds
  BY <1>7 DEF ProcessEnds, TargetHeld, Holding
<1>8. CASE UNCHANGED vars
  BY <1>2, <1>8 DEF vars, lockVars, workerVars
<1> QED
  BY <1>1, <1>3, <1>4, <1>5, <1>6, <1>7, <1>8 DEF Next

\* Between the boundary check and the last Enter no other dispatch types into
\* the target (the exact guard of PtyInputTargetGate).
THEOREM SingleWriter == Spec => []OneWriterPerTarget
<1>1. Init => TargetHeld
  BY DEF Init, TargetHeld, Holding
<1>2. TypeOK /\ TargetHeld /\ [Next]_vars => TargetHeld'
  BY NextKeepsHeld
<1>3. TargetHeld => OneWriterPerTarget
  BY DEF TargetHeld, OneWriterPerTarget, Holding
<1> QED
  BY <1>1, <1>2, <1>3, TypeCorrect, PTL DEF Spec
-----------------------------------------------------------------------------
(* The operations implement the injection contract.                        *)

\* The contract sees no change.
Unseen == Outcome' = Outcome /\ writes' = writes

\* A change of one row and its tombstone is a change of one outcome.
LEMMA OneOutcome ==
  ASSUME TypeOK, NEW o \in Ops, OnlyRow(o), \A p \in Ops \ {o} : tomb'[p] = tomb[p]
  PROVE  Outcome' = [Outcome EXCEPT ![o] = Outcome'[o]]
BY DEF OnlyRow, Outcome

\* Nothing is seen when neither rows nor tombstones change.
LEMMA RowsUnseen ==
  ASSUME row' = row, tomb' = tomb, writes' = writes
  PROVE  Unseen
BY DEF Unseen, Outcome

\* A row that stays before the boundary is accepted all along.
LEMMA BeforeUnseen ==
  ASSUME TypeOK, NEW o \in Ops, row[o] \in Before, NEW s \in Before,
         row' = [row EXCEPT ![o] = s], tomb' = tomb, writes' = writes
  PROVE  Unseen
<1>1. \A p \in Ops : row[p] # row'[p] => p = o /\ row[p] \in Before /\ row'[p] \in Before
  BY DEF TypeOK, RowsOK
<1> QED
  BY <1>1 DEF Unseen, Outcome, Before

\* A terminal transaction is a refusal, a confirmation or a giving up.
LEMMA TerminalizeRefines ==
  ASSUME TypeOK, Safe, NEW o \in Ops, NEW s \in Terminal, Terminalize(o, s),
         s = "injected" => writes[o] = 1, UNCHANGED writes
  PROVE  Contract!Next
<1>1. /\ Allowed(o, s) /\ row' = [row EXCEPT ![o] = s] /\ tomb' = [tomb EXCEPT ![o] = s]
      /\ row \in [Ops -> Status] /\ tomb \in [Ops -> {"none"} \cup Terminal]
  BY DEF Terminalize, TypeOK, RowsOK
<1>2. Outcome' = [Outcome EXCEPT ![o] = s]
  <2>1. OnlyRow(o) /\ \A p \in Ops \ {o} : tomb'[p] = tomb[p]
    BY <1>1 DEF OnlyRow
  <2>2. Outcome'[o] = s
    BY <1>1 DEF Outcome, Terminal
  <2> QED
    BY <2>1, <2>2, OneOutcome
<1>3. tomb[o] = "none"
  BY <1>1 DEF Allowed, Safe, RowsCoherent, Coherent
<1>4. CASE s = "rejected"
  <2>1. Outcome[o] = "accepted"
    BY <1>1, <1>3, <1>4 DEF Allowed, Outcome, Before
  <2>2. Contract!Refuse(o)
    BY <1>2, <1>4, <2>1 DEF Contract!Refuse, Contract!Becomes
  <2> QED
    BY <2>2 DEF Contract!Next
<1>5. CASE s # "rejected"
  <2>1. Outcome[o] = "crossed"
    BY <1>1, <1>3, <1>5 DEF Allowed, Outcome, Before
  <2>2. CASE s = "injected"
    BY <1>2, <2>1, <2>2 DEF Contract!Next, Contract!Confirm, Contract!Becomes
  <2>3. CASE s = "indeterminate"
    BY <1>2, <2>1, <2>3 DEF Contract!Next, Contract!GiveUp, Contract!Becomes
  <2> QED
    BY <1>5, <2>2, <2>3 DEF Terminal
<1> QED
  BY <1>4, <1>5

\* The commit of 'actuating' is the point of no return.
LEMMA BeginRefines ==
  ASSUME TypeOK, Safe, NEW o \in Ops, NEW w \in Workers, NEW t \in Nat,
         BeginPtyActuating(o, w, t), UNCHANGED writes
  PROVE  Contract!Next
<1>1. /\ row[o] = "preparing" /\ row' = [row EXCEPT ![o] = "actuating"] /\ tomb' = tomb
      /\ row \in [Ops -> Status]
  BY DEF BeginPtyActuating, Leased, TypeOK, RowsOK
<1>2. tomb[o] = "none"
  BY <1>1 DEF Safe, RowsCoherent, Coherent, Before
<1>3. Outcome[o] = "accepted" /\ Outcome'[o] = "crossed"
  BY <1>1, <1>2 DEF Outcome, Before
<1>4. Outcome' = [Outcome EXCEPT ![o] = "crossed"]
  BY <1>1, <1>3, OneOutcome DEF OnlyRow
<1> QED
  BY <1>3, <1>4 DEF Contract!Next, Contract!Cross, Contract!Becomes

\* The calls and steps of a worker.
LEMMA WorkerRefines ==
  ASSUME TypeOK, Safe, NEW w \in Workers, Worker(w)
  PROVE  Contract!Next \/ Unseen
<1> job[w] \in Ops /\ stamp[w] \in Nat
  BY DEF Worker, TypeOK, WorkersOK
<1>1. ASSUME UNCHANGED rowVars, UNCHANGED writes PROVE Unseen
  BY <1>1, RowsUnseen DEF rowVars
<1>2. ASSUME RenewPtyInputLease(job[w], w, stamp[w]), UNCHANGED writes PROVE Unseen
  BY <1>2, RowsUnseen DEF RenewPtyInputLease
<1>3. CASE \/ TryOperationLock(w) \/ Admit(w) \/ AcquireTarget(w) \/ Select(w)
           \/ Reacquire(w) \/ Ready(w) \/ Writer(w) \/ BoundaryFails(w) \/ Submit(w)
           \/ Stopped(w)
  <2>1. UNCHANGED rowVars /\ UNCHANGED writes
    BY <1>3 DEF TryOperationLock, Admit, AcquireTarget, Select, Reacquire, Ready, Writer,
                BoundaryFails, Submit, Stopped, Step, TakeTarget
  <2> QED
    BY <1>1, <2>1
<1>4. CASE Refresh(w) \/ Renew(w) \/ FinalLease(w)
  BY <1>1, <1>2, <1>4 DEF Refresh, Renew, FinalLease, Call
<1>5. CASE Claim(w)
  <2>1. UNCHANGED writes /\ (UNCHANGED rowVars \/ ClaimPtyInput(job[w], w, stamp[w]))
    BY <1>5 DEF Claim, Call
  <2> QED
    BY <1>1, <2>1, BeforeUnseen DEF ClaimPtyInput, Claimable, Before
<1>6. CASE Begin(w)
  BY <1>1, <1>6, BeginRefines DEF Begin
<1>7. CASE Write(w)
  <2>1. /\ pc[w] = "boundary" /\ writes' = [writes EXCEPT ![job[w]] = @ + 1]
        /\ writes \in [Ops -> Nat] /\ row' = row /\ tomb' = tomb
    BY <1>7 DEF Write, rowVars, TypeOK, EnvOK
  <2>2. row[job[w]] = "actuating" /\ writes[job[w]] = 0
    BY <2>1 DEF Safe, CrossingOK, Crossing
  <2>3. Outcome[job[w]] = "crossed"
    BY <2>2 DEF Safe, RowsCoherent, Coherent, Outcome, Before
  <2>4. Outcome' = Outcome
    BY <2>1 DEF Outcome
  <2>5. writes' = [writes EXCEPT ![job[w]] = 1]
    BY <2>1, <2>2
  <2> QED
    BY <2>2, <2>3, <2>4, <2>5 DEF Contract!Next, Contract!Type
<1>8. CASE Record(w)
  <2>1. UNCHANGED writes /\ (UNCHANGED rowVars \/ Terminalize(job[w], "injected"))
    BY <1>8 DEF Record, Call
  <2>2. writes[job[w]] = 1
    BY <1>8 DEF Record, Call, Safe, CrossingOK
  <2> QED
    BY <1>1, <2>1, <2>2, TerminalizeRefines DEF Terminal
<1>9. CASE Lose(w) \/ Reject(w)
  <2>1. /\ UNCHANGED writes
        /\ \/ UNCHANGED rowVars \/ Terminalize(job[w], "indeterminate")
           \/ Terminalize(job[w], "rejected")
    BY <1>9 DEF Lose, Reject, Call
  <2> QED
    BY <1>1, <2>1, TerminalizeRefines DEF Terminal
<1>10. CASE Retry(w)
  <2>1. UNCHANGED writes /\ (UNCHANGED rowVars \/ RetryPtyInput(job[w], w, stamp[w]))
    BY <1>10 DEF Retry, Call
  <2>2. CASE Terminalize(job[w], "rejected")
    BY <2>1, <2>2, TerminalizeRefines DEF Terminal
  <2>3. CASE row[job[w]] = "preparing" /\ Reschedule(job[w], stamp[w] + Backoff)
    BY <2>1, <2>3, BeforeUnseen DEF Reschedule, Before
  <2> QED
    BY <1>1, <2>1, <2>2, <2>3 DEF RetryPtyInput
<1> QED
  BY <1>3, <1>4, <1>5, <1>6, <1>7, <1>8, <1>9, <1>10 DEF Worker

\* Admission, maintenance and recovery.
LEMMA StoreRefines ==
  ASSUME TypeOK, Safe, NEW o \in Ops, Store(o)
  PROVE  Contract!Next \/ Unseen
<1> row \in [Ops -> Status] /\ tomb \in [Ops -> {"none"} \cup Terminal]
  BY DEF TypeOK, RowsOK
<1>1. CASE Enqueue(o)
  <2>1. /\ row[o] = "none" /\ tomb[o] = "none" /\ row' = [row EXCEPT ![o] = "queued"]
        /\ tomb' = tomb /\ writes' = writes
    BY <1>1 DEF Enqueue, Known
  <2>2. Outcome[o] = "absent" /\ Outcome'[o] = "accepted"
    BY <2>1 DEF Outcome, Before
  <2>3. Outcome' = [Outcome EXCEPT ![o] = "accepted"]
    BY <2>1, <2>2, OneOutcome DEF OnlyRow
  <2> QED
    BY <2>1, <2>2, <2>3 DEF Contract!Next, Contract!Accept, Contract!Becomes
<1>2. CASE ExpireForAdmission(o)
  BY <1>2, TerminalizeRefines DEF ExpireForAdmission, Terminal
<1>3. CASE RecordHostRejection(o)
  <2>1. /\ row[o] = "none" /\ tomb[o] = "none" /\ tomb' = [tomb EXCEPT ![o] = "rejected"]
        /\ row' = row /\ writes' = writes
    BY <1>3 DEF RecordHostRejection, Known
  <2>2. Outcome[o] = "absent" /\ Outcome'[o] = "rejected"
    BY <2>1 DEF Outcome
  <2>3. Outcome' = [Outcome EXCEPT ![o] = "rejected"]
    BY <2>1, <2>2, OneOutcome DEF OnlyRow
  <2> QED
    BY <2>1, <2>2, <2>3 DEF Contract!Next, Contract!Refuse, Contract!Becomes
<1>4. CASE Compact(o)
  <2>1. /\ tomb[o] # "none" /\ row' = [row EXCEPT ![o] = "none"] /\ tomb' = tomb
        /\ writes' = writes
    BY <1>4 DEF Compact, Terminal
  <2> QED
    BY <2>1 DEF Unseen, Outcome
<1>5. CASE Recover(o)
  <2>1. UNCHANGED writes
    BY <1>5 DEF Recover
  <2>2. CASE UNCHANGED rowVars
    BY <2>1, <2>2, RowsUnseen DEF rowVars
  <2>3. CASE VerdictStands(o) /\ RecoveryTx(o)
    <3>1. CASE Verdict(o) = "retry"
      BY <2>1, <2>3, <3>1, BeforeUnseen DEF VerdictStands, RecoveryTx, Reschedule, Before
    <3>2. CASE Verdict(o) # "retry"
      <4>1. Verdict(o) \in {"rejected", "indeterminate"}
        BY <3>2 DEF Verdict
      <4> QED
        BY <2>1, <2>3, <3>2, <4>1, TerminalizeRefines DEF RecoveryTx, Terminal
    <3> QED
      BY <3>1, <3>2
  <2> QED
    BY <1>5, <2>2, <2>3 DEF Recover
<1>6. CASE RecoverAtStartup(o)
  <2>1. UNCHANGED writes
    BY <1>6 DEF RecoverAtStartup
  <2>2. \/ \E s \in {"rejected", "indeterminate"} : Terminalize(o, s)
        \/ row[o] \in Before /\ Reschedule(o, now)
    BY <1>6 DEF RecoverAtStartup, StartupTx, StartupCandidate, Before
  <2>3. CASE \E s \in {"rejected", "indeterminate"} : Terminalize(o, s)
    BY <2>1, <2>3, TerminalizeRefines DEF Terminal
  <2>4. CASE row[o] \in Before /\ Reschedule(o, now)
    BY <2>1, <2>4, BeforeUnseen DEF Reschedule, Before
  <2> QED
    BY <2>2, <2>3, <2>4
<1> QED
  BY <1>1, <1>2, <1>3, <1>4, <1>5, <1>6 DEF Store

\* Every step is a step of the contract or none of its business.
LEMMA NextRefines ==
  ASSUME TypeOK, Safe, [Next]_vars
  PROVE  Contract!Next \/ Unseen
<1>1. ASSUME NEW w \in Workers, Worker(w) PROVE Contract!Next \/ Unseen
  BY <1>1, WorkerRefines
<1>2. ASSUME NEW o \in Ops, Store(o) PROVE Contract!Next \/ Unseen
  BY <1>2, StoreRefines
<1>3. ASSUME NEW w \in Workers, Heartbeat(w) \/ \E o \in Ops : Spawn(w, o) PROVE Unseen
  BY <1>3, RowsUnseen DEF Heartbeat, RenewPtyInputLease, Spawn, rowVars
<1>4. CASE RecoveryScan \/ StartupDone \/ Shutdown \/ ProcessEnds \/ Restart \/ Tick
  BY <1>4, RowsUnseen DEF RecoveryScan, StartupDone, Shutdown, ProcessEnds, Restart, Tick, rowVars
<1>5. CASE UNCHANGED vars
  BY <1>5, RowsUnseen DEF vars
<1> QED
  BY <1>1, <1>2, <1>3, <1>4, <1>5 DEF Next

\* The store, the workers and recovery together keep the contract of an
\* at-most-once injection (pty_dispatch.rs, pty_recovery.rs, rows.rs).
THEOREM KeepsContract == Spec => ImplementsContract
<1>1. Init => Contract!Init
  BY DEF Init, Contract!Init, Outcome
<1>2. TypeOK /\ Safe /\ [Next]_vars => [Contract!Next]_Contract!vars
  BY NextRefines DEF Unseen, Contract!vars
<1> QED
  BY <1>1, <1>2, SafeAlways, PTL DEF Spec, ImplementsContract, Contract!Spec

\* What a step must leave alone of an operation that has its outcome.
FateIsFinal ==
  \A o \in Ops : Outcome[o] \in Terminal => /\ Outcome'[o] = Outcome[o]
                                            /\ writes'[o] = writes[o]

\* No step of the contract touches an operation that has its outcome.
LEMMA ContractIsFinal ==
  ASSUME TypeOK, Contract!Next
  PROVE  FateIsFinal
<1>1. PICK o \in Ops : \/ Contract!Accept(o) \/ Contract!Refuse(o) \/ Contract!Cross(o)
                       \/ Contract!Type(o) \/ Contract!Confirm(o) \/ Contract!GiveUp(o)
  BY DEF Contract!Next
<1>2. ASSUME NEW from \in {"absent", "accepted", "crossed"}, NEW to,
             Contract!Becomes(o, from, to)
      PROVE  FateIsFinal
  <2>1. Outcome = [p \in Ops |-> Outcome[p]]
    BY DEF Outcome
  <2>2. \A p \in Ops \ {o} : Outcome'[p] = Outcome[p]
    BY <1>2, <2>1 DEF Contract!Becomes
  <2>3. Outcome[o] \notin Terminal /\ writes' = writes
    BY <1>2 DEF Contract!Becomes, Terminal
  <2> QED
    BY <2>2, <2>3 DEF FateIsFinal
<1>3. CASE Contract!Type(o)
  <2>1. Outcome' = Outcome /\ Outcome[o] \notin Terminal
    BY <1>3 DEF Contract!Type, Terminal
  <2>2. \A p \in Ops \ {o} : writes'[p] = writes[p]
    BY <1>3 DEF Contract!Type, TypeOK, RowsOK
  <2> QED
    BY <2>1, <2>2 DEF FateIsFinal
<1>4. CASE Contract!Accept(o)
  BY <1>2, <1>4 DEF Contract!Accept
<1>5. CASE Contract!Refuse(o)
  BY <1>2, <1>5 DEF Contract!Refuse
<1>6. CASE Contract!Cross(o) \/ Contract!Confirm(o) \/ Contract!GiveUp(o)
  BY <1>2, <1>6 DEF Contract!Cross, Contract!Confirm, Contract!GiveUp
<1> QED
  BY <1>1, <1>3, <1>4, <1>5, <1>6

\* Once an operation was rejected, injected or given up as indeterminate, that
\* answer is never revised and its text is not typed any more: by a worker that
\* comes late, by recovery, or after its row was compacted
\* (terminalize_in_transaction, compact_pty_terminal_*, recover_pty_input_runtime).
THEOREM FatesAreFinal == Spec => [][FateIsFinal]_vars
<1>1. TypeOK /\ Safe /\ [Next]_vars => [FateIsFinal]_vars
  BY NextRefines, ContractIsFinal DEF Unseen, FateIsFinal
<1> QED
  BY <1>1, SafeAlways, PTL DEF Spec
-----------------------------------------------------------------------------
(* A row in 'retry' has an attempt left.                                   *)

\* A store call takes effect within MaxDelay of its issue.
Prompt ==
  \A w \in Workers : pc[w] \in Calls => stamp[w] <= now /\ now <= stamp[w] + MaxDelay

\* While recovery sees a row prepared under a lease that had run out when its
\* pass began, nobody has claimed the row since: a claim leaves a lease that
\* runs beyond the time of the pass, or up to the row's expiry.
ScanHonest ==
  /\ scanAt <= now
  /\ \A o \in Ops :
       scan[o] # "none" /\ row[o] = "preparing" /\ leaseUntil[o] <= scanAt /\ expires[o] > scanAt
       => attempt[o] = scanAttempt[o]

\* What recovery has read stays, or is forgotten.
ScanKept ==
  /\ scanAt' = scanAt
  /\ \A o \in Ops : scan'[o] # "none" => scan'[o] = scan[o] /\ scanAttempt'[o] = scanAttempt[o]

Counted == ScanHonest /\ RetryHasAttempts

\* Moving on to a call stamps it with the time.
LEMMA GotoPrompt ==
  ASSUME TypeOK, Prompt, NEW w \in Workers, NEW next \in Steps, Goto(w, next), now' = now
  PROVE  Prompt'
BY DEF Goto, Prompt, TypeOK, WorkersOK, EnvOK

\* A row that is not touched stays as honest, and as well counted, as it was.
LEMMA UntouchedCounted ==
  ASSUME TypeOK, Counted, ScanKept, now' = now, UNCHANGED rowVars
  PROVE  Counted'
BY DEF Counted, ScanHonest, ScanKept, RetryHasAttempts, rowVars

\* A change of one row: it must not end up in 'retry' without an attempt left,
\* nor prepared under a lease that recovery would take for run out.
LEMMA TouchedCounted ==
  ASSUME TypeOK, Counted, ScanKept, now' = now, NEW o \in Ops,
         \A p \in Ops \ {o} : /\ row'[p] = row[p] /\ attempt'[p] = attempt[p]
                              /\ leaseUntil'[p] = leaseUntil[p] /\ expires'[p] = expires[p],
         attempt'[o] <= MaxAttempts, row'[o] = "retry" => attempt'[o] < MaxAttempts,
         row'[o] = "preparing" => ~(leaseUntil'[o] <= scanAt /\ expires'[o] > scanAt)
  PROVE  Counted'
<1>1. scanAt' = scanAt /\ scanAt \in Nat /\ leaseUntil \in [Ops -> Nat] /\ expires \in [Ops -> Nat]
  BY DEF ScanKept, TypeOK, ScanOK, RowsOK
<1>2. RetryHasAttempts'
  BY DEF Counted, RetryHasAttempts
<1>3. ScanHonest'
  <2> SUFFICES ASSUME NEW p \in Ops, scan'[p] # "none", row'[p] = "preparing",
                      leaseUntil'[p] <= scanAt, expires'[p] > scanAt
               PROVE  attempt'[p] = scanAttempt'[p]
    BY <1>1 DEF Counted, ScanHonest
  <2>1. CASE p = o
    BY <2>1
  <2>2. CASE p # o
    BY <2>2 DEF Counted, ScanHonest, ScanKept
  <2> QED
    BY <2>1, <2>2
<1> QED
  BY <1>2, <1>3 DEF Counted

\* An ended row is not in 'retry'.
LEMMA TerminalizeCounted ==
  ASSUME TypeOK, Counted, ScanKept, now' = now, NEW o \in Ops, NEW s \in Terminal,
         Terminalize(o, s)
  PROVE  Counted'
<1>1. /\ row' = [row EXCEPT ![o] = s] /\ leaseUntil' = [leaseUntil EXCEPT ![o] = 0]
      /\ attempt' = attempt /\ expires' = expires
      /\ row \in [Ops -> Status] /\ leaseUntil \in [Ops -> Nat]
  BY DEF Terminalize, TypeOK, RowsOK
<1>2. attempt[o] <= MaxAttempts
  BY DEF Counted, RetryHasAttempts
<1> QED
  BY <1>1, <1>2, TouchedCounted DEF Terminal

\* A row is scheduled again while it has an attempt left.
LEMMA RescheduleCounted ==
  ASSUME TypeOK, Counted, ScanKept, now' = now, NEW o \in Ops, NEW t, Reschedule(o, t),
         attempt[o] < MaxAttempts
  PROVE  Counted'
<1>1. /\ row' = [row EXCEPT ![o] = "retry"] /\ leaseUntil' = [leaseUntil EXCEPT ![o] = 0]
      /\ attempt' = attempt /\ expires' = expires
      /\ row \in [Ops -> Status] /\ leaseUntil \in [Ops -> Nat]
  BY DEF Reschedule, TypeOK, RowsOK
<1>2. attempt[o] <= MaxAttempts
  BY DEF Counted, RetryHasAttempts
<1> QED
  BY <1>1, <1>2, TouchedCounted

\* A lease granted now or not long ago outlasts the time of recovery's pass.
LEMMA LeaseOutlasts ==
  ASSUME TypeOK, ScanHonest, MaxDelay < Lease, NEW o \in Ops, NEW t \in Nat,
         now <= t + MaxDelay
  PROVE  ~(LeaseEnd(o, t) <= scanAt /\ expires[o] > scanAt)
BY DEF TypeOK, RowsOK, EnvOK, ScanOK, ScanHonest, LeaseEnd

\* A claim counts an attempt, of which there was one left.
LEMMA ClaimCounted ==
  ASSUME TypeOK, Counted, ScanKept, now' = now, MaxDelay < Lease, NEW o \in Ops,
         NEW w \in Workers, NEW t \in Nat, now <= t + MaxDelay, ClaimPtyInput(o, w, t)
  PROVE  Counted'
<1>1. /\ row' = [row EXCEPT ![o] = "preparing"] /\ attempt' = [attempt EXCEPT ![o] = @ + 1]
      /\ leaseUntil' = [leaseUntil EXCEPT ![o] = LeaseEnd(o, t)] /\ expires' = expires
      /\ row \in [Ops -> Status] /\ leaseUntil \in [Ops -> Nat] /\ attempt \in [Ops -> Nat]
      /\ attempt[o] < MaxAttempts
  BY DEF ClaimPtyInput, Claimable, TypeOK, RowsOK
<1>2. ~(LeaseEnd(o, t) <= scanAt /\ expires[o] > scanAt)
  BY LeaseOutlasts DEF Counted
<1>3. attempt'[o] <= MaxAttempts
  BY <1>1
<1> QED
  BY <1>1, <1>2, <1>3, TouchedCounted

\* A renewal extends a lease.
LEMMA RenewCounted ==
  ASSUME TypeOK, Counted, ScanKept, now' = now, MaxDelay < Lease, NEW o \in Ops,
         NEW w \in Workers, NEW t \in Nat, now <= t + MaxDelay, RenewPtyInputLease(o, w, t)
  PROVE  Counted'
<1>1. /\ row' = row /\ attempt' = attempt /\ row[o] = "preparing"
      /\ leaseUntil' = [leaseUntil EXCEPT ![o] = LeaseEnd(o, t)] /\ expires' = expires
      /\ leaseUntil \in [Ops -> Nat]
  BY DEF RenewPtyInputLease, Leased, TypeOK, RowsOK
<1>2. ~(LeaseEnd(o, t) <= scanAt /\ expires[o] > scanAt)
  BY LeaseOutlasts DEF Counted
<1>3. attempt[o] <= MaxAttempts
  BY DEF Counted, RetryHasAttempts
<1> QED
  BY <1>1, <1>2, <1>3, TouchedCounted

\* The commit of 'actuating' leaves the count alone.
LEMMA BeginCounted ==
  ASSUME TypeOK, Counted, ScanKept, now' = now, NEW o \in Ops, NEW w \in Workers, NEW t,
         BeginPtyActuating(o, w, t)
  PROVE  Counted'
<1>1. /\ row' = [row EXCEPT ![o] = "actuating"] /\ leaseUntil' = [leaseUntil EXCEPT ![o] = 0]
      /\ attempt' = attempt /\ expires' = expires
      /\ row \in [Ops -> Status] /\ leaseUntil \in [Ops -> Nat]
  BY DEF BeginPtyActuating, TypeOK, RowsOK
<1>2. attempt[o] <= MaxAttempts
  BY DEF Counted, RetryHasAttempts
<1> QED
  BY <1>1, <1>2, TouchedCounted

\* retry_pty_input rejects a row that has used its attempts up.
LEMMA RetryCounted ==
  ASSUME TypeOK, Counted, ScanKept, now' = now, NEW o \in Ops, NEW w \in Workers, NEW t,
         RetryPtyInput(o, w, t)
  PROVE  Counted'
<1>1. CASE attempt[o] >= MaxAttempts
  BY <1>1, TerminalizeCounted DEF RetryPtyInput, Terminal
<1>2. CASE ~(attempt[o] >= MaxAttempts)
  <2>1. attempt[o] < MaxAttempts
    BY <1>2 DEF TypeOK, RowsOK
  <2> QED
    BY <1>2, <2>1, RescheduleCounted DEF RetryPtyInput
<1> QED
  BY <1>1, <1>2

\* What the steps of workers and the store have in common: a call that a worker
\* awaits was stamped in time.
LEMMA StampInTime ==
  ASSUME TypeOK, Prompt, NEW w \in Workers, pc[w] \in Calls
  PROVE  stamp[w] \in Nat /\ now <= stamp[w] + MaxDelay
BY DEF TypeOK, WorkersOK, Prompt

\* The steps of a worker that leave the rows alone.
LEMMA StepsKeepCounted ==
  ASSUME TypeOK, Prompt, Counted, NEW w \in Workers, pc[w] # "idle",
         \/ TryOperationLock(w) \/ Admit(w) \/ AcquireTarget(w) \/ Select(w) \/ Reacquire(w)
         \/ Ready(w) \/ Writer(w) \/ BoundaryFails(w) \/ Write(w) \/ Submit(w) \/ Stopped(w)
  PROVE  Prompt' /\ Counted'
<1>1. UNCHANGED rowVars /\ UNCHANGED scanVars /\ UNCHANGED envVars
  BY DEF TryOperationLock, Admit, AcquireTarget, Select, Reacquire, Ready, Writer, BoundaryFails,
         Write, Submit, Stopped, Step, TakeTarget
<1>2. \E next \in Steps : Goto(w, next)
  BY DEF TryOperationLock, Admit, AcquireTarget, Select, Reacquire, Ready, Writer, BoundaryFails,
         Write, Submit, Stopped, Step, TakeTarget, Continue, Steps, Calls
<1>3. ScanKept /\ now' = now
  BY <1>1 DEF ScanKept, scanVars, envVars
<1> QED
  BY <1>1, <1>2, <1>3, GotoPrompt, UntouchedCounted

\* The store calls of a worker.
LEMMA CallsKeepCounted ==
  ASSUME TypeOK, Prompt, Counted, MaxDelay < Lease, NEW w \in Workers, pc[w] # "idle",
         \/ Claim(w) \/ Refresh(w) \/ Renew(w) \/ FinalLease(w) \/ Begin(w) \/ Record(w)
         \/ Lose(w) \/ Retry(w) \/ Reject(w)
  PROVE  Prompt' /\ Counted'
<1> job[w] \in Ops
  BY DEF TypeOK, WorkersOK
<1>1. UNCHANGED scanVars /\ UNCHANGED envVars
  BY DEF Claim, Refresh, Renew, FinalLease, Begin, Record, Lose, Retry, Reject, Call
<1>2. \E next \in Steps : Goto(w, next)
  BY DEF Claim, Refresh, Renew, FinalLease, Begin, Record, Lose, Retry, Reject, Call,
         LeaseFailure, Continue, Steps, Calls
<1>3. ScanKept /\ now' = now
  BY <1>1 DEF ScanKept, scanVars, envVars
<1>4. pc[w] \in Calls
  BY DEF Claim, Refresh, Renew, FinalLease, Begin, Record, Lose, Retry, Reject, Call, Calls
<1>5. stamp[w] \in Nat /\ now <= stamp[w] + MaxDelay
  BY <1>4, StampInTime
<1>6. \/ UNCHANGED rowVars
      \/ ClaimPtyInput(job[w], w, stamp[w]) \/ RenewPtyInputLease(job[w], w, stamp[w])
      \/ BeginPtyActuating(job[w], w, stamp[w]) \/ RetryPtyInput(job[w], w, stamp[w])
      \/ \E s \in Terminal : Terminalize(job[w], s)
  BY DEF Claim, Refresh, Renew, FinalLease, Begin, Record, Lose, Retry, Reject, Call, Terminal
<1>7. Prompt'
  BY <1>2, <1>3, GotoPrompt
<1>8. CASE UNCHANGED rowVars
  BY <1>3, <1>7, <1>8, UntouchedCounted
<1>9. CASE ClaimPtyInput(job[w], w, stamp[w])
  BY <1>3, <1>5, <1>7, <1>9, ClaimCounted
<1>10. CASE RenewPtyInputLease(job[w], w, stamp[w])
  BY <1>3, <1>5, <1>7, <1>10, RenewCounted
<1>11. CASE BeginPtyActuating(job[w], w, stamp[w])
  BY <1>3, <1>7, <1>11, BeginCounted
<1>12. CASE RetryPtyInput(job[w], w, stamp[w])
  BY <1>3, <1>7, <1>12, RetryCounted
<1>13. CASE \E s \in Terminal : Terminalize(job[w], s)
  BY <1>3, <1>7, <1>13, TerminalizeCounted
<1> QED
  BY <1>6, <1>8, <1>9, <1>10, <1>11, <1>12, <1>13

\* Admission, maintenance and recovery.
LEMMA StoreKeepsCounted ==
  ASSUME TypeOK, Prompt, Counted, NEW o \in Ops, Store(o)
  PROVE  Prompt' /\ Counted'
<1>1. UNCHANGED workerVars /\ UNCHANGED envVars
  BY DEF Store, Enqueue, ExpireForAdmission, RecordHostRejection, Compact, Recover,
         RecoverAtStartup
<1>2. Prompt' /\ now' = now
  BY <1>1 DEF Prompt, workerVars, envVars
<1>3. CASE Recover(o)
  <2>1. ScanKept
    BY <1>3 DEF Recover, Forget, Abandon, NoScan, ScanKept, TypeOK, ScanOK
  <2>2. CASE UNCHANGED rowVars
    BY <1>2, <2>1, <2>2, UntouchedCounted
  <2>3. CASE ~UNCHANGED rowVars
    <3>1. scan[o] # "none" /\ VerdictStands(o) /\ RecoveryTx(o)
      BY <1>3, <2>3 DEF Recover
    <3>2. CASE Verdict(o) = "retry"
      <4>1. row[o] = "preparing" /\ leaseUntil[o] <= scanAt
        BY <3>1, <3>2 DEF VerdictStands
      <4>2. ~(expires[o] <= scanAt) /\ ~(scanAttempt[o] >= MaxAttempts)
        BY <3>2 DEF Verdict
      <4>3. expires[o] > scanAt /\ scanAttempt[o] < MaxAttempts
        BY <4>2 DEF TypeOK, RowsOK, ScanOK
      <4>4. attempt[o] = scanAttempt[o]
        BY <3>1, <4>1, <4>3 DEF Counted, ScanHonest
      <4> QED
        BY <1>2, <2>1, <3>1, <3>2, <4>3, <4>4, RescheduleCounted DEF RecoveryTx
    <3>3. CASE Verdict(o) # "retry"
      <4>1. Verdict(o) \in Terminal
        BY <3>3 DEF Verdict, Terminal
      <4> QED
        BY <1>2, <2>1, <3>1, <3>3, <4>1, TerminalizeCounted DEF RecoveryTx
    <3> QED
      BY <3>2, <3>3
  <2> QED
    BY <1>2, <2>2, <2>3
<1>4. CASE ~Recover(o)
  <2>1. ScanKept
    BY <1>4 DEF Store, Enqueue, ExpireForAdmission, RecordHostRejection, Compact,
                RecoverAtStartup, ScanKept, scanVars
  <2>2. CASE Enqueue(o)
    <3>1. /\ row' = [row EXCEPT ![o] = "queued"] /\ attempt' = [attempt EXCEPT ![o] = 0]
          /\ expires' = [expires EXCEPT ![o] = now + Lifetime] /\ leaseUntil' = leaseUntil
          /\ row \in [Ops -> Status] /\ attempt \in [Ops -> Nat] /\ expires \in [Ops -> Nat]
      BY <2>2 DEF Enqueue, leaseVars, TypeOK, RowsOK
    <3> QED
      BY <1>2, <2>1, <3>1, TouchedCounted
  <2>3. CASE ExpireForAdmission(o)
    BY <1>2, <2>1, <2>3, TerminalizeCounted DEF ExpireForAdmission, Terminal
  <2>4. CASE RecordHostRejection(o)
    BY <1>2, <2>1, <2>4 DEF RecordHostRejection, leaseVars, Counted, ScanHonest, ScanKept,
                            RetryHasAttempts
  <2>5. CASE Compact(o)
    <3>1. /\ row' = [row EXCEPT ![o] = "none"] /\ attempt' = attempt /\ expires' = expires
          /\ leaseUntil' = leaseUntil /\ row \in [Ops -> Status]
      BY <2>5 DEF Compact, leaseVars, TypeOK, RowsOK
    <3>2. attempt[o] <= MaxAttempts
      BY DEF Counted, RetryHasAttempts
    <3> QED
      BY <1>2, <2>1, <3>1, <3>2, TouchedCounted
  <2>6. CASE RecoverAtStartup(o)
    <3>1. \/ \E s \in Terminal : Terminalize(o, s)
          \/ ~(attempt[o] >= MaxAttempts) /\ Reschedule(o, now)
      BY <2>6 DEF RecoverAtStartup, StartupTx, Terminal
    <3>2. CASE \E s \in Terminal : Terminalize(o, s)
      BY <1>2, <2>1, <3>2, TerminalizeCounted
    <3>3. CASE ~(attempt[o] >= MaxAttempts) /\ Reschedule(o, now)
      <4>1. attempt[o] < MaxAttempts
        BY <3>3 DEF TypeOK, RowsOK
      <4> QED
        BY <1>2, <2>1, <3>3, <4>1, RescheduleCounted
    <3> QED
      BY <1>2, <3>1, <3>2, <3>3
  <2> QED
    BY <1>2, <1>4, <2>2, <2>3, <2>4, <2>5, <2>6 DEF Store
<1> QED
  BY <1>3, <1>4

\* The process, the clock and the start of a recovery pass, which reads the
\* attempts as they are.
LEMMA ProcessKeepsCounted ==
  ASSUME TypeOK, Prompt, Counted,
         \/ RecoveryScan \/ StartupDone \/ Shutdown \/ ProcessEnds \/ Restart \/ Tick
  PROVE  Prompt' /\ Counted'
<1>1. UNCHANGED rowVars
  BY DEF RecoveryScan, StartupDone, Shutdown, ProcessEnds, Restart, Tick
<1>2. CASE RecoveryScan
  <2>1. /\ scanAt' = now /\ now' = now /\ now \in Nat
        /\ \A o \in Ops : scan'[o] # "none" => scanAttempt'[o] = attempt[o]
        /\ UNCHANGED workerVars
    BY <1>2 DEF RecoveryScan, envVars, TypeOK, EnvOK
  <2>2. Prompt'
    BY <2>1 DEF Prompt, workerVars
  <2>3. Counted'
    BY <1>1, <2>1 DEF Counted, ScanHonest, RetryHasAttempts, rowVars
  <2> QED
    BY <2>2, <2>3
<1>3. CASE StartupDone \/ Shutdown \/ Restart
  <2>1. UNCHANGED workerVars /\ now' = now /\ ScanKept
    BY <1>3 DEF StartupDone, Shutdown, Restart, ScanKept, scanVars
  <2>2. Prompt'
    BY <2>1 DEF Prompt, workerVars
  <2> QED
    BY <1>1, <2>1, <2>2, UntouchedCounted
<1>4. CASE ProcessEnds
  <2>1. now' = now /\ ScanKept /\ \A w \in Workers : pc'[w] = "idle"
    BY <1>4 DEF ProcessEnds, Abandon, NoScan, ScanKept
  <2>2. Prompt'
    BY <2>1 DEF Prompt, Calls
  <2> QED
    BY <1>1, <2>1, <2>2, UntouchedCounted
<1>5. CASE Tick
  <2>1. /\ now' = now + 1 /\ now \in Nat /\ pc' = pc /\ stamp' = stamp
        /\ \A w \in Workers : pc[w] \in Calls => now < stamp[w] + MaxDelay
        /\ UNCHANGED scanVars
    BY <1>5 DEF Tick, workerVars, TypeOK, EnvOK
  <2>2. Prompt'
    BY <2>1 DEF Prompt, TypeOK, WorkersOK
  <2>3. Counted'
    <3>1. scanAt \in Nat
      BY DEF TypeOK, ScanOK
    <3> QED
      BY <1>1, <2>1, <3>1 DEF Counted, ScanHonest, RetryHasAttempts, rowVars, scanVars
  <2> QED
    BY <2>2, <2>3
<1> QED
  BY <1>2, <1>3, <1>4, <1>5

\* Spawning a worker and its heartbeat.
LEMMA SpawnKeepsCounted ==
  ASSUME TypeOK, Prompt, Counted, MaxDelay < Lease, NEW w \in Workers,
         (\E o \in Ops : Spawn(w, o)) \/ Heartbeat(w)
  PROVE  Prompt' /\ Counted'
<1>1. UNCHANGED scanVars /\ UNCHANGED envVars /\ UNCHANGED stamp
  BY DEF Spawn, Heartbeat, workerVars
<1>2. ScanKept /\ now' = now
  BY <1>1 DEF ScanKept, scanVars, envVars
<1>3. CASE \E o \in Ops : Spawn(w, o)
  <2>1. pc' = [pc EXCEPT ![w] = "start"] /\ pc \in [Workers -> Steps] /\ UNCHANGED rowVars
    BY <1>3 DEF Spawn, TypeOK, WorkersOK
  <2>2. Prompt'
    BY <1>1, <1>2, <2>1 DEF Prompt, Calls
  <2> QED
    BY <1>2, <2>1, <2>2, UntouchedCounted
<1>4. CASE Heartbeat(w)
  <2>1. /\ job[w] \in Ops /\ now \in Nat /\ RenewPtyInputLease(job[w], w, now)
        /\ UNCHANGED workerVars
    BY <1>4 DEF Heartbeat, TypeOK, WorkersOK, EnvOK
  <2>2. Prompt'
    BY <1>2, <2>1 DEF Prompt, workerVars
  <2>3. now <= now + MaxDelay
    BY <2>1
  <2> QED
    BY <1>2, <2>1, <2>2, <2>3, RenewCounted
<1> QED
  BY <1>3, <1>4

\* Every step.
LEMMA NextKeepsCounted ==
  ASSUME TypeOK, Prompt, Counted, MaxDelay < Lease, [Next]_vars
  PROVE  Prompt' /\ Counted'
<1>1. ASSUME NEW w \in Workers, Worker(w) PROVE Prompt' /\ Counted'
  BY <1>1, CallsKeepCounted, StepsKeepCounted DEF Worker
<1>2. ASSUME NEW w \in Workers, Heartbeat(w) \/ \E o \in Ops : Spawn(w, o)
      PROVE  Prompt' /\ Counted'
  BY <1>2, SpawnKeepsCounted
<1>3. ASSUME NEW o \in Ops, Store(o) PROVE Prompt' /\ Counted'
  BY <1>3, StoreKeepsCounted
<1>4. CASE RecoveryScan \/ StartupDone \/ Shutdown \/ ProcessEnds \/ Restart \/ Tick
  BY <1>4, ProcessKeepsCounted
<1>5. CASE UNCHANGED vars
  BY <1>5 DEF vars, Prompt, Counted, ScanHonest, RetryHasAttempts
<1> QED
  BY <1>1, <1>2, <1>3, <1>4, <1>5 DEF Next

\* A row in 'retry' can be claimed again, if a store call is through before a
\* lease of its making would be over: 120 s in the code (claim_pty_input,
\* retry_pty_input, recover_pty_input_runtime).
THEOREM RetriesCanBeClaimed ==
  ASSUME MaxDelay < Lease
  PROVE  Spec => []RetryHasAttempts
<1>1. Init => Prompt /\ Counted
  BY DEF Init, Prompt, Counted, ScanHonest, RetryHasAttempts, Calls
<1>2. TypeOK /\ Prompt /\ Counted /\ [Next]_vars => Prompt' /\ Counted'
  BY NextKeepsCounted
<1>3. Counted => RetryHasAttempts
  BY DEF Counted
<1> QED
  BY <1>1, <1>2, <1>3, TypeCorrect, PTL DEF Spec
-----------------------------------------------------------------------------
(* No lock outlives the dispatch that took it.                             *)

\* Whoever holds a lock is dispatching that operation, or one for that target.
LocksInUse ==
  /\ \A o \in Ops, w \in Workers :
       opLock[o] = w => pc[w] \notin {"idle", "start"} /\ job[w] = o
  /\ \A t \in Targets, w \in Workers :
       targetLock[t] = w => pc[w] \notin {"idle", "start"} /\ TargetOf[job[w]] = t

\* On to the next step, or a return that lets go of everything.
LEMMA ContinueKeepsLocks ==
  ASSUME TypeOK, LocksInUse, NEW w \in Workers,
         NEW next \in Steps \ {"start"}, Continue(w, next)
  PROVE  LocksInUse'
<1>1. pc'[w] = next /\ \A v \in Workers \ {w} : pc'[v] = pc[v] /\ job'[v] = job[v]
  BY DEF Continue, Goto, TypeOK, WorkersOK
<1>2. CASE next = "idle"
  <2>1. /\ \A o \in Ops : opLock'[o] = (IF opLock[o] = w THEN "nobody" ELSE opLock[o])
        /\ \A t \in Targets :
             targetLock'[t] = (IF targetLock[t] = w THEN "nobody" ELSE targetLock[t])
    BY <1>2 DEF Continue, Release
  <2> QED
    BY <1>1, <2>1, NamesAssumption DEF LocksInUse
<1>3. CASE next # "idle"
  <2>1. opLock' = opLock /\ targetLock' = targetLock /\ job' = job
    BY <1>3 DEF Continue, Goto, lockVars
  <2> QED
    BY <1>1, <1>3, <2>1 DEF LocksInUse
<1> QED
  BY <1>2, <1>3

\* A dispatch that takes its target, free till then, or lets it go.
LEMMA TargetKeepsLocks ==
  ASSUME TypeOK, LocksInUse, NEW w \in Workers, pc[w] \notin {"idle", "start"},
         NEW holder \in {w, "nobody"},
         targetLock' = [targetLock EXCEPT ![TargetOf[job[w]]] = holder],
         NEW next \in {"claim", "refresh"}, Goto(w, next), UNCHANGED opLock
  PROVE  LocksInUse'
<1>1. /\ pc'[w] = next /\ job' = job /\ \A v \in Workers \ {w} : pc'[v] = pc[v]
      /\ job[w] \in Ops
  BY DEF Goto, TypeOK, WorkersOK
<1>2. \A t \in Targets :
        targetLock'[t] = (IF t = TargetOf[job[w]] THEN holder ELSE targetLock[t])
  BY DEF TypeOK, WorkersOK
<1> QED
  BY <1>1, <1>2, NamesAssumption DEF LocksInUse

\* The steps of a worker.
LEMMA WorkerKeepsLocks ==
  ASSUME TypeOK, LocksInUse, NEW w \in Workers, Worker(w)
  PROVE  LocksInUse'
<1>1. pc[w] # "idle"
  BY DEF Worker
<1>2. CASE \/ Admit(w) \/ Ready(w) \/ Writer(w) \/ BoundaryFails(w) \/ Write(w) \/ Submit(w)
           \/ Stopped(w) \/ Claim(w) \/ Refresh(w) \/ Renew(w) \/ FinalLease(w) \/ Begin(w)
           \/ Record(w) \/ Lose(w) \/ Retry(w) \/ Reject(w)
  <2>1. \E next \in Steps \ {"start"} : Continue(w, next)
    BY <1>2 DEF Admit, Ready, Writer, BoundaryFails, Write, Submit, Stopped, Claim, Refresh,
       Renew, FinalLease, Begin, Record, Lose, Retry, Reject, Call, LeaseFailure, Step, Steps, Calls
  <2> QED
    BY <2>1, ContinueKeepsLocks
<1>3. CASE TryOperationLock(w)
  <2>1. CASE \E next \in Steps \ {"start"} : Continue(w, next)
    BY <2>1, ContinueKeepsLocks
  <2>2. CASE /\ pc[w] = "start" /\ opLock[job[w]] = "nobody"
             /\ opLock' = [opLock EXCEPT ![job[w]] = w]
             /\ Goto(w, "admit") /\ UNCHANGED targetLock
    <3>1. /\ pc'[w] = "admit" /\ job' = job /\ job[w] \in Ops
          /\ \A v \in Workers \ {w} : pc'[v] = pc[v]
      BY <2>2 DEF Goto, TypeOK, WorkersOK
    <3>2. \A o \in Ops : opLock'[o] = (IF o = job[w] THEN w ELSE opLock[o])
      BY <2>2, <3>1 DEF TypeOK, WorkersOK
    <3> QED
      BY <2>2, <3>1, <3>2 DEF LocksInUse
  <2> QED
    BY <1>3, <2>1, <2>2 DEF TryOperationLock, Step, Steps
<1>4. CASE AcquireTarget(w) \/ Select(w) \/ Reacquire(w)
  <2>1. CASE \E next \in Steps \ {"start"} : Continue(w, next)
    BY <2>1, ContinueKeepsLocks
  <2>2. CASE \E holder \in {w, "nobody"}, next \in {"claim", "refresh"} :
               /\ pc[w] \notin {"idle", "start"} /\ Goto(w, next) /\ UNCHANGED opLock
               /\ targetLock' = [targetLock EXCEPT ![TargetOf[job[w]]] = holder]
    BY <2>2, TargetKeepsLocks
  <2> QED
    BY <1>4, <2>1, <2>2
    DEF AcquireTarget, Select, Reacquire, TakeTarget, Step, Steps, Calls
<1> QED
  BY <1>2, <1>3, <1>4 DEF Worker

\* Every other step.
LEMMA NextKeepsLocks ==
  ASSUME TypeOK, LocksInUse, [Next]_vars
  PROVE  LocksInUse'
<1>1. ASSUME NEW w \in Workers, Worker(w) PROVE LocksInUse'
  BY <1>1, WorkerKeepsLocks
<1>2. CASE UNCHANGED <<lockVars, workerVars>>
  BY <1>2 DEF LocksInUse, lockVars, workerVars
<1>3. ASSUME NEW w \in Workers, NEW o \in Ops, Spawn(w, o) PROVE LocksInUse'
  <2>1. /\ pc[w] = "idle" /\ opLock' = opLock /\ targetLock' = targetLock
        /\ \A v \in Workers \ {w} : pc'[v] = pc[v] /\ job'[v] = job[v]
    BY <1>3 DEF Spawn, lockVars, TypeOK, WorkersOK
  <2> QED
    BY <2>1 DEF LocksInUse
<1>4. CASE ProcessEnds
  BY <1>4, NamesAssumption DEF ProcessEnds, LocksInUse
<1>5. ASSUME NEW w \in Workers, Heartbeat(w) PROVE UNCHANGED <<lockVars, workerVars>>
  BY <1>5 DEF Heartbeat
<1>6. ASSUME NEW o \in Ops, Store(o) PROVE UNCHANGED <<lockVars, workerVars>>
  BY <1>6 DEF Store, Enqueue, ExpireForAdmission, RecordHostRejection, Compact, Recover,
     RecoverAtStartup
<1>7. CASE RecoveryScan \/ StartupDone \/ Shutdown \/ Restart \/ Tick
  BY <1>2, <1>7 DEF RecoveryScan, StartupDone, Shutdown, Restart, Tick
<1>8. CASE UNCHANGED vars
  BY <1>2, <1>8 DEF vars, lockVars, workerVars
<1> QED
  BY <1>1, <1>2, <1>3, <1>4, <1>5, <1>6, <1>7, <1>8 DEF Next

\* Whatever a dispatch runs into, a lost lease, a failed call or a shutdown, its
\* operation and its target are locked only while it runs, so that recovery and
\* later dispatches are never shut out (the guards of dispatch_accepted_operation).
THEOREM NoLockIsLeaked == Spec => []LocksInUse
<1>1. Init => LocksInUse
  BY NamesAssumption DEF Init, LocksInUse
<1>2. TypeOK /\ LocksInUse /\ [Next]_vars => LocksInUse'
  BY NextKeepsLocks
<1> QED
  BY <1>1, <1>2, TypeCorrect, PTL DEF Spec
=============================================================================
