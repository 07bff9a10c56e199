------------------------ MODULE LoopSchedulerProofs ------------------------
(***************************************************************************)
(* Type correctness of one Loop, that no audit row lacks its state, and    *)
(* that no write brings an older state back, for any clock, occurrences,   *)
(* policy and number of runs, edits, failures and crashes.                 *)
(*                                                                         *)
(* The argument for the last: what a scan is about to write is not older   *)
(* than the state it read, a commit demands that this state is still the   *)
(* one on disk, and a record that is replayed was itself such a write      *)
(* (Ordered).                                                              *)
(***************************************************************************)
EXTENDS LoopScheduler, WellFoundedInduction, TLAPS

USE BoundsAssumption, DueAssumption

Numbered(r) == r # NoRun => r.n # 0

\* Every run but NoRun has a number.
Numbers ==
  /\ Numbered(run) /\ Numbered(disk.pend) /\ Numbered(s0.disk.pend) /\ Numbered(next.pend)
  /\ Numbered(unrec.run) /\ Numbered(unrec.before.pend) /\ Numbered(unrec.after.pend)
  /\ pc \in {"check", "deliver", "inject"} \/ job \in {"delivered", "replay"} => run # NoRun

\* An edit of the app pays for one generation.
Generations ==
  /\ edit # "none" => side = edit
  /\ IF edit = "app" THEN gen + 1 <= edits ELSE gen <= edits

\* What is written is not older than what was read.
Ordered ==
  /\ disk.at <= now /\ s0.disk.at <= now /\ next.at <= now
  /\ unrec.before.at <= unrec.after.at /\ unrec.after.at <= now
  /\ pc = "commit" => s0.disk.at <= next.at
  /\ pc = "idle" => job = "none"
  /\ job = "replay" => s0.disk \in {unrec.before, unrec.after}

Inv == TypeOK /\ Numbers /\ Generations /\ Ordered

-----------------------------------------------------------------------------
(* Data.                                                                   *)

\* Six versions suffice for the five live copies of a state file.
LEMMA FreshVerType == FreshVer \in 1..6
<1>1. \A a, b, c, d, e : \E v \in 1..6 : v \notin {a, b, c, d, e}
  <2>1. 1 \in 1..6 /\ 2 \in 1..6 /\ 3 \in 1..6 /\ 4 \in 1..6 /\ 5 \in 1..6 /\ 6 \in 1..6
    OBVIOUS
  <2>2. \A a, b, c, d, e : {1, 2, 3, 4, 5, 6} \subseteq {a, b, c, d, e} => FALSE
    OBVIOUS
  <2> QED
    BY <2>1, <2>2
<1> QED
  BY <1>1 DEF FreshVer

\* The empty values are typed.
LEMMA EmptyTypes ==
  /\ NoRun \in Run /\ NoState \in State /\ NoCfg \in Config
  /\ NoSnap \in [cfg : Config, disk : State, gen : 0..MaxEdits]
  /\ NoRecord \in [gen : 0..MaxEdits, cfg : Config, run : Run, before : State, after : State]
  BY DEF NoRun, Run, NoState, State, NoCfg, Config, NoSnap, NoRecord

\* latest_due_between finds an occurrence after the first instant and not after the second, or none.
LEMMA DueRange ==
  ASSUME NEW after, NEW upto \in 1..MaxTime
  PROVE  latest_due_between(after, upto) \in {0} \cup {d \in DueTimes : after < d /\ d <= upto}
<1> DEFINE hits == {d \in DueTimes : after < d /\ d <= upto}
<1>1. CASE hits = {}
  BY <1>1 DEF latest_due_between
<1>0. hits \subseteq 2..MaxTime
  OBVIOUS
<1>2. CASE hits # {} /\ \E d \in hits : \A e \in hits : e <= d
  <2>1. latest_due_between(after, upto) = CHOOSE d \in hits : \A e \in hits : e <= d
    BY <1>2 DEF latest_due_between
  <2>2. latest_due_between(after, upto) \in hits
    BY <1>2, <2>1
  <2> QED
    BY <2>2
<1>3. ASSUME hits # {} PROVE \E d \in hits : \A e \in hits : e <= d
  <2> DEFINE T == {MaxTime - d : d \in hits}
  <2>0. PICK h \in hits : TRUE
    BY <1>3
  <2>1. T # {} /\ T \subseteq Nat
    <3>1. MaxTime - h \in T
      BY <2>0
    <3>2. ASSUME NEW d \in hits PROVE MaxTime - d \in Nat
      BY <1>0
    <3> QED
      BY <3>1, <3>2
  <2>2. PICK x \in T : \A y \in T : ~(<<y, x>> \in OpToRel(<, Nat))
    BY <2>1, WFMin, NatLessThanWellFounded
  <2>3. \A y \in T : ~(y < x)
    BY <2>1, <2>2 DEF OpToRel
  <2>4. PICK d \in hits : x = MaxTime - d
    OBVIOUS
  <2>5. ASSUME NEW e \in hits PROVE e <= d
    <3>1. MaxTime - e \in T
      OBVIOUS
    <3> HIDE DEF T
    <3> QED
      BY <1>0, <2>3, <2>4, <3>1
  <2> QED
    BY <2>5
<1> QED
  BY <1>1, <1>2, <1>3

-----------------------------------------------------------------------------
(* The inductive step.                                                     *)

\* What a scan is about to write is typed, numbered and in order.
LEMMA NextStateIn ==
  ASSUME Inv PROVE /\ NextState \in State /\ Numbered(NextState.pend)
                   /\ NextState.at <= now /\ s0.disk.at <= NextState.at
<1>1. CASE job = "replay"
  BY <1>1 DEF Inv, TypeOK, Numbers, Ordered, NextState, State
<1>2. CASE job # "replay"
  <2> DEFINE p == IF job = "pending" THEN run
                  ELSE IF job \in {"coalesced", "missed"} THEN s0.disk.pend ELSE NoRun
  <2>1. NextState = [ver |-> FreshVer, at |-> now, pend |-> p]
    BY <1>2 DEF NextState
  <2>2. p \in Run /\ Numbered(p)
    BY EmptyTypes DEF Inv, TypeOK, Numbers, Numbered, State
  <2>3. now \in 0..MaxTime /\ s0.disk.at <= now
    BY DEF Inv, TypeOK, Ordered
  <2> HIDE DEF p
  <2> QED
    BY <2>1, <2>2, <2>3, FreshVerType DEF State
<1> QED
  BY <1>1, <1>2

\* An occurrence is a time, and not the first.
LEMMA DueTimesType == ASSUME NEW d \in DueTimes PROVE d \in 2..MaxTime /\ d \in 0..MaxTime
  OBVIOUS

\* An occurrence found, or none, is a time.
LEMMA DueType ==
  ASSUME NEW after, NEW upto \in 1..MaxTime PROVE latest_due_between(after, upto) \in 0..MaxTime
<1>1. latest_due_between(after, upto) \in {0} \cup DueTimes
  BY DueRange
<1>2. \A d \in DueTimes : d \in 0..MaxTime
  BY DueTimesType
<1>3. 0 \in 0..MaxTime
  OBVIOUS
<1> QED
  BY <1>1, <1>2, <1>3

\* The occurrences that are open are times.
LEMMA OpenType == ASSUME Inv PROVE Open \subseteq 0..MaxTime
<1>1. run.occ \in 0..MaxTime
  BY DEF Inv, TypeOK, Run
<1>2. {d \in DueTimes : sends[d] > 0 /\ ~Settled(d)} \subseteq 0..MaxTime
  <2>1. \A d \in DueTimes : d \in 0..MaxTime
    BY DueTimesType
  <2> QED
    BY <2>1
<1> QED
  BY <1>1, <1>2 DEF Open

\* The row of a run is typed, and a delivered run has a number.
LEMMA RowType ==
  ASSUME Inv PROVE /\ Row \in [n : 0..MaxRuns, occ : 0..MaxTime, kind : Jobs]
                   /\ Kind = "delivered" => run.n \in 1..MaxRuns
  BY DEF Inv, TypeOK, Numbers, Numbered, Row, Kind, Run, Jobs

\* The scan, up to its commit, keeps the invariant.
LEMMA ScanKeepsInv ==
  ASSUME Inv, (\E kind \in {"startup", "tick", "idle"} : ScanRead(kind)) \/ RunNow \/ Check \/ DeliverBusy \/ DeliverDropped \/ InjectCheck \/ Inject \/ Apply PROVE Inv'
<1> USE DEF files, scanner, bounds, history
<1>1. ASSUME NEW kind \in {"startup", "tick", "idle"}, ScanRead(kind) PROVE Inv'
  <2>0. latest_due_between(disk.at, now) \in 0..MaxTime
    BY DueType DEF Inv, TypeOK
  <2>1. TypeOK'
    BY <1>1, <2>0, EmptyTypes DEF Inv, TypeOK, ScanRead, Begin, ScanKeeps, Run, State, Jobs
  <2>2. Numbers'
    BY <1>1, <2>0 DEF Inv, TypeOK, Numbers, Numbered, NoRecord, NoState, ScanRead, Begin, Replayable, ScanKeeps, NoRun
  <2>3. Generations'
    BY <1>1, <2>0 DEF Inv, Generations, ScanRead, ScanKeeps
  <2>4. Ordered'
    BY <1>1, <2>0 DEF Inv, TypeOK, Ordered, NoRecord, NoState, ScanRead, Begin, Replayable, ScanKeeps
  <2> QED
    BY <2>1, <2>2, <2>3, <2>4 DEF Inv
<1>2. ASSUME RunNow PROVE Inv'
  <2>1. TypeOK'
    BY <1>2, EmptyTypes DEF Inv, TypeOK, RunNow, Begin, ScanKeeps, Run, Jobs
  <2>2. Numbers'
    BY <1>2 DEF Inv, TypeOK, Numbers, Numbered, NoState, RunNow, Begin, ScanKeeps, NoRun
  <2>3. Generations'
    BY <1>2 DEF Inv, Generations, RunNow, ScanKeeps
  <2>4. Ordered'
    BY <1>2 DEF Inv, TypeOK, Ordered, NoState, RunNow, Begin, ScanKeeps
  <2> QED
    BY <2>1, <2>2, <2>3, <2>4 DEF Inv
<1>3. ASSUME Check PROVE Inv'
  <2>1. TypeOK'
    BY <1>3, EmptyTypes DEF Inv, TypeOK, Check, Finish, ScanKeeps, Jobs
  <2>2. Numbers'
    BY <1>3 DEF Inv, Numbers, Numbered, NoSnap, NoState, Check, Finish, ScanKeeps
  <2>3. Generations'
    BY <1>3 DEF Inv, Generations, Check, ScanKeeps
  <2>4. Ordered'
    BY <1>3 DEF Inv, TypeOK, Ordered, NoSnap, NoState, Check, Finish, ScanKeeps
  <2> QED
    BY <2>1, <2>2, <2>3, <2>4 DEF Inv
<1>4. ASSUME DeliverBusy PROVE Inv'
  <2>1. TypeOK'
    BY <1>4 DEF Inv, TypeOK, DeliverBusy, Report, ScanKeeps, Jobs
  <2>2. Numbers'
    BY <1>4 DEF Inv, Numbers, DeliverBusy, Report, ScanKeeps
  <2>3. Generations'
    BY <1>4 DEF Inv, Generations, DeliverBusy, ScanKeeps
  <2>4. Ordered'
    BY <1>4 DEF Inv, Ordered, DeliverBusy, Report, ScanKeeps
  <2> QED
    BY <2>1, <2>2, <2>3, <2>4 DEF Inv
<1>5. ASSUME DeliverDropped PROVE Inv'
  <2>1. TypeOK'
    BY <1>5 DEF Inv, TypeOK, DeliverDropped, Report, ScanKeeps, Jobs
  <2>2. Numbers'
    BY <1>5 DEF Inv, Numbers, DeliverDropped, Report, ScanKeeps
  <2>3. Generations'
    BY <1>5 DEF Inv, Generations, DeliverDropped, ScanKeeps
  <2>4. Ordered'
    BY <1>5 DEF Inv, Ordered, DeliverDropped, Report, ScanKeeps
  <2> QED
    BY <2>1, <2>2, <2>3, <2>4 DEF Inv
<1>6. ASSUME InjectCheck PROVE Inv'
  <2>1. TypeOK'
    BY <1>6 DEF Inv, TypeOK, InjectCheck, Report, ScanKeeps, Jobs
  <2>2. Numbers'
    BY <1>6 DEF Inv, Numbers, InjectCheck, Report, ScanKeeps
  <2>3. Generations'
    BY <1>6 DEF Inv, Generations, InjectCheck, ScanKeeps
  <2>4. Ordered'
    BY <1>6 DEF Inv, Ordered, InjectCheck, Report, ScanKeeps
  <2> QED
    BY <2>1, <2>2, <2>3, <2>4 DEF Inv
<1>7. ASSUME Inject PROVE Inv'
  <2>1. TypeOK'
    BY <1>7 DEF Inv, TypeOK, Inject, Report, ScanKeeps, Jobs
  <2>2. Numbers'
    BY <1>7 DEF Inv, Numbers, Inject, Report, ScanKeeps
  <2>3. Generations'
    BY <1>7 DEF Inv, Generations, Inject, ScanKeeps
  <2>4. Ordered'
    BY <1>7 DEF Inv, Ordered, Inject, Report, ScanKeeps
  <2> QED
    BY <2>1, <2>2, <2>3, <2>4 DEF Inv
<1>8. ASSUME Apply PROVE Inv'
  <2>1. TypeOK'
    BY <1>8, EmptyTypes, NextStateIn DEF Inv, TypeOK, Apply, Finish, ScanKeeps, Jobs
  <2>2. Numbers'
    BY <1>8, NextStateIn DEF Inv, Numbers, Numbered, NoSnap, NoState, Apply, Finish, ScanKeeps
  <2>3. Generations'
    BY <1>8 DEF Inv, Generations, Apply, ScanKeeps
  <2>4. Ordered'
    BY <1>8, NextStateIn DEF Inv, TypeOK, Ordered, NoSnap, NoState, Apply, Finish, ScanKeeps
  <2> QED
    BY <2>1, <2>2, <2>3, <2>4 DEF Inv
<1> QED
  BY <1>1, <1>2, <1>3, <1>4, <1>5, <1>6, <1>7, <1>8

\* A commit keeps the invariant, whatever becomes of it.
LEMMA CommitKeepsInv ==
  ASSUME Inv, CommitStale \/ CommitWritten \/ CommitFails \/ CommitAuditFails PROVE Inv'
<1> USE DEF files, scanner, bounds, history
<1>1. ASSUME CommitStale PROVE Inv'
  <2>1. TypeOK'
    BY <1>1, EmptyTypes DEF Inv, TypeOK, CommitStale, Leave, Finish, CommitKeeps, Jobs
  <2>2. Numbers'
    BY <1>1 DEF Inv, Numbers, Numbered, NoSnap, NoState, CommitStale, Leave, Finish
  <2>3. Generations'
    BY <1>1 DEF Inv, Generations, CommitStale, CommitKeeps
  <2>4. Ordered'
    BY <1>1 DEF Inv, TypeOK, Ordered, NoSnap, NoState, CommitStale, Leave, Finish, CommitKeeps
  <2> QED
    BY <2>1, <2>2, <2>3, <2>4 DEF Inv
<1>2. ASSUME CommitWritten PROVE Inv'
  <2>1. TypeOK'
    BY <1>2, EmptyTypes, RowType DEF Inv, TypeOK, CommitWritten, WriteState, Forget, Leave, Finish, CommitKeeps, Jobs
  <2>2. Numbers'
    BY <1>2, RowType DEF Inv, Numbers, Numbered, NoSnap, NoRecord, NoState, CommitWritten, WriteState, Forget, Leave, Finish
  <2>3. Generations'
    BY <1>2 DEF Inv, Generations, CommitWritten, CommitKeeps
  <2>4. Ordered'
    BY <1>2, RowType DEF Inv, TypeOK, Ordered, NoSnap, NoRecord, NoState, CommitWritten, WriteState, Forget, Leave, Finish, CommitKeeps
  <2> QED
    BY <2>1, <2>2, <2>3, <2>4 DEF Inv
<1>3. ASSUME CommitFails PROVE Inv'
  <2>1. TypeOK'
    <3>1. excused' \subseteq 0..MaxTime
      BY <1>3 DEF Inv, TypeOK, Run, CommitFails
    <3>2. unrec' \in [gen : 0..MaxEdits, cfg : Config, run : Run, before : State, after : State]
      BY <1>3 DEF Inv, TypeOK, CommitFails, Remember
    <3> QED
      BY <1>3, <3>1, <3>2, EmptyTypes DEF Inv, TypeOK, CommitFails, Leave, Finish, CommitKeeps, Jobs
  <2>2. Numbers'
    BY <1>3 DEF Inv, Numbers, Numbered, NoSnap, NoState, CommitFails, Remember, Leave, Finish
  <2>3. Generations'
    BY <1>3 DEF Inv, Generations, CommitFails, CommitKeeps
  <2>4. Ordered'
    BY <1>3 DEF Inv, TypeOK, Ordered, NoSnap, NoState, CommitFails, Remember, Leave, Finish, CommitKeeps
  <2> QED
    BY <2>1, <2>2, <2>3, <2>4 DEF Inv
<1>4. ASSUME CommitAuditFails PROVE Inv'
  <2>1. TypeOK'
    BY <1>4, EmptyTypes, RowType DEF Inv, TypeOK, CommitAuditFails, CommitFresh, WriteState, Remember, Leave, Finish, CommitKeeps, Jobs
  <2>2. Numbers'
    BY <1>4, RowType DEF Inv, Numbers, Numbered, NoSnap, NoState, CommitAuditFails, WriteState, Remember, Leave, Finish
  <2>3. Generations'
    BY <1>4 DEF Inv, Generations, CommitAuditFails, CommitKeeps
  <2>4. Ordered'
    BY <1>4, RowType DEF Inv, TypeOK, Ordered, NoSnap, NoState, CommitAuditFails, WriteState, Remember, Leave, Finish, CommitKeeps
  <2> QED
    BY <2>1, <2>2, <2>3, <2>4 DEF Inv
<1> QED
  BY <1>1, <1>2, <1>3, <1>4

\* The edits keep the invariant.
LEMMA EditKeepsInv ==
  ASSUME Inv, Edit PROVE Inv'
<1> USE DEF files, scanner, bounds, history
<1>1. ASSUME NEW by \in {"app", "cli"}, UpdateConfig(by) PROVE Inv'
  <2>1. TypeOK'
    BY <1>1, OpenType DEF Inv, TypeOK, UpdateConfig, Config, Locked, EditKeeps
  <2>2. Numbers'
    BY <1>1, OpenType DEF Inv, Numbers, UpdateConfig, EditKeeps
  <2>3. Generations'
    BY <1>1 DEF Inv, TypeOK, Generations, UpdateConfig, Locked
  <2>4. Ordered'
    BY <1>1, OpenType DEF Inv, Ordered, UpdateConfig, EditKeeps
  <2> QED
    BY <2>1, <2>2, <2>3, <2>4 DEF Inv
<1>2. ASSUME NEW by \in {"app", "cli"}, CreateConfig(by) PROVE Inv'
  <2>1. TypeOK'
    BY <1>2, OpenType DEF Inv, TypeOK, CreateConfig, Config, Locked, EditKeeps
  <2>2. Numbers'
    BY <1>2, OpenType DEF Inv, Numbers, CreateConfig, EditKeeps
  <2>3. Generations'
    BY <1>2 DEF Inv, TypeOK, Generations, CreateConfig, Locked
  <2>4. Ordered'
    BY <1>2, OpenType DEF Inv, Ordered, CreateConfig, EditKeeps
  <2> QED
    BY <2>1, <2>2, <2>3, <2>4 DEF Inv
<1>3. ASSUME NEW by \in {"app", "cli"}, Rename(by) PROVE Inv'
  <2>0. excused' \subseteq 0..MaxTime /\ gen' \in 0..MaxEdits
    <3>1. Open \cup overlapped \cup excused \subseteq 0..MaxTime
      BY OpenType DEF Inv, TypeOK
    <3>2. excused' \in {excused, excused \cup Open}
      BY <1>3 DEF Rename
    <3>3. gen' \in 0..MaxEdits
      BY <1>3 DEF Inv, TypeOK, Generations, Rename, Bump, Locked
    <3> QED
      BY <3>1, <3>2, <3>3
  <2>1. TypeOK'
    BY <1>3, <2>0 DEF Inv, TypeOK, Rename, Locked, EditKeeps
  <2>2. Numbers'
    BY <1>3, <2>0 DEF Inv, Numbers, Rename, EditKeeps
  <2>3. Generations'
    BY <1>3, <2>0 DEF Inv, TypeOK, Generations, Rename, Bump, Locked
  <2>4. Ordered'
    BY <1>3, <2>0 DEF Inv, Ordered, Rename, EditKeeps
  <2> QED
    BY <2>1, <2>2, <2>3, <2>4 DEF Inv
<1>4. ASSUME NEW by \in {"app", "cli"}, Delete(by) PROVE Inv'
  <2>1. TypeOK'
    BY <1>4, EmptyTypes DEF Inv, TypeOK, Generations, Delete, Bump, Locked, EditKeeps
  <2>2. Numbers'
    BY <1>4 DEF Inv, Numbers, Numbered, NoState, Delete, EditKeeps
  <2>3. Generations'
    BY <1>4 DEF Inv, TypeOK, Generations, Delete, Bump, Locked
  <2>4. Ordered'
    BY <1>4 DEF Inv, TypeOK, Ordered, NoState, Delete, EditKeeps
  <2> QED
    BY <2>1, <2>2, <2>3, <2>4 DEF Inv
<1>5. ASSUME WriteBaseline PROVE Inv'
  <2>1. TypeOK'
    BY <1>5, EmptyTypes, FreshVerType DEF Inv, TypeOK, Generations, WriteBaseline, baseline_loop_state, Unlock, Bump, EditKeeps, State
  <2>2. Numbers'
    BY <1>5, FreshVerType DEF Inv, Numbers, Numbered, WriteBaseline, baseline_loop_state, EditKeeps
  <2>3. Generations'
    BY <1>5 DEF Inv, Generations, WriteBaseline, Unlock, Bump
  <2>4. Ordered'
    BY <1>5, FreshVerType DEF Inv, TypeOK, Ordered, WriteBaseline, baseline_loop_state, EditKeeps
  <2> QED
    BY <2>1, <2>2, <2>3, <2>4 DEF Inv
<1>6. ASSUME EditAbandoned PROVE Inv'
  <2>0. excused' \subseteq 0..MaxTime /\ gen' \in 0..MaxEdits
    BY <1>6, OpenType DEF Inv, TypeOK, EditAbandoned
  <2>1. TypeOK'
    BY <1>6, <2>0 DEF Inv, TypeOK, EditAbandoned, Unlock, EditKeeps
  <2>2. Numbers'
    BY <1>6, <2>0 DEF Inv, Numbers, EditAbandoned, EditKeeps
  <2>3. Generations'
    BY <1>6, <2>0 DEF Inv, TypeOK, Generations, EditAbandoned, Unlock
  <2>4. Ordered'
    BY <1>6, <2>0 DEF Inv, Ordered, EditAbandoned, EditKeeps
  <2> QED
    BY <2>1, <2>2, <2>3, <2>4 DEF Inv
<1> QED
  BY <1>1, <1>2, <1>3, <1>4, <1>5, <1>6 DEF Edit

\* The clock, the orchestrator and the end of the process keep the invariant.
LEMMA OthersKeepInv ==
  ASSUME Inv, Tick \/ BusyChanges \/ Crash \/ Restart \/ UNCHANGED vars PROVE Inv'
<1> USE DEF files, scanner, bounds, history
<1>1. ASSUME Tick PROVE Inv'
  <2>1. TypeOK'
    BY <1>1 DEF Inv, TypeOK, Tick
  <2>2. Numbers'
    BY <1>1 DEF Inv, Numbers, Tick
  <2>3. Generations'
    BY <1>1 DEF Inv, Generations, Tick
  <2>4. Ordered'
    BY <1>1 DEF Inv, TypeOK, Ordered, Tick, State
  <2> QED
    BY <2>1, <2>2, <2>3, <2>4 DEF Inv
<1>2. ASSUME BusyChanges PROVE Inv'
  <2>1. TypeOK'
    BY <1>2 DEF Inv, TypeOK, BusyChanges
  <2>2. Numbers'
    BY <1>2 DEF Inv, Numbers, BusyChanges
  <2>3. Generations'
    BY <1>2 DEF Inv, Generations, BusyChanges
  <2>4. Ordered'
    BY <1>2 DEF Inv, Ordered, BusyChanges
  <2> QED
    BY <2>1, <2>2, <2>3, <2>4 DEF Inv
<1>3. ASSUME Crash PROVE Inv'
  <2>0. excused' \subseteq 0..MaxTime /\ gen' \in 0..MaxEdits
    <3>1. Open \cup overlapped \cup excused \subseteq 0..MaxTime
      BY OpenType DEF Inv, TypeOK
    <3>2. excused' = excused \cup Open \cup overlapped
      BY <1>3 DEF Crash
    <3>3. gen' \in 0..MaxEdits
      BY <1>3 DEF Crash
    <3> QED
      BY <3>1, <3>2, <3>3
  <2>1. TypeOK'
    BY <1>3, <2>0, EmptyTypes DEF Inv, TypeOK, Crash, Finish, Jobs
  <2>2. Numbers'
    BY <1>3, <2>0 DEF Inv, Numbers, Numbered, NoSnap, NoRecord, NoState, Crash, Finish
  <2>3. Generations'
    BY <1>3, <2>0 DEF Inv, TypeOK, Generations, Crash
  <2>4. Ordered'
    BY <1>3, <2>0 DEF Inv, TypeOK, Ordered, NoSnap, NoRecord, NoState, Crash, Finish
  <2> QED
    BY <2>1, <2>2, <2>3, <2>4 DEF Inv
<1>4. ASSUME Restart PROVE Inv'
  <2>1. TypeOK'
    BY <1>4 DEF Inv, TypeOK, Restart
  <2>2. Numbers'
    BY <1>4 DEF Inv, Numbers, Restart
  <2>3. Generations'
    BY <1>4 DEF Inv, Generations, Restart
  <2>4. Ordered'
    BY <1>4 DEF Inv, Ordered, Restart
  <2> QED
    BY <2>1, <2>2, <2>3, <2>4 DEF Inv
<1>5. ASSUME UNCHANGED vars PROVE Inv'
  <2>1. TypeOK'
    BY <1>5 DEF Inv, TypeOK, vars
  <2>2. Numbers'
    BY <1>5 DEF Inv, Numbers, vars
  <2>3. Generations'
    BY <1>5 DEF Inv, Generations, vars
  <2>4. Ordered'
    BY <1>5 DEF Inv, Ordered, vars
  <2> QED
    BY <2>1, <2>2, <2>3, <2>4 DEF Inv
<1> QED
  BY <1>1, <1>2, <1>3, <1>4, <1>5

\* The initial states satisfy the invariant.
LEMMA InvInit == Init => Inv
<1> SUFFICES ASSUME Init PROVE Inv
  OBVIOUS
<1>1. TypeOK
  BY EmptyTypes DEF Init, TypeOK, Config, State, Jobs
<1>2. Numbers /\ Generations /\ Ordered
  BY DEF Init, Numbers, Numbered, Generations, Ordered, NoSnap, NoState, NoRecord
<1> QED
  BY <1>1, <1>2 DEF Inv

\* Every step keeps the invariant.
LEMMA InvStep == Inv /\ [Next]_vars => Inv'
  BY ScanKeepsInv, CommitKeepsInv, EditKeepsInv, OthersKeepInv DEF Next, ScanStep

\* The invariant holds always.
THEOREM AlwaysInv == Spec => []Inv
<1>1. Init => Inv
  BY InvInit
<1>2. Inv /\ [Next]_vars => Inv'
  BY InvStep
<1> QED
  BY <1>1, <1>2, PTL DEF Spec

-----------------------------------------------------------------------------
(* The theorems.                                                           *)

\* The fields of the scheduler keep their types.
THEOREM TypeCorrect == Spec => []TypeOK
<1>1. Inv => TypeOK
  BY DEF Inv
<1> QED
  BY <1>1, AlwaysInv, PTL

\* No row says a run was delivered unless its state was written.
THEOREM RowsHaveStates == Spec => []RowHasItsState
<1> USE DEF RowHasItsState
<1>1. Init => RowHasItsState
  BY DEF Init
<1>2. RowHasItsState /\ [Next]_vars => RowHasItsState'
  <2> SUFFICES ASSUME RowHasItsState, [Next]_vars PROVE RowHasItsState'
    OBVIOUS
  <2>1. ASSUME UNCHANGED <<audit, committed>> PROVE RowHasItsState'
    BY <2>1
  <2>2. CASE CommitWritten
    BY <2>2 DEF CommitWritten, WriteState, Row
  <2>3. CASE CommitAuditFails
    BY <2>3 DEF CommitAuditFails, WriteState
  <2>4. CASE CommitStale \/ CommitFails
    BY <2>1, <2>4 DEF CommitStale, CommitFails
  <2>5. CASE (\E kind \in {"startup", "tick", "idle"} : ScanRead(kind)) \/ RunNow
    BY <2>1, <2>5 DEF ScanRead, RunNow, ScanKeeps, files, history
  <2>6. CASE Check \/ DeliverBusy \/ DeliverDropped \/ InjectCheck \/ Inject \/ Apply
    BY <2>1, <2>6 DEF Check, DeliverBusy, DeliverDropped, InjectCheck, Inject, Apply, ScanKeeps, files, history
  <2>7. CASE Edit
    BY <2>1, <2>7 DEF Edit, UpdateConfig, CreateConfig, Rename, Delete, WriteBaseline, EditAbandoned, EditKeeps
  <2>8. CASE Tick \/ BusyChanges \/ Crash \/ Restart \/ UNCHANGED vars
    BY <2>1, <2>8 DEF Tick, BusyChanges, Crash, Restart, vars, files, history
  <2> QED
    BY <2>2, <2>3, <2>4, <2>5, <2>6, <2>7, <2>8 DEF Next, ScanStep
<1> QED
  BY <1>1, <1>2, PTL DEF Spec

\* The last check only goes back when the Loop is deleted.
THEOREM CheckedGoesForward == Spec => CheckedNeverGoesBack
<1>1. Inv /\ [Next]_vars => (disk'.at < disk.at => cfg'.on = "gone")
  <2> SUFFICES ASSUME Inv, [Next]_vars PROVE disk'.at < disk.at => cfg'.on = "gone"
    OBVIOUS
  <2>0. disk.at \in Nat /\ ~(disk.at < disk.at)
    BY DEF Inv, TypeOK, State
  <2>1. ASSUME UNCHANGED disk PROVE ~(disk'.at < disk.at)
    BY <2>0, <2>1
  <2>2. CASE CommitWritten \/ CommitAuditFails
    BY <2>2 DEF CommitWritten, CommitAuditFails, CommitFresh, WriteState, Inv, TypeOK, Ordered, State
  <2>3. CASE CommitStale \/ CommitFails
    BY <2>1, <2>3 DEF CommitStale, CommitFails
  <2>4. CASE (\E kind \in {"startup", "tick", "idle"} : ScanRead(kind)) \/ RunNow
    BY <2>1, <2>4 DEF ScanRead, RunNow, ScanKeeps, files
  <2>5. CASE Check \/ DeliverBusy \/ DeliverDropped \/ InjectCheck \/ Inject \/ Apply
    BY <2>1, <2>5 DEF Check, DeliverBusy, DeliverDropped, InjectCheck, Inject, Apply, ScanKeeps, files
  <2>6. CASE WriteBaseline
    BY <2>6 DEF WriteBaseline, baseline_loop_state, Inv, TypeOK, Ordered, State
  <2>7. CASE \E by \in {"app", "cli"} : Delete(by)
    BY <2>7 DEF Delete, NoCfg
  <2>8. CASE (\E by \in {"app", "cli"} : UpdateConfig(by) \/ CreateConfig(by) \/ Rename(by)) \/ EditAbandoned
    BY <2>1, <2>8 DEF UpdateConfig, CreateConfig, Rename, EditAbandoned
  <2>9. CASE Tick \/ BusyChanges \/ Crash \/ Restart \/ UNCHANGED vars
    BY <2>1, <2>9 DEF Tick, BusyChanges, Crash, Restart, vars, files
  <2> QED
    BY <2>2, <2>3, <2>4, <2>5, <2>6, <2>7, <2>8, <2>9 DEF Next, ScanStep, Edit
<1> QED
  BY <1>1, AlwaysInv, PTL DEF CheckedNeverGoesBack, Spec
=============================================================================
