---------------------- MODULE LoopSchedulerOnceProofs ----------------------
(***************************************************************************)
(* An occurrence is typed once, and one that was reported as missed        *)
(* was not delivered, for any clock, occurrences, policy and number of     *)
(* runs, edits, failures and crashes.                                      *)
(*                                                                         *)
(* The argument: while an occurrence that went out is not yet behind the   *)
(* state file, either the scan that sent it is still on its way to its     *)
(* commit, or the record of a delivery that could not be written is there  *)
(* to be replayed; in both cases the Loop is as that scan read it, or an   *)
(* edit is under way that started when the occurrence was open (Tracked).  *)
(* A scan that starts then replays and does not deliver (Unsent).          *)
(***************************************************************************)
EXTENDS LoopSchedulerProofs

\* The prompt of d was sent, or d was reported as missed.
Missed(d) == \E row \in audit : row.kind = "missed" /\ row.occ = d
Known(d) == sends[d] > 0 \/ Missed(d)
Valid == unrec.run # NoRun

\* What happened lies behind the clock and behind every write to come.
InTime(d) ==
  Known(d) => /\ d <= now
              /\ pc = "commit" /\ job # "replay" => d <= next.at
              /\ Valid => d <= unrec.after.at
AllInTime == \A d \in DueTimes : InTime(d)
RunsInTime ==
  /\ run.occ <= now /\ disk.pend.occ <= now /\ s0.disk.pend.occ <= now /\ next.pend.occ <= now
  /\ unrec.run.occ <= now
  /\ pc = "commit" /\ job # "replay" => run.occ <= next.at

\* A record is of an enabled Loop and leaves no pending run.
Records ==
  /\ Valid => unrec.cfg.on = "yes" /\ unrec.after.pend = NoRun
  /\ pc # "idle" /\ run.occ # 0 /\ job # "replay" => unrec = NoRecord
  /\ job = "replay" => Valid

\* What a scan carries from step to step.
Carries ==
  /\ pc = "idle" => run = NoRun
  /\ pc # "idle" => s0.cfg.on = "yes"
  /\ pc \in {"check", "deliver", "inject"} => job \in {"none", "missed"}
  /\ pc \in {"deliver", "inject"} => job = "none"
  /\ job = "missed" => run.occ \in DueTimes
  /\ job = "missed" => s0.disk.pend = NoRun
  /\ job = "coalesced" => s0.disk.pend = run
  /\ pc = "commit" /\ job = "replay" => next = unrec.after
  /\ pc = "commit" /\ job # "replay" => next.pend = NoRun \/ (next.pend = run /\ job \notin {"delivered", "broken", "missed"})

\* A run that is still to be decided on was not sent and not reported.
Unsent ==
  pc # "idle" /\ job \notin {"delivered", "broken", "replay"} /\ run.occ \in DueTimes /\ Known(run.occ)
    => run.occ \in excused

\* An edit under way started when the run was open.
Overlaps ==
  /\ edit = "none" <=> side = "free"
  /\ edit # "none" /\ pc # "idle" => run.occ = 0 \/ run.occ \in overlapped

Undisturbed == disk = s0.disk /\ gen = s0.gen /\ cfg = s0.cfg
Recorded == Valid /\ unrec.gen = gen /\ unrec.cfg = cfg /\ disk = unrec.before

\* The scan is about to send d, or to commit that it did or that this broke.
InHand(d) == run.occ = d /\ (pc \in {"check", "deliver", "inject"} \/ job \in {"delivered", "broken"})

\* What goes or went out and is not settled is in hand or recorded.
Tracked(d) ==
  d \notin excused /\ (sends[d] > 0 \/ InHand(d)) /\ ~Settled(d) =>
    IF edit # "none" THEN d \in overlapped
    ELSE (pc # "idle" => Undisturbed) /\ (InHand(d) \/ Recorded)

AllTracked == \A d \in DueTimes : Tracked(d)

\* What was reported as missed is settled.
ReportSettled(row) ==
  row.kind = "missed" => row.occ \in DueTimes /\ (Settled(row.occ) \/ row.occ \in excused)
MissedSettled == \A row \in audit : ReportSettled(row)

Tracking == AllInTime /\ RunsInTime /\ Records /\ Carries /\ Unsent /\ Overlaps /\ AllTracked /\ MissedSettled

-----------------------------------------------------------------------------
(* Helpers.                                                                *)

\* Instants are numbers.
LEMMA Instants ==
  ASSUME Inv
  PROVE  /\ now \in Nat /\ disk.at \in Nat /\ next.at \in Nat /\ unrec.after.at \in Nat
         /\ run.occ \in Nat /\ disk.pend.occ \in Nat /\ s0.disk.pend.occ \in Nat /\ next.pend.occ \in Nat
         /\ unrec.run.occ \in Nat
         /\ \A d \in DueTimes : d \in Nat /\ d # 0 /\ sends[d] \in Nat
<1>1. \A d \in DueTimes : d \in Nat /\ d # 0 /\ sends[d] \in Nat
  BY DueTimesType DEF Inv, TypeOK
<1>2. /\ now \in Nat /\ disk.at \in Nat /\ next.at \in Nat /\ unrec.after.at \in Nat
      /\ run.occ \in Nat /\ disk.pend.occ \in Nat /\ s0.disk.pend.occ \in Nat /\ next.pend.occ \in Nat
      /\ unrec.run.occ \in Nat
  BY DEF Inv, TypeOK, State, Run
<1> QED
  BY <1>1, <1>2

\* What is not settled is open.
LEMMA UnsettledIsOpen ==
  ASSUME Inv, NEW d \in DueTimes, sends[d] > 0 \/ InHand(d), ~Settled(d) PROVE d \in Open
  BY Instants DEF Open, InHand

\* Between two scans, what went out or was reported is settled unless it will be replayed.
LEMMA IdleSettled ==
  ASSUME Inv, Tracking, pc = "idle", side = "free", cfg.on = "yes", ~Replayable,
         NEW d \in DueTimes, Known(d), d \notin excused
  PROVE  Settled(d)
<1>1. CASE Missed(d)
  BY <1>1 DEF Tracking, MissedSettled, ReportSettled, Missed
<1>2. CASE sends[d] > 0
  BY <1>2 DEF Tracking, AllTracked, Tracked, InHand, Recorded, Valid, Replayable, Overlaps, Inv, Ordered
<1> QED
  BY <1>1, <1>2 DEF Known

\* A state that a scan writes settles whatever went out or was reported.
LEMMA WriteSettles ==
  ASSUME Inv, Tracking, pc = "commit", NEW d \in DueTimes, Known(d), d \notin excused
  PROVE  next.pend.occ # d /\ d <= next.at
<1>1. CASE job = "replay"
  BY <1>1, Instants DEF Tracking, Carries, Records, AllInTime, InTime, NoRun
<1>2. CASE job # "replay"
  <2>1. d <= next.at
    BY <1>2 DEF Tracking, AllInTime, InTime
  <2>2. next.pend = NoRun \/ (next.pend = run /\ job \notin {"delivered", "broken"})
    BY <1>2 DEF Tracking, Carries
  <2>3. CASE next.pend = NoRun
    BY <2>1, <2>3, Instants DEF NoRun
  <2>4. CASE next.pend = run /\ job \notin {"delivered", "broken"}
    BY <1>2, <2>1, <2>4 DEF Tracking, Unsent
  <2> QED
    BY <2>2, <2>3, <2>4
<1> QED
  BY <1>1, <1>2

-----------------------------------------------------------------------------
(* The inductive step.                                                     *)

\* A scan that begins keeps the tracking.
LEMMA ReadTracks ==
  ASSUME Inv, Inv', Tracking, (\E kind \in {"startup", "tick", "idle"} : ScanRead(kind)) \/ RunNow PROVE Tracking'
<1> USE DEF files, scanner, bounds, history
<1>1. ASSUME NEW kind \in {"startup", "tick", "idle"}, ScanRead(kind) PROVE Tracking'
  <2>0. LET due == latest_due_between(disk.at, now) IN due \in Nat /\ due <= now /\ (due # 0 => due \in DueTimes /\ disk.at < due)
    <3>1. latest_due_between(disk.at, now) \in {0} \cup {d \in DueTimes : disk.at < d /\ d <= now}
      BY DueRange DEF Inv, TypeOK
    <3> QED
      BY <3>1, Instants
  <2>1. ASSUME NEW d \in DueTimes PROVE InTime(d)'
    BY <1>1, <2>0 DEF Tracking, AllInTime, InTime, Known, Missed, Valid, NoRecord, ScanRead, Begin, ScanKeeps
  <2>2. RunsInTime'
    <3>1. run'.occ <= now /\ pc' # "commit"
      BY <1>1, <2>0 DEF Tracking, RunsInTime, Inv, Ordered, ScanRead, Begin, NoRun
    <3>2. s0'.disk.pend.occ <= now /\ next'.pend.occ <= now /\ unrec'.run.occ <= now
      BY <1>1, Instants DEF Tracking, RunsInTime, ScanRead, Begin, NoState, NoRun, NoRecord
    <3>3. disk'.pend.occ <= now /\ now' = now
      BY <1>1 DEF Tracking, RunsInTime, ScanRead, ScanKeeps
    <3> QED
      BY <3>1, <3>2, <3>3 DEF RunsInTime
  <2>3. Records'
    BY <1>1, <2>0 DEF Inv, Ordered, Tracking, Records, Valid, NoRecord, ScanRead, Begin, Replayable
  <2>4. Carries'
    BY <1>1, <2>0 DEF Tracking, Carries, ScanRead, Begin, Replayable
  <2>5. Unsent'
    <3> SUFFICES ASSUME pc' # "idle", job' \notin {"delivered", "broken", "replay"}, run'.occ \in DueTimes, Known(run.occ)'
                 PROVE  run'.occ \in excused'
      BY DEF Unsent
    <3>1. Known(run'.occ)
      BY <1>1 DEF Known, Missed, ScanRead, ScanKeeps
    <3>2. pc = "idle" /\ side = "free" /\ cfg.on = "yes" /\ ~Replayable /\ disk.at # 0
      BY <1>1, Instants DEF ScanRead, Begin, NoRun
    <3>3. run'.occ = disk.pend.occ \/ disk.at < run'.occ
      BY <1>1, <2>0, Instants DEF ScanRead, Begin
    <3>4. ~Settled(run'.occ)
      BY <3>2, <3>3, Instants DEF Settled
    <3>5. run'.occ \in excused
      BY <3>1, <3>2, <3>4, IdleSettled
    <3> QED
      BY <1>1, <3>5 DEF ScanRead
  <2>6. Overlaps'
    BY <1>1, <2>0 DEF Tracking, Overlaps, ScanRead, ScanKeeps
  <2>7. ASSUME NEW d \in DueTimes PROVE Tracked(d)'
    BY <1>1, <2>0 DEF Inv, Ordered, Tracking, AllTracked, Tracked, InHand, Overlaps, Undisturbed, Recorded, Valid, Settled, Records, ScanRead, Begin, Replayable, ScanKeeps
  <2>8. ASSUME NEW row \in audit' PROVE ReportSettled(row)'
    BY <1>1, <2>0 DEF Tracking, MissedSettled, ReportSettled, Settled, ScanRead, ScanKeeps
  <2> QED
    BY <2>1, <2>2, <2>3, <2>4, <2>5, <2>6, <2>7, <2>8 DEF Tracking, AllInTime, AllTracked, MissedSettled
<1>2. ASSUME RunNow PROVE Tracking'
  <2>1. ASSUME NEW d \in DueTimes PROVE InTime(d)'
    BY <1>2 DEF Tracking, AllInTime, InTime, Known, Missed, Valid, RunNow, Begin, ScanKeeps
  <2>2. RunsInTime'
    BY <1>2 DEF Inv, Ordered, Tracking, RunsInTime, NoState, NoRun, RunNow, Begin, ScanKeeps
  <2>3. Records'
    BY <1>2 DEF Tracking, Records, Valid, RunNow, Begin
  <2>4. Carries'
    BY <1>2 DEF Carries, RunNow, Begin
  <2>5. Unsent'
    BY <1>2, Instants DEF Unsent, RunNow, Begin
  <2>6. Overlaps'
    BY <1>2 DEF Tracking, Overlaps, RunNow, ScanKeeps
  <2>7. ASSUME NEW d \in DueTimes PROVE Tracked(d)'
    BY <1>2 DEF Inv, Ordered, Tracking, AllTracked, Tracked, InHand, Overlaps, Undisturbed, Recorded, Valid, Settled, RunNow, Begin, ScanKeeps
  <2>8. ASSUME NEW row \in audit' PROVE ReportSettled(row)'
    BY <1>2 DEF Tracking, MissedSettled, ReportSettled, Settled, RunNow, ScanKeeps
  <2> QED
    BY <2>1, <2>2, <2>3, <2>4, <2>5, <2>6, <2>7, <2>8 DEF Tracking, AllInTime, AllTracked, MissedSettled
<1> QED
  BY <1>1, <1>2

\* The steps of a scan up to its commit keep the tracking.
LEMMA ScanTracks ==
  ASSUME Inv, Inv', Tracking, Check \/ DeliverBusy \/ DeliverDropped \/ InjectCheck \/ Inject \/ Apply PROVE Tracking'
<1> USE DEF files, scanner, bounds, history
<1>1. ASSUME Check PROVE Tracking'
  <2>1. ASSUME NEW d \in DueTimes PROVE InTime(d)'
    BY <1>1 DEF Tracking, AllInTime, InTime, Known, Missed, Valid, Check, Finish, ScanKeeps
  <2>2. RunsInTime'
    BY <1>1 DEF Inv, Ordered, Tracking, RunsInTime, NoState, NoSnap, NoRun, Check, Finish, ScanKeeps
  <2>3. Records'
    BY <1>1 DEF Tracking, Records, Valid, Check, Finish
  <2>4. Carries'
    BY <1>1 DEF Tracking, Carries, Check, Finish
  <2>5. Unsent'
    BY <1>1 DEF Tracking, Unsent, Known, Missed, Check, Finish, ScanKeeps
  <2>6. Overlaps'
    BY <1>1 DEF Tracking, Overlaps, Check, Finish, ScanKeeps
  <2>7. ASSUME NEW d \in DueTimes PROVE Tracked(d)'
    BY <1>1 DEF Tracking, AllTracked, Tracked, InHand, Undisturbed, Recorded, Valid, Settled, Carries, Known, Unsent, Check, Finish, ScanKeeps
  <2>8. ASSUME NEW row \in audit' PROVE ReportSettled(row)'
    BY <1>1 DEF Tracking, MissedSettled, ReportSettled, Settled, Check, ScanKeeps
  <2> QED
    BY <2>1, <2>2, <2>3, <2>4, <2>5, <2>6, <2>7, <2>8 DEF Tracking, AllInTime, AllTracked, MissedSettled
<1>2. ASSUME DeliverBusy PROVE Tracking'
  <2>1. ASSUME NEW d \in DueTimes PROVE InTime(d)'
    BY <1>2 DEF Tracking, AllInTime, InTime, Known, Missed, Valid, DeliverBusy, Report, ScanKeeps
  <2>2. RunsInTime'
    BY <1>2 DEF Tracking, RunsInTime, DeliverBusy, Report, ScanKeeps
  <2>3. Records'
    BY <1>2 DEF Tracking, Records, Carries, Valid, DeliverBusy, Report
  <2>4. Carries'
    BY <1>2 DEF Tracking, Carries, DeliverBusy, Report
  <2>5. Unsent'
    BY <1>2 DEF Tracking, Unsent, Known, Missed, Carries, DeliverBusy, Report, ScanKeeps
  <2>6. Overlaps'
    BY <1>2 DEF Tracking, Overlaps, DeliverBusy, Report, ScanKeeps
  <2>7. ASSUME NEW d \in DueTimes PROVE Tracked(d)'
    BY <1>2 DEF Tracking, AllTracked, Tracked, InHand, Undisturbed, Recorded, Valid, Settled, Carries, Known, Unsent, DeliverBusy, Report, ScanKeeps
  <2>8. ASSUME NEW row \in audit' PROVE ReportSettled(row)'
    BY <1>2 DEF Tracking, MissedSettled, ReportSettled, Settled, DeliverBusy, ScanKeeps
  <2> QED
    BY <2>1, <2>2, <2>3, <2>4, <2>5, <2>6, <2>7, <2>8 DEF Tracking, AllInTime, AllTracked, MissedSettled
<1>3. ASSUME DeliverDropped PROVE Tracking'
  <2>1. ASSUME NEW d \in DueTimes PROVE InTime(d)'
    BY <1>3 DEF Tracking, AllInTime, InTime, Known, Missed, Valid, DeliverDropped, Report, ScanKeeps
  <2>2. RunsInTime'
    BY <1>3 DEF Tracking, RunsInTime, DeliverDropped, Report, ScanKeeps
  <2>3. Records'
    BY <1>3 DEF Tracking, Records, Carries, Valid, DeliverDropped, Report
  <2>4. Carries'
    BY <1>3 DEF Tracking, Carries, DeliverDropped, Report
  <2>5. Unsent'
    BY <1>3 DEF Tracking, Unsent, Known, Missed, Carries, DeliverDropped, Report, ScanKeeps
  <2>6. Overlaps'
    BY <1>3 DEF Tracking, Overlaps, DeliverDropped, Report, ScanKeeps
  <2>7. ASSUME NEW d \in DueTimes PROVE Tracked(d)'
    BY <1>3 DEF Tracking, AllTracked, Tracked, InHand, Undisturbed, Recorded, Valid, Settled, Carries, Known, Unsent, DeliverDropped, Report, ScanKeeps
  <2>8. ASSUME NEW row \in audit' PROVE ReportSettled(row)'
    BY <1>3 DEF Tracking, MissedSettled, ReportSettled, Settled, DeliverDropped, ScanKeeps
  <2> QED
    BY <2>1, <2>2, <2>3, <2>4, <2>5, <2>6, <2>7, <2>8 DEF Tracking, AllInTime, AllTracked, MissedSettled
<1>4. ASSUME InjectCheck PROVE Tracking'
  <2>1. ASSUME NEW d \in DueTimes PROVE InTime(d)'
    BY <1>4 DEF Tracking, AllInTime, InTime, Known, Missed, Valid, InjectCheck, Report, ScanKeeps
  <2>2. RunsInTime'
    BY <1>4 DEF Tracking, RunsInTime, InjectCheck, Report, ScanKeeps
  <2>3. Records'
    BY <1>4 DEF Tracking, Records, Carries, Valid, InjectCheck, Report
  <2>4. Carries'
    BY <1>4 DEF Tracking, Carries, InjectCheck, Report
  <2>5. Unsent'
    BY <1>4 DEF Tracking, Unsent, Known, Missed, Carries, InjectCheck, Report, ScanKeeps
  <2>6. Overlaps'
    BY <1>4 DEF Tracking, Overlaps, InjectCheck, Report, ScanKeeps
  <2>7. ASSUME NEW d \in DueTimes PROVE Tracked(d)'
    BY <1>4 DEF Tracking, AllTracked, Tracked, InHand, Undisturbed, Recorded, Valid, Settled, Carries, InjectCheck, Current, Report, ScanKeeps
  <2>8. ASSUME NEW row \in audit' PROVE ReportSettled(row)'
    BY <1>4 DEF Tracking, MissedSettled, ReportSettled, Settled, InjectCheck, ScanKeeps
  <2> QED
    BY <2>1, <2>2, <2>3, <2>4, <2>5, <2>6, <2>7, <2>8 DEF Tracking, AllInTime, AllTracked, MissedSettled
<1>5. ASSUME Inject PROVE Tracking'
  <2>1. ASSUME NEW d \in DueTimes PROVE InTime(d)'
    <3>1. pc' = "apply" /\ now' = now /\ unrec' = unrec /\ audit' = audit
      BY <1>5 DEF Inject, Report, ScanKeeps
    <3>2. CASE d = run.occ
      <4>1. d <= now /\ unrec = NoRecord
        BY <1>5, <3>2, Instants DEF Tracking, RunsInTime, Records, Carries, Inject
      <4> QED
        BY <3>1, <4>1 DEF InTime, Valid, NoRecord
    <3>3. CASE d # run.occ
      <4>1. Known(d)' => Known(d)
        BY <1>5, <3>1, <3>3 DEF Known, Missed, Inject
      <4> QED
        BY <3>1, <4>1 DEF Tracking, AllInTime, InTime, Valid
    <3> QED
      BY <3>2, <3>3
  <2>2. RunsInTime'
    BY <1>5 DEF Tracking, RunsInTime, Inject, Report, ScanKeeps
  <2>3. Records'
    BY <1>5 DEF Tracking, Records, Carries, Valid, Inject, Report
  <2>4. Carries'
    BY <1>5 DEF Tracking, Carries, Inject, Report
  <2>5. Unsent'
    BY <1>5 DEF Unsent, Inject, Report
  <2>6. Overlaps'
    BY <1>5 DEF Tracking, Overlaps, Inject, Report, ScanKeeps
  <2>7. ASSUME NEW d \in DueTimes PROVE Tracked(d)'
    BY <1>5 DEF Tracking, AllTracked, Tracked, InHand, Undisturbed, Recorded, Valid, Settled, Inject, Report, ScanKeeps
  <2>8. ASSUME NEW row \in audit' PROVE ReportSettled(row)'
    BY <1>5 DEF Tracking, MissedSettled, ReportSettled, Settled, Inject, ScanKeeps
  <2> QED
    BY <2>1, <2>2, <2>3, <2>4, <2>5, <2>6, <2>7, <2>8 DEF Tracking, AllInTime, AllTracked, MissedSettled
<1>6. ASSUME Apply PROVE Tracking'
  <2>1. ASSUME NEW d \in DueTimes PROVE InTime(d)'
    BY <1>6 DEF Tracking, AllInTime, InTime, Known, Missed, Valid, Apply, NextState, Finish, ScanKeeps
  <2>2. RunsInTime'
    <3>1. NextState.pend.occ <= now /\ (job # "replay" => NextState.at = now)
      <4>1. CASE job = "replay"
        BY <4>1, Instants DEF Tracking, Records, NextState, NoRun
      <4>2. CASE job # "replay"
        BY <4>2, Instants DEF Tracking, RunsInTime, NextState, NoRun
      <4> QED
        BY <4>1, <4>2
    <3>2. next' \in {NextState, NoState} /\ run' \in {run, NoRun} /\ (pc' = "commit" => next' = NextState /\ run' = run /\ job' = job)
      BY <1>6 DEF Apply, Finish
    <3>3. NoState.pend.occ = 0 /\ NoRun.occ = 0
      BY DEF NoState, NoRun
    <3>4. now' = now /\ disk' = disk /\ s0' \in {s0, NoSnap} /\ unrec' = unrec /\ NoSnap.disk.pend.occ = 0
      BY <1>6 DEF Apply, Finish, ScanKeeps, NoSnap, NoState, NoRun
    <3> QED
      BY <3>1, <3>2, <3>3, <3>4, Instants DEF Tracking, RunsInTime
  <2>3. Records'
    BY <1>6 DEF Tracking, Records, Valid, Apply, Finish
  <2>4. Carries'
    BY <1>6 DEF Tracking, Carries, Apply, NextState, Finish
  <2>5. Unsent'
    BY <1>6 DEF Tracking, Unsent, Known, Missed, Apply, Finish, ScanKeeps
  <2>6. Overlaps'
    BY <1>6 DEF Tracking, Overlaps, Apply, Finish, ScanKeeps
  <2>7. ASSUME NEW d \in DueTimes PROVE Tracked(d)'
    BY <1>6 DEF Tracking, AllTracked, Tracked, InHand, Undisturbed, Recorded, Valid, Settled, Carries, Apply, Current, Finish, ScanKeeps
  <2>8. ASSUME NEW row \in audit' PROVE ReportSettled(row)'
    BY <1>6 DEF Tracking, MissedSettled, ReportSettled, Settled, Apply, ScanKeeps
  <2> QED
    BY <2>1, <2>2, <2>3, <2>4, <2>5, <2>6, <2>7, <2>8 DEF Tracking, AllInTime, AllTracked, MissedSettled
<1> QED
  BY <1>1, <1>2, <1>3, <1>4, <1>5, <1>6

\* A commit keeps the tracking, whatever becomes of it.
LEMMA CommitTracks ==
  ASSUME Inv, Inv', Tracking, CommitStale \/ CommitWritten \/ CommitFails \/ CommitAuditFails PROVE Tracking'
<1> USE DEF files, scanner, bounds, history
<1>1. ASSUME CommitStale PROVE Tracking'
  <2>1. ASSUME NEW d \in DueTimes PROVE InTime(d)'
    BY <1>1 DEF Tracking, AllInTime, InTime, Known, Missed, Valid, CommitStale, Leave, Finish, CommitKeeps
  <2>2. RunsInTime'
    BY <1>1 DEF Inv, Ordered, Tracking, RunsInTime, NoState, NoSnap, NoRun, CommitStale, Leave, Finish, CommitKeeps
  <2>3. Records'
    BY <1>1 DEF Tracking, Records, Valid, CommitStale, Leave, Finish
  <2>4. Carries'
    BY <1>1 DEF Carries, CommitStale, Leave, Finish
  <2>5. Unsent'
    BY <1>1 DEF Unsent, CommitStale, Leave, Finish
  <2>6. Overlaps'
    BY <1>1 DEF Tracking, Overlaps, CommitStale, CommitKeeps
  <2>7. ASSUME NEW d \in DueTimes PROVE Tracked(d)'
    BY <1>1 DEF Tracking, AllTracked, Tracked, InHand, Undisturbed, Recorded, Settled, Carries, CommitStale, CommitFresh, Current, Leave, Finish, CommitKeeps
  <2>8. ASSUME NEW row \in audit' PROVE ReportSettled(row)'
    BY <1>1 DEF Tracking, MissedSettled, ReportSettled, Settled, CommitStale, CommitKeeps
  <2> QED
    BY <2>1, <2>2, <2>3, <2>4, <2>5, <2>6, <2>7, <2>8 DEF Tracking, AllInTime, AllTracked, MissedSettled
<1>2. ASSUME CommitWritten PROVE Tracking'
  <2>1. ASSUME NEW d \in DueTimes PROVE InTime(d)'
    <3>1. pc' = "idle" /\ now' = now /\ sends' = sends /\ unrec' \in {unrec, NoRecord}
      BY <1>2 DEF CommitWritten, Forget, Leave, Finish, CommitKeeps
    <3>2. Known(d)' => Known(d) \/ (job = "missed" /\ d = run.occ)
      BY <1>2, <3>1 DEF Known, Missed, CommitWritten, Row, Kind
    <3>3. CASE Known(d)
      BY <3>1, <3>3 DEF Tracking, AllInTime, InTime, Valid, NoRecord
    <3>4. CASE job = "missed" /\ d = run.occ
      <4>1. d <= now /\ unrec = NoRecord
        BY <1>2, <3>4, Instants DEF Tracking, RunsInTime, Records, CommitWritten
      <4> QED
        BY <3>1, <4>1 DEF InTime, Valid, NoRecord
    <3> QED
      BY <3>1, <3>2, <3>3, <3>4 DEF InTime
  <2>2. RunsInTime'
    <3>1. NoState.pend.occ = 0 /\ NoRun.occ = 0 /\ NoSnap.disk.pend.occ = 0 /\ NoRecord.run.occ = 0
      BY DEF NoState, NoRun, NoSnap, NoRecord
    <3>2. /\ now' = now /\ pc' = "idle" /\ run' = NoRun /\ s0' = NoSnap /\ next' = NoState
          /\ disk' \in {disk, next} /\ unrec' \in {unrec, NoRecord}
      BY <1>2 DEF CommitWritten, WriteState, Forget, Leave, Finish, CommitKeeps
    <3> QED
      BY <3>1, <3>2, Instants DEF Tracking, RunsInTime
  <2>3. Records'
    BY <1>2 DEF Tracking, Records, Valid, NoRecord, CommitWritten, Forget, Leave, Finish
  <2>4. Carries'
    BY <1>2 DEF Carries, CommitWritten, Leave, Finish
  <2>5. Unsent'
    BY <1>2 DEF Unsent, CommitWritten, Leave, Finish
  <2>6. Overlaps'
    BY <1>2 DEF Tracking, Overlaps, CommitWritten, CommitKeeps
  <2>7. ASSUME NEW d \in DueTimes PROVE Tracked(d)'
    <3> SUFFICES ASSUME d \notin excused, sends[d] > 0 PROVE Settled(d)'
      BY <1>2 DEF Tracked, InHand, CommitWritten, Leave, Finish, CommitKeeps
    <3>1. next.pend.occ # d /\ d <= next.at
      BY <1>2, WriteSettles DEF Known, CommitWritten
    <3> QED
      BY <1>2, <3>1 DEF Settled, CommitWritten, WriteState
  <2>8. ASSUME NEW row \in audit' PROVE ReportSettled(row)'
    <3> SUFFICES ASSUME row.kind = "missed" PROVE row.occ \in DueTimes /\ (Settled(row.occ)' \/ row.occ \in excused)
      BY <1>2 DEF ReportSettled, CommitWritten, CommitKeeps
    <3>1. CASE row \in audit
      <4>1. row.occ \in DueTimes /\ Known(row.occ)
        BY <3>1 DEF Tracking, MissedSettled, ReportSettled, Known, Missed
      <4>2. row.occ \in excused \/ (next.pend.occ # row.occ /\ row.occ <= next.at)
        BY <1>2, <4>1, WriteSettles DEF CommitWritten
      <4> QED
        BY <1>2, <4>1, <4>2 DEF Settled, CommitWritten, WriteState
    <3>2. CASE row \notin audit
      <4>1. job = "missed" /\ row.occ = run.occ
        BY <1>2, <3>2 DEF CommitWritten, Row, Kind
      <4>2. run.occ \in DueTimes /\ next.pend = NoRun /\ run.occ <= next.at
        BY <1>2, <4>1 DEF Tracking, Carries, RunsInTime, CommitWritten
      <4>3. next.pend.occ # run.occ
        BY <4>2, Instants DEF NoRun
      <4> QED
        BY <1>2, <4>1, <4>2, <4>3 DEF Settled, CommitWritten, WriteState
    <3> QED
      BY <3>1, <3>2
  <2> QED
    BY <2>1, <2>2, <2>3, <2>4, <2>5, <2>6, <2>7, <2>8 DEF Tracking, AllInTime, AllTracked, MissedSettled
<1>3. ASSUME CommitFails PROVE Tracking'
  <2>1. ASSUME NEW d \in DueTimes PROVE InTime(d)'
    BY <1>3 DEF Tracking, AllInTime, InTime, Known, Missed, Valid, CommitFails, Remember, Leave, Finish, CommitKeeps
  <2>2. RunsInTime'
    BY <1>3 DEF Inv, Ordered, Tracking, RunsInTime, NoState, NoSnap, NoRun, CommitFails, Remember, Leave, Finish, CommitKeeps
  <2>3. Records'
    BY <1>3 DEF Tracking, Records, Carries, Valid, CommitFails, Remember, Leave, Finish
  <2>4. Carries'
    BY <1>3 DEF Carries, CommitFails, Leave, Finish
  <2>5. Unsent'
    BY <1>3 DEF Unsent, CommitFails, Leave, Finish
  <2>6. Overlaps'
    BY <1>3 DEF Tracking, Overlaps, CommitFails, Leave, Finish, CommitKeeps
  <2>7. ASSUME NEW d \in DueTimes PROVE Tracked(d)'
    <3> SUFFICES ASSUME d \notin excused, d \notin excused', sends[d] > 0, ~Settled(d)
                 PROVE  IF edit # "none" THEN d \in overlapped ELSE Recorded'
      BY <1>3 DEF Tracked, InHand, Settled, CommitFails, Leave, Finish, CommitKeeps
    <3>1. IF edit # "none" THEN d \in overlapped ELSE Undisturbed /\ (InHand(d) \/ Recorded)
      BY <1>3 DEF Tracking, AllTracked, Tracked, CommitFails
    <3>2. CASE edit = "none" /\ job = "delivered"
      <4>1. run # NoRun /\ Undisturbed
        BY <3>1, <3>2 DEF Inv, Numbers
      <4>2. /\ unrec'.gen = s0.gen /\ unrec'.cfg = s0.cfg /\ unrec'.run = run /\ unrec'.before = s0.disk
            /\ UNCHANGED <<gen, cfg, disk>>
        BY <1>3, <3>2 DEF CommitFails, Remember, CommitKeeps
      <4> QED
        BY <3>2, <4>1, <4>2 DEF Recorded, Valid, Undisturbed
    <3>3. CASE edit = "none" /\ job = "broken"
      <4>1. d # run.occ
        BY <1>3, <3>3, Instants DEF CommitFails
      <4>2. Recorded
        BY <3>1, <3>3, <4>1 DEF InHand
      <4> QED
        BY <1>3, <3>3, <4>2 DEF Recorded, Valid, CommitFails, Remember, CommitKeeps
    <3>4. CASE edit = "none" /\ job \notin {"delivered", "broken"}
      BY <1>3, <3>1, <3>4 DEF InHand, Recorded, Valid, CommitFails, Remember, CommitKeeps
    <3> QED
      BY <3>1, <3>2, <3>3, <3>4
  <2>8. ASSUME NEW row \in audit' PROVE ReportSettled(row)'
    BY <1>3 DEF Tracking, MissedSettled, ReportSettled, Settled, CommitFails, CommitKeeps
  <2> QED
    BY <2>1, <2>2, <2>3, <2>4, <2>5, <2>6, <2>7, <2>8 DEF Tracking, AllInTime, AllTracked, MissedSettled
<1>4. ASSUME CommitAuditFails PROVE Tracking'
  <2>1. ASSUME NEW d \in DueTimes PROVE InTime(d)'
    BY <1>4 DEF Tracking, AllInTime, InTime, Known, Missed, Valid, CommitAuditFails, Remember, Leave, Finish, CommitKeeps
  <2>2. RunsInTime'
    BY <1>4 DEF Inv, Ordered, Tracking, RunsInTime, NoState, NoSnap, NoRun, CommitAuditFails, WriteState, Remember, Leave, Finish, CommitKeeps
  <2>3. Records'
    BY <1>4 DEF Tracking, Records, Carries, Valid, CommitAuditFails, Remember, Leave, Finish
  <2>4. Carries'
    BY <1>4 DEF Carries, CommitAuditFails, Leave, Finish
  <2>5. Unsent'
    BY <1>4 DEF Unsent, CommitAuditFails, Leave, Finish
  <2>6. Overlaps'
    BY <1>4 DEF Tracking, Overlaps, CommitAuditFails, CommitKeeps
  <2>7. ASSUME NEW d \in DueTimes PROVE Tracked(d)'
    <3> SUFFICES ASSUME d \notin excused, sends[d] > 0 PROVE Settled(d)'
      BY <1>4 DEF Tracked, InHand, CommitAuditFails, Leave, Finish, CommitKeeps
    <3>1. next.pend.occ # d /\ d <= next.at
      BY <1>4, WriteSettles DEF Known, CommitAuditFails
    <3> QED
      BY <1>4, <3>1 DEF Settled, CommitAuditFails, WriteState
  <2>8. ASSUME NEW row \in audit' PROVE ReportSettled(row)'
    <3> SUFFICES ASSUME row.kind = "missed" PROVE row.occ \in DueTimes /\ (Settled(row.occ)' \/ row.occ \in excused)
      BY <1>4 DEF ReportSettled, CommitAuditFails, CommitKeeps
    <3>1. row.occ \in DueTimes /\ Known(row.occ)
      BY <1>4 DEF Tracking, MissedSettled, ReportSettled, Known, Missed, CommitAuditFails
    <3>2. row.occ \in excused \/ (next.pend.occ # row.occ /\ row.occ <= next.at)
      BY <1>4, <3>1, WriteSettles DEF CommitAuditFails
    <3> QED
      BY <1>4, <3>1, <3>2 DEF Settled, CommitAuditFails, WriteState
  <2> QED
    BY <2>1, <2>2, <2>3, <2>4, <2>5, <2>6, <2>7, <2>8 DEF Tracking, AllInTime, AllTracked, MissedSettled
<1> QED
  BY <1>1, <1>2, <1>3, <1>4

\* The edits keep the tracking.
LEMMA EditTracks ==
  ASSUME Inv, Inv', Tracking, Edit PROVE Tracking'
<1> USE DEF files, scanner, bounds, history
<1>1. ASSUME NEW by \in {"app", "cli"}, UpdateConfig(by) PROVE Tracking'
  <2>1. ASSUME NEW d \in DueTimes PROVE InTime(d)'
    BY <1>1 DEF Tracking, AllInTime, InTime, Known, Missed, Valid, UpdateConfig, EditKeeps
  <2>2. RunsInTime'
    BY <1>1 DEF Tracking, RunsInTime, UpdateConfig, EditKeeps
  <2>3. Records'
    BY <1>1 DEF Tracking, Records, Valid, UpdateConfig, EditKeeps
  <2>4. Carries'
    BY <1>1 DEF Tracking, Carries, UpdateConfig, EditKeeps
  <2>5. Unsent'
    BY <1>1 DEF Tracking, Unsent, Known, Missed, UpdateConfig, EditKeeps
  <2>6. Overlaps'
    BY <1>1 DEF Overlaps, Open, UpdateConfig, Open, EditKeeps
  <2>7. ASSUME NEW d \in DueTimes PROVE Tracked(d)'
    BY <1>1, Instants DEF Tracked, InHand, Settled, UpdateConfig, Open, EditKeeps
  <2>8. ASSUME NEW row \in audit' PROVE ReportSettled(row)'
    BY <1>1 DEF Tracking, MissedSettled, ReportSettled, Settled, UpdateConfig, EditKeeps
  <2> QED
    BY <2>1, <2>2, <2>3, <2>4, <2>5, <2>6, <2>7, <2>8 DEF Tracking, AllInTime, AllTracked, MissedSettled
<1>2. ASSUME NEW by \in {"app", "cli"}, CreateConfig(by) PROVE Tracking'
  <2>1. ASSUME NEW d \in DueTimes PROVE InTime(d)'
    BY <1>2 DEF Tracking, AllInTime, InTime, Known, Missed, Valid, CreateConfig, EditKeeps
  <2>2. RunsInTime'
    BY <1>2 DEF Tracking, RunsInTime, CreateConfig, EditKeeps
  <2>3. Records'
    BY <1>2 DEF Tracking, Records, Valid, CreateConfig, EditKeeps
  <2>4. Carries'
    BY <1>2 DEF Tracking, Carries, CreateConfig, EditKeeps
  <2>5. Unsent'
    BY <1>2 DEF Tracking, Unsent, Known, Missed, CreateConfig, EditKeeps
  <2>6. Overlaps'
    BY <1>2 DEF Overlaps, Open, CreateConfig, Open, EditKeeps
  <2>7. ASSUME NEW d \in DueTimes PROVE Tracked(d)'
    BY <1>2, Instants DEF Tracked, InHand, Settled, CreateConfig, Open, EditKeeps
  <2>8. ASSUME NEW row \in audit' PROVE ReportSettled(row)'
    BY <1>2 DEF Tracking, MissedSettled, ReportSettled, Settled, CreateConfig, EditKeeps
  <2> QED
    BY <2>1, <2>2, <2>3, <2>4, <2>5, <2>6, <2>7, <2>8 DEF Tracking, AllInTime, AllTracked, MissedSettled
<1>3. ASSUME NEW by \in {"app", "cli"}, Rename(by) PROVE Tracking'
  <2>1. ASSUME NEW d \in DueTimes PROVE InTime(d)'
    BY <1>3 DEF Tracking, AllInTime, InTime, Known, Missed, Valid, Rename, EditKeeps
  <2>2. RunsInTime'
    BY <1>3 DEF Tracking, RunsInTime, Rename, EditKeeps
  <2>3. Records'
    BY <1>3 DEF Tracking, Records, Valid, Rename, EditKeeps
  <2>4. Carries'
    BY <1>3 DEF Tracking, Carries, Rename, EditKeeps
  <2>5. Unsent'
    BY <1>3 DEF Tracking, Unsent, Known, Missed, Rename, EditKeeps
  <2>6. Overlaps'
    BY <1>3 DEF Tracking, Overlaps, Rename, Locked
  <2>7. ASSUME NEW d \in DueTimes PROVE Tracked(d)'
    BY <1>3, Instants DEF Tracking, AllTracked, Tracked, InHand, Undisturbed, Recorded, Valid, Settled, Rename, Bump, Open, EditKeeps
  <2>8. ASSUME NEW row \in audit' PROVE ReportSettled(row)'
    BY <1>3 DEF Tracking, MissedSettled, ReportSettled, Settled, Rename, EditKeeps
  <2> QED
    BY <2>1, <2>2, <2>3, <2>4, <2>5, <2>6, <2>7, <2>8 DEF Tracking, AllInTime, AllTracked, MissedSettled
<1>4. ASSUME NEW by \in {"app", "cli"}, Delete(by) PROVE Tracking'
  <2>1. ASSUME NEW d \in DueTimes PROVE InTime(d)'
    BY <1>4 DEF Tracking, AllInTime, InTime, Known, Missed, Valid, Delete, EditKeeps
  <2>2. RunsInTime'
    BY <1>4 DEF Inv, Ordered, Tracking, RunsInTime, NoState, NoRun, Delete, NoState, NoRun, EditKeeps
  <2>3. Records'
    BY <1>4 DEF Tracking, Records, Valid, Delete, EditKeeps
  <2>4. Carries'
    BY <1>4 DEF Tracking, Carries, Delete, EditKeeps
  <2>5. Unsent'
    BY <1>4 DEF Tracking, Unsent, Known, Missed, Delete, EditKeeps
  <2>6. Overlaps'
    BY <1>4 DEF Tracking, Overlaps, Delete, Locked
  <2>7. ASSUME NEW d \in DueTimes PROVE Tracked(d)'
    BY <1>4, Instants DEF Tracked, Settled, Delete, NoState, NoRun
  <2>8. ASSUME NEW row \in audit' PROVE ReportSettled(row)'
    BY <1>4, Instants DEF Tracking, MissedSettled, ReportSettled, Settled, Delete, NoState, NoRun, EditKeeps
  <2> QED
    BY <2>1, <2>2, <2>3, <2>4, <2>5, <2>6, <2>7, <2>8 DEF Tracking, AllInTime, AllTracked, MissedSettled
<1>5. ASSUME WriteBaseline PROVE Tracking'
  <2>1. ASSUME NEW d \in DueTimes PROVE InTime(d)'
    BY <1>5 DEF Tracking, AllInTime, InTime, Known, Missed, Valid, WriteBaseline, EditKeeps
  <2>2. RunsInTime'
    BY <1>5, Instants DEF Tracking, RunsInTime, NoRun, WriteBaseline, baseline_loop_state, NoRun, EditKeeps
  <2>3. Records'
    BY <1>5 DEF Tracking, Records, Valid, WriteBaseline, EditKeeps
  <2>4. Carries'
    BY <1>5 DEF Tracking, Carries, WriteBaseline, EditKeeps
  <2>5. Unsent'
    BY <1>5 DEF Tracking, Unsent, Known, Missed, WriteBaseline, EditKeeps
  <2>6. Overlaps'
    BY <1>5 DEF Overlaps, WriteBaseline, Unlock
  <2>7. ASSUME NEW d \in DueTimes PROVE Tracked(d)'
    <3> SUFFICES ASSUME d \notin excused, sends[d] > 0 \/ InHand(d) PROVE Settled(d)'
      BY <1>5 DEF Tracked, InHand, WriteBaseline, EditKeeps
    <3>1. d <= now
      BY DEF Tracking, AllInTime, InTime, Known, RunsInTime, InHand
    <3>2. disk'.at = now /\ disk'.pend.occ = 0
      BY <1>5 DEF WriteBaseline, baseline_loop_state, NoRun
    <3> QED
      BY <3>1, <3>2, Instants DEF Settled
  <2>8. ASSUME NEW row \in audit' PROVE ReportSettled(row)'
    BY <1>5, Instants DEF Tracking, MissedSettled, ReportSettled, Settled, AllInTime, InTime, Known, Missed, WriteBaseline, baseline_loop_state, NoRun, EditKeeps
  <2> QED
    BY <2>1, <2>2, <2>3, <2>4, <2>5, <2>6, <2>7, <2>8 DEF Tracking, AllInTime, AllTracked, MissedSettled
<1>6. ASSUME EditAbandoned PROVE Tracking'
  <2>1. ASSUME NEW d \in DueTimes PROVE InTime(d)'
    BY <1>6 DEF Tracking, AllInTime, InTime, Known, Missed, Valid, EditAbandoned, EditKeeps
  <2>2. RunsInTime'
    BY <1>6 DEF Tracking, RunsInTime, EditAbandoned, EditKeeps
  <2>3. Records'
    BY <1>6 DEF Tracking, Records, Valid, EditAbandoned, EditKeeps
  <2>4. Carries'
    BY <1>6 DEF Tracking, Carries, EditAbandoned, EditKeeps
  <2>5. Unsent'
    BY <1>6, Instants DEF Unsent, EditAbandoned, Open, EditKeeps
  <2>6. Overlaps'
    BY <1>6 DEF Overlaps, EditAbandoned, Unlock
  <2>7. ASSUME NEW d \in DueTimes PROVE Tracked(d)'
    BY <1>6, Instants DEF Tracked, InHand, Settled, EditAbandoned, Open, EditKeeps
  <2>8. ASSUME NEW row \in audit' PROVE ReportSettled(row)'
    BY <1>6 DEF Tracking, MissedSettled, ReportSettled, Settled, EditAbandoned, EditKeeps
  <2> QED
    BY <2>1, <2>2, <2>3, <2>4, <2>5, <2>6, <2>7, <2>8 DEF Tracking, AllInTime, AllTracked, MissedSettled
<1> QED
  BY <1>1, <1>2, <1>3, <1>4, <1>5, <1>6 DEF Edit

\* The clock, the orchestrator and the end of the process keep the tracking.
LEMMA OthersTrack ==
  ASSUME Inv, Inv', Tracking, Tick \/ BusyChanges \/ Crash \/ Restart \/ UNCHANGED vars PROVE Tracking'
<1> USE DEF files, scanner, bounds, history
<1>1. ASSUME Tick PROVE Tracking'
  <2>1. ASSUME NEW d \in DueTimes PROVE InTime(d)'
    BY <1>1, Instants DEF Tracking, AllInTime, InTime, Known, Missed, Valid, Tick
  <2>2. RunsInTime'
    BY <1>1, Instants DEF Tracking, RunsInTime, Tick
  <2>3. Records'
    BY <1>1 DEF Tracking, Records, Valid, Tick
  <2>4. Carries'
    BY <1>1 DEF Tracking, Carries, Tick
  <2>5. Unsent'
    BY <1>1 DEF Tracking, Unsent, Known, Missed, Tick
  <2>6. Overlaps'
    BY <1>1 DEF Tracking, Overlaps, Tick
  <2>7. ASSUME NEW d \in DueTimes PROVE Tracked(d)'
    BY <1>1 DEF Tracking, AllTracked, Tracked, InHand, Undisturbed, Recorded, Valid, Settled, Tick
  <2>8. ASSUME NEW row \in audit' PROVE ReportSettled(row)'
    BY <1>1 DEF Tracking, MissedSettled, ReportSettled, Settled, Tick
  <2> QED
    BY <2>1, <2>2, <2>3, <2>4, <2>5, <2>6, <2>7, <2>8 DEF Tracking, AllInTime, AllTracked, MissedSettled
<1>2. ASSUME BusyChanges PROVE Tracking'
  <2>1. ASSUME NEW d \in DueTimes PROVE InTime(d)'
    BY <1>2 DEF Tracking, AllInTime, InTime, Known, Missed, Valid, BusyChanges
  <2>2. RunsInTime'
    BY <1>2 DEF Tracking, RunsInTime, BusyChanges
  <2>3. Records'
    BY <1>2 DEF Tracking, Records, Valid, BusyChanges
  <2>4. Carries'
    BY <1>2 DEF Tracking, Carries, BusyChanges
  <2>5. Unsent'
    BY <1>2 DEF Tracking, Unsent, Known, Missed, BusyChanges
  <2>6. Overlaps'
    BY <1>2 DEF Tracking, Overlaps, BusyChanges
  <2>7. ASSUME NEW d \in DueTimes PROVE Tracked(d)'
    BY <1>2 DEF Tracking, AllTracked, Tracked, InHand, Undisturbed, Recorded, Valid, Settled, BusyChanges
  <2>8. ASSUME NEW row \in audit' PROVE ReportSettled(row)'
    BY <1>2 DEF Tracking, MissedSettled, ReportSettled, Settled, BusyChanges
  <2> QED
    BY <2>1, <2>2, <2>3, <2>4, <2>5, <2>6, <2>7, <2>8 DEF Tracking, AllInTime, AllTracked, MissedSettled
<1>3. ASSUME Crash PROVE Tracking'
  <2>1. ASSUME NEW d \in DueTimes PROVE InTime(d)'
    BY <1>3 DEF Tracking, AllInTime, InTime, Known, Missed, Valid, NoRecord, Crash, Finish
  <2>2. RunsInTime'
    <3>1. NoState.pend.occ = 0 /\ NoRun.occ = 0 /\ NoSnap.disk.pend.occ = 0 /\ NoRecord.run.occ = 0
      BY DEF NoState, NoRun, NoSnap, NoRecord
    <3>2. /\ now' = now /\ pc' = "idle" /\ run' = NoRun /\ s0' = NoSnap /\ next' = NoState
          /\ disk' \in {disk, next} /\ unrec' \in {unrec, NoRecord}
      BY <1>3 DEF Crash, Finish
    <3> QED
      BY <3>1, <3>2, Instants DEF Tracking, RunsInTime
  <2>3. Records'
    BY <1>3 DEF Records, Valid, NoRecord, Crash, Finish
  <2>4. Carries'
    BY <1>3 DEF Carries, Crash, Finish
  <2>5. Unsent'
    BY <1>3 DEF Unsent, Crash, Finish
  <2>6. Overlaps'
    BY <1>3 DEF Inv, Tracking, Overlaps, Generations, Crash, Finish
  <2>7. ASSUME NEW d \in DueTimes PROVE Tracked(d)'
    BY <1>3, Instants DEF Tracked, InHand, Settled, Crash, Finish, Open
  <2>8. ASSUME NEW row \in audit' PROVE ReportSettled(row)'
    BY <1>3 DEF Tracking, MissedSettled, ReportSettled, Settled, Crash
  <2> QED
    BY <2>1, <2>2, <2>3, <2>4, <2>5, <2>6, <2>7, <2>8 DEF Tracking, AllInTime, AllTracked, MissedSettled
<1>4. ASSUME Restart PROVE Tracking'
  <2>1. ASSUME NEW d \in DueTimes PROVE InTime(d)'
    BY <1>4 DEF Tracking, AllInTime, InTime, Known, Missed, Valid, Restart
  <2>2. RunsInTime'
    BY <1>4 DEF Tracking, RunsInTime, Restart
  <2>3. Records'
    BY <1>4 DEF Tracking, Records, Valid, Restart
  <2>4. Carries'
    BY <1>4 DEF Tracking, Carries, Restart
  <2>5. Unsent'
    BY <1>4 DEF Tracking, Unsent, Known, Missed, Restart
  <2>6. Overlaps'
    BY <1>4 DEF Tracking, Overlaps, Restart
  <2>7. ASSUME NEW d \in DueTimes PROVE Tracked(d)'
    BY <1>4 DEF Tracking, AllTracked, Tracked, InHand, Undisturbed, Recorded, Valid, Settled, Restart
  <2>8. ASSUME NEW row \in audit' PROVE ReportSettled(row)'
    BY <1>4 DEF Tracking, MissedSettled, ReportSettled, Settled, Restart
  <2> QED
    BY <2>1, <2>2, <2>3, <2>4, <2>5, <2>6, <2>7, <2>8 DEF Tracking, AllInTime, AllTracked, MissedSettled
<1>5. ASSUME UNCHANGED vars PROVE Tracking'
  <2>1. ASSUME NEW d \in DueTimes PROVE InTime(d)'
    BY <1>5 DEF Tracking, AllInTime, InTime, Known, Missed, Valid, vars
  <2>2. RunsInTime'
    BY <1>5 DEF Tracking, RunsInTime, vars
  <2>3. Records'
    BY <1>5 DEF Tracking, Records, Valid, vars
  <2>4. Carries'
    BY <1>5 DEF Tracking, Carries, vars
  <2>5. Unsent'
    BY <1>5 DEF Tracking, Unsent, Known, Missed, vars
  <2>6. Overlaps'
    BY <1>5 DEF Tracking, Overlaps, vars
  <2>7. ASSUME NEW d \in DueTimes PROVE Tracked(d)'
    BY <1>5 DEF Tracking, AllTracked, Tracked, InHand, Undisturbed, Recorded, Valid, Settled, vars
  <2>8. ASSUME NEW row \in audit' PROVE ReportSettled(row)'
    BY <1>5 DEF Tracking, MissedSettled, ReportSettled, Settled, vars
  <2> QED
    BY <2>1, <2>2, <2>3, <2>4, <2>5, <2>6, <2>7, <2>8 DEF Tracking, AllInTime, AllTracked, MissedSettled
<1> QED
  BY <1>1, <1>2, <1>3, <1>4, <1>5

\* The tracking holds at the start.
LEMMA TrackingInit == Init => Tracking
<1> SUFFICES ASSUME Init PROVE Tracking
  OBVIOUS
<1>1. AllInTime /\ AllTracked
  <2>1. ASSUME NEW d \in DueTimes PROVE ~Known(d) /\ ~InHand(d)
    BY <2>1, DueTimesType DEF Init, Known, Missed, InHand
  <2> QED
    BY <2>1 DEF AllInTime, InTime, AllTracked, Tracked, Known
<1>2. RunsInTime /\ Records /\ Carries
  BY DEF Init, RunsInTime, Records, Carries, Valid, NoRecord, NoRun, NoSnap, NoState
<1>3. Unsent /\ Overlaps /\ MissedSettled
  BY DEF Init, Unsent, Overlaps, MissedSettled
<1> QED
  BY <1>1, <1>2, <1>3 DEF Tracking

\* Every step keeps the tracking.
LEMMA TrackingStep == Inv /\ Inv' /\ Tracking /\ [Next]_vars => Tracking'
  BY ReadTracks, ScanTracks, CommitTracks, EditTracks, OthersTrack DEF Next, ScanStep

\* The tracking holds always.
THEOREM AlwaysTracking == Spec => []Tracking
<1>1. Init => Tracking
  BY TrackingInit
<1>2. Inv /\ Inv' /\ Tracking /\ [Next]_vars => Tracking'
  BY TrackingStep
<1> QED
  BY <1>1, <1>2, AlwaysInv, PTL DEF Spec

-----------------------------------------------------------------------------
(* What it is for.                                                         *)

\* Only an injection sends, only a commit that succeeds reports a run as missed, and no excuse is taken back.
LEMMA OnlySteps ==
  ASSUME [Next]_vars
  PROVE  /\ excused \subseteq excused'
         /\ sends' = sends \/ Inject
         /\ \A row \in audit' : row.kind = "missed" =>
              row \in audit \/ (CommitWritten /\ job = "missed" /\ row.occ = run.occ)
<1> USE DEF files, scanner, bounds, history
<1>1. CASE UNCHANGED vars
  BY <1>1 DEF vars
<1>2. CASE \E kind \in {"startup", "tick", "idle"} : ScanRead(kind)
  BY <1>2 DEF ScanRead, ScanKeeps
<1>3. CASE RunNow \/ Check \/ DeliverBusy \/ DeliverDropped \/ InjectCheck \/ Inject \/ Apply
  BY <1>3 DEF RunNow, Check, DeliverBusy, DeliverDropped, InjectCheck, Inject, Apply, ScanKeeps
<1>4. CASE CommitStale \/ CommitFails \/ CommitAuditFails
  BY <1>4 DEF CommitStale, CommitFails, CommitAuditFails, CommitKeeps
<1>5. CASE CommitWritten
  BY <1>5 DEF CommitWritten, CommitKeeps, Row, Kind
<1>6. CASE Edit
  BY <1>6 DEF Edit, UpdateConfig, CreateConfig, Rename, Delete, WriteBaseline, EditAbandoned, EditKeeps
<1>7. CASE Tick \/ BusyChanges \/ Crash \/ Restart
  BY <1>7 DEF Tick, BusyChanges, Crash, Restart
<1> QED
  BY <1>1, <1>2, <1>3, <1>4, <1>5, <1>6, <1>7 DEF Next, ScanStep

\* What an injection sends had not been sent and not been reported as missed.
LEMMA InjectIsFirst ==
  ASSUME Tracking, Inject, run.occ \in DueTimes, run.occ \notin excused
  PROVE  ~Known(run.occ)
  BY DEF Tracking, Unsent, Carries, Inject

\* An occurrence is typed once, whatever write failed: edits that leave the schedule, the end of the process, and a broken delivery that could not be written apart.
THEOREM DeliveredOnce == Spec => []SentOnce
<1>1. Init => SentOnce
  BY DEF Init, SentOnce
<1>2. Inv /\ Tracking /\ SentOnce /\ [Next]_vars => SentOnce'
  <2> SUFFICES ASSUME Inv, Tracking, SentOnce, [Next]_vars, NEW d \in DueTimes, sends'[d] > 1
               PROVE  d \in excused'
    BY DEF SentOnce
  <2>1. CASE sends' = sends
    BY <2>1, OnlySteps DEF SentOnce
  <2>2. CASE Inject
    <3>1. sends[d] > 1 \/ (d = run.occ /\ sends[d] > 0)
      BY <2>2, Instants DEF Inject
    <3>2. d \in excused
      BY <2>2, <3>1, InjectIsFirst DEF SentOnce, Known
    <3> QED
      BY <3>2, OnlySteps
  <2> QED
    BY <2>1, <2>2, OnlySteps
<1> QED
  BY <1>1, <1>2, AlwaysInv, AlwaysTracking, PTL DEF Spec

\* A run that the audit reports as missed was not delivered and will not be, the same apart.
THEOREM MissedWasNotSent == Spec => []MissedNotSent
<1>1. Init => MissedNotSent
  BY DEF Init, MissedNotSent
<1>2. Inv /\ Tracking /\ Tracking' /\ MissedNotSent /\ [Next]_vars => MissedNotSent'
  <2> SUFFICES ASSUME Inv, Tracking, Tracking', MissedNotSent, [Next]_vars,
                      NEW row \in audit', row.kind = "missed", sends'[row.occ] > 0
               PROVE  row.occ \in excused'
    BY DEF MissedNotSent
  <2>0. row.occ \in DueTimes
    BY DEF Tracking, MissedSettled, ReportSettled
  <2>1. CASE row \in audit /\ sends' = sends
    BY <2>1, OnlySteps DEF MissedNotSent
  <2>2. CASE row \in audit /\ Inject
    <3>1. Known(row.occ)
      BY <2>2 DEF Known, Missed
    <3>2. row.occ # run.occ => sends'[row.occ] = sends[row.occ]
      BY <2>0, <2>2 DEF Inject
    <3>3. row.occ \in excused
      BY <2>0, <2>2, <3>1, <3>2, InjectIsFirst DEF MissedNotSent
    <3> QED
      BY <3>3, OnlySteps
  <2>3. CASE CommitWritten /\ job = "missed" /\ row.occ = run.occ
    <3>1. Known(run.occ) /\ pc # "idle"
      BY <2>3 DEF Known, CommitWritten, CommitKeeps
    <3>2. run.occ \in excused
      BY <2>0, <2>3, <3>1 DEF Tracking, Unsent
    <3> QED
      BY <2>3, <3>2, OnlySteps
  <2> QED
    BY <2>1, <2>2, <2>3, OnlySteps
<1> QED
  BY <1>1, <1>2, AlwaysInv, AlwaysTracking, PTL DEF Spec

-----------------------------------------------------------------------------
(* Where the documentation's "delivers once" holds as it stands.           *)

\* A delivery that broke after its prompt was typed, and whose state is not written.
BrokenIsLost == job = "broken" /\ CommitFails

\* The process ends, an edit ends without its state, the app makes an edit that
\* leaves the schedule where it was, or a broken delivery is lost.
Interrupts == Crash \/ EditAbandoned \/ Rename("app") \/ BrokenIsLost

\* None of these comes while an occurrence is open.
Considerate == Interrupts => Open = {} /\ overlapped = {}
Uninterrupted == [][Considerate]_vars

\* Nothing else is an excuse.
LEMMA OnlyExcuses ==
  ASSUME [Next]_vars
  PROVE  excused' = excused \/ (Interrupts /\ excused' \subseteq excused \union Open \union overlapped)
<1> USE DEF files, scanner, bounds, history
<1>1. CASE UNCHANGED vars
  BY <1>1 DEF vars
<1>2. CASE \E kind \in {"startup", "tick", "idle"} : ScanRead(kind)
  BY <1>2 DEF ScanRead
<1>3. CASE RunNow \/ Check \/ DeliverBusy \/ DeliverDropped \/ InjectCheck \/ Inject \/ Apply
  BY <1>3 DEF RunNow, Check, DeliverBusy, DeliverDropped, InjectCheck, Inject, Apply
<1>4. CASE CommitStale \/ CommitWritten \/ CommitAuditFails
  BY <1>4 DEF CommitStale, CommitWritten, CommitAuditFails
<1>5. CASE Edit
  BY <1>5 DEF Edit, UpdateConfig, CreateConfig, Rename, Delete, WriteBaseline, EditAbandoned,
              Interrupts
<1>6. CASE Tick \/ BusyChanges \/ Crash \/ Restart
  BY <1>6 DEF Tick, BusyChanges, Crash, Restart, Interrupts
<1>7. CASE CommitFails
  <2>1. excused' = IF job = "broken" THEN excused \union ({run.occ} \ {0}) ELSE excused
    BY <1>7 DEF CommitFails
  <2>2. CASE job = "broken"
    BY <1>7, <2>1, <2>2 DEF Interrupts, BrokenIsLost, Open
  <2> QED
    BY <2>1, <2>2
<1> QED
  BY <1>1, <1>2, <1>3, <1>4, <1>5, <1>6, <1>7 DEF Next, ScanStep

\* An occurrence is typed at most once in a history in which the process never
\* ends, no edit fails between its two writes and the app makes no edit without
\* effect on the schedule while an occurrence is open, and no delivery that broke
\* after the typing meets a state that cannot be written; every other write of the
\* scan may fail and every other edit, of the app and of the CLI, may come at any
\* time (record_unrecorded_delivery, replayable_delivery, bump_loop_generation).
THEOREM OnceUnlessInterrupted == Spec /\ Uninterrupted => []DeliversOnce
<1>1. Init => excused = {}
  BY DEF Init
<1>2. excused = {} /\ [Next]_vars /\ [Considerate]_vars => (excused = {})'
  BY OnlyExcuses DEF Considerate, vars, history
<1>3. Inv /\ SentOnce /\ excused = {} => DeliversOnce
  BY Instants DEF SentOnce, DeliversOnce
<1> QED
  BY <1>1, <1>2, <1>3, AlwaysInv, DeliveredOnce, PTL DEF Spec, Uninterrupted

=============================================================================
