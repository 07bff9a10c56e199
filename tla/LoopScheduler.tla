--------------------------- MODULE LoopScheduler ---------------------------
(***************************************************************************)
(* One Project Loop of src-tauri/src/loops: the scan that finds a due run, *)
(* delivers its prompt with no file lock held and commits the outcome to   *)
(* the Loop's state file, against the edits of the app's own commands and  *)
(* of the CLI, failed writes, and the end of the process.                  *)
(*                                                                         *)
(* scan_lock is the scanner itself: one scan or manual run at a time, from *)
(* pc "idle" back to "idle".  io is io_lock (this process only), side the  *)
(* Loop's sidecar file lock (every process).  A state file is its last     *)
(* check, its pending run and ver, which stands for the rest of its bytes: *)
(* two writes never leave equal bytes, except the replay of a record.      *)
(*                                                                         *)
(* Times are 1..MaxTime; DueTimes are the occurrences of the Cron          *)
(* expression.  Bounds, all in guards: MaxTime (clock), MaxRuns (run ids), *)
(* MaxEdits, MaxFails (writes and locks that fail), MaxCrashes.            *)
(***************************************************************************)
EXTENDS Naturals, FiniteSets

CONSTANTS MaxTime, DueTimes, MaxRuns, MaxEdits, MaxFails, MaxCrashes,
          Policy        \* policy.busy_coordinator: "wait", "skip" or "force"

ASSUME BoundsAssumption ==
    /\ MaxTime \in Nat \ {0} /\ MaxRuns \in Nat /\ MaxEdits \in Nat
    /\ MaxFails \in Nat /\ MaxCrashes \in Nat
ASSUME DueAssumption == DueTimes \subseteq 2..MaxTime
ASSUME PolicyAssumption == Policy \in {"wait", "skip", "force"}

VARIABLES
    now,          \* Utc::now()
    cfg,          \* config.toml: [on, text]
    disk,         \* the state file: [ver, at, pend]
    audit,        \* the audit file's rows of kind delivered and missed: [n, occ, kind]
    gen,          \* loop_generations of this Loop
    unrec,        \* unrecorded_deliveries of this Loop
    io, side,     \* holders of io_lock and of the sidecar lock
    edit,         \* the edit between its two writes: its writer
    up, started,  \* the process runs; its startup scan has read the Loop
    busy,         \* the orchestrator is busy (waiting_for_input is false)
    pc, s0, job, run, next,   \* the scan: step, S0 snapshot, outcome, run, state to write
    runs, edits, fails, crashes,         \* bounds
    sends, committed, excused, overlapped            \* history, see "History"

files    == <<cfg, disk, audit>>
scanner  == <<pc, s0, job, run, next>>
history  == <<sends, committed, excused, overlapped>>
bounds   == <<runs, edits, fails, crashes>>
vars == <<now, files, gen, unrec, io, side, edit, up, started, busy, scanner,
          bounds, history>>

-----------------------------------------------------------------------------
(* Data *)

NoRun   == [n |-> 0, occ |-> 0, due |-> 0]
NoState == [ver |-> 0, at |-> 0, pend |-> NoRun]     \* LoopState::default()
NoCfg   == [on |-> "gone", text |-> "a"]
NoSnap  == [cfg |-> NoCfg, disk |-> NoState, gen |-> 0]
NoRecord == [gen |-> 0, cfg |-> NoCfg, run |-> NoRun,
             before |-> NoState, after |-> NoState]

Run   == [n : 0..MaxRuns, occ : 0..MaxTime, due : 0..MaxTime]
State == [ver : 0..6, at : 0..MaxTime, pend : Run]
Config == [on : {"yes", "no", "gone"}, text : {"a", "b"}]
Jobs  == {"none", "baseline", "missed", "coalesced", "pending", "dropped",
          "delivered", "broken", "replay"}

(* Bytes no live copy of the state file has. *)
FreshVer == CHOOSE v \in 1..6 :
    v \notin {disk.ver, s0.disk.ver, next.ver, unrec.before.ver, unrec.after.ver}

(* latest_due_between: the latest occurrence in (after, upto], or 0. *)
latest_due_between(after, upto) ==
    LET hits == {d \in DueTimes : after < d /\ d <= upto}
    IN  IF hits = {} THEN 0 ELSE CHOOSE d \in hits : \A e \in hits : e <= d

baseline_loop_state == [ver |-> FreshVer, at |-> now, pend |-> NoRun]

(* revalidate_loop_current: the config file is the one the scan read. *)
Current(c) == cfg = c /\ cfg.on = "yes"

Init ==
    /\ now = 1
    /\ cfg = [on |-> "yes", text |-> "a"]
    /\ disk = [ver |-> 1, at |-> 1, pend |-> NoRun]
    /\ audit = {} /\ gen = 0 /\ unrec = NoRecord
    /\ io = "free" /\ side = "free" /\ edit = "none"
    /\ up = "yes" /\ started = "no" /\ busy = "no"
    /\ pc = "idle" /\ s0 = NoSnap /\ job = "none" /\ run = NoRun /\ next = NoState
    /\ runs = 0 /\ edits = 0 /\ fails = 0 /\ crashes = 0
    /\ sends = [d \in DueTimes |-> 0] /\ committed = {} /\ excused = {}
    /\ overlapped = {}

-----------------------------------------------------------------------------
(* History: sends counts the prompts typed for an occurrence, submitted or *)
(* not, committed holds the runs whose delivered state was written, and    *)
(* excused the occurrences that were open when the process ended or an     *)
(* edit left the schedule where it was, and those whose broken delivery    *)
(* could not be written; overlapped are those open when the edit began.    *)

(* The state file is past d, or starts again. *)
Settled(d) == disk.pend.occ # d /\ (disk.at >= d \/ disk.at = 0)

(* The occurrence of the run under way, and those sent and not settled.    *)
Open == ({run.occ} \union {d \in DueTimes : sends[d] > 0 /\ ~Settled(d)}) \ {0}

-----------------------------------------------------------------------------
(* The scan *)

Finish ==
    /\ pc' = "idle" /\ s0' = NoSnap /\ job' = "none" /\ run' = NoRun
    /\ next' = NoState

ScanKeeps == UNCHANGED <<now, files, gen, edit, up, busy, edits, crashes>>

Replayable ==
    /\ cfg.on = "yes" /\ unrec.run # NoRun
    /\ unrec.gen = gen /\ disk \in {unrec.before, unrec.after}
    /\ unrec.cfg = cfg

Begin(step, what, r, n) ==
    /\ pc' = step /\ job' = what /\ run' = r /\ next' = n
    /\ s0' = [cfg |-> cfg, disk |-> disk, gen |-> gen]

(* scan_snapshot, replayable_delivery, finish_scan_entry and the choice of *)
(* the run: everything up to the first unlocked check.                     *)
ScanRead(kind) ==
    /\ up = "yes" /\ pc = "idle" /\ io = "free" /\ side = "free"
    /\ kind = "tick" => started = "yes"
    /\ started' = IF kind = "startup" THEN "yes" ELSE started
    /\ unrec' = IF cfg.on # "gone" /\ ~Replayable THEN NoRecord ELSE unrec
    /\ LET due == latest_due_between(disk.at, now) IN
       \/ /\ Replayable
          /\ Begin("apply", "replay", unrec.run, NoState)
          /\ UNCHANGED runs
       \/ /\ ~Replayable
          /\ cfg.on # "yes"
          /\ UNCHANGED <<scanner, runs>>
       \/ /\ ~Replayable /\ cfg.on = "yes" /\ disk.at = 0
          /\ Begin("apply", "baseline", NoRun, NoState)
          /\ UNCHANGED runs
       \/ /\ ~Replayable /\ cfg.on = "yes" /\ disk.at # 0
          /\ disk.pend # NoRun
          /\ Begin("check", "none", disk.pend, NoState)
          /\ UNCHANGED runs
       \/ /\ ~Replayable /\ cfg.on = "yes" /\ disk.at # 0
          /\ disk.pend = NoRun /\ kind # "idle" /\ due # 0 /\ runs < MaxRuns
          /\ Begin("check", IF kind = "startup" THEN "missed" ELSE "none",
                   [n |-> runs + 1, occ |-> due, due |-> due], NoState)
          /\ runs' = runs + 1
       \/ /\ ~Replayable /\ cfg.on = "yes" /\ disk.at # 0
          /\ disk.pend = NoRun /\ (kind = "idle" \/ due = 0)
          /\ UNCHANGED <<scanner, runs>>
    /\ UNCHANGED <<io, side, fails, history>> /\ ScanKeeps

(* run_loop_now: a run of its own, whatever is pending or unrecorded. *)
RunNow ==
    /\ up = "yes" /\ pc = "idle" /\ io = "free" /\ side = "free"
    /\ cfg.on = "yes" /\ runs < MaxRuns
    /\ Begin("check", "none", [n |-> runs + 1, occ |-> 0, due |-> now], NoState)
    /\ runs' = runs + 1
    /\ UNCHANGED <<started, unrec, io, side, fails, history>> /\ ScanKeeps

(* loop_is_current_for_delivery, with no lock held. *)
Check ==
    /\ pc = "check"
    /\ IF Current(s0.cfg)
       THEN /\ pc' = IF job = "missed" THEN "apply" ELSE "deliver"
            /\ UNCHANGED <<s0, job, run, next>>
       ELSE Finish
    /\ UNCHANGED <<started, unrec, io, side, runs, fails, history>> /\ ScanKeeps

Report(kind) == pc' = "apply" /\ job' = kind /\ UNCHANGED <<s0, run, next>>

(* deliver_loop_prompt: the orchestrator is busy and the policy waits. A   *)
(* run that was already pending goes to maybe_coalesce_pending.            *)
DeliverBusy ==
    /\ pc = "deliver" /\ busy = "yes" /\ Policy = "wait"
    /\ Report(IF run = s0.disk.pend THEN "coalesced" ELSE "pending")
    /\ UNCHANGED <<started, unrec, io, side, runs, fails, history>> /\ ScanKeeps

(* Every report that drops the run: skipped, failed, target unresolved. *)
DeliverDropped ==
    /\ pc = "deliver"
    /\ Report("dropped")
    /\ UNCHANGED <<started, unrec, io, side, runs, fails, history>> /\ ScanKeeps

(* stale_delivery_error_if_needed, the check just before the first write. *)
InjectCheck ==
    /\ pc = "deliver" /\ (busy = "no" \/ Policy = "force")
    /\ IF Current(s0.cfg)
       THEN pc' = "inject" /\ UNCHANGED <<s0, job, run, next>>
       ELSE Report("dropped")
    /\ UNCHANGED <<started, unrec, io, side, runs, fails, history>> /\ ScanKeeps

(* inject_text_into_session types the prompt and then submits it: an error *)
(* after the text is typed is reported as a failed delivery, "broken".     *)
Inject ==
    /\ pc = "inject"
    /\ Report("delivered") \/ Report("broken")
    /\ sends' = [d \in DueTimes |-> IF d = run.occ THEN sends[d] + 1 ELSE sends[d]]
    /\ UNCHANGED <<started, unrec, io, side, runs, fails, committed, excused,
                   overlapped>>
    /\ ScanKeeps

(* A run that leaves the last check; a dropped run that stays pending. *)
NextStateUnchecked ==
    IF job = "replay" THEN unrec.after
    ELSE [ver |-> FreshVer,
          at |-> IF job \in {"delivered", "missed"} THEN s0.disk.at ELSE now,
          pend |-> IF job = "pending" THEN run ELSE NoRun]
NextStateStillPending ==
    IF job = "replay" THEN unrec.after
    ELSE [ver |-> FreshVer, at |-> now,
          pend |-> IF job = "pending" THEN run
                   ELSE IF job = "delivered" THEN NoRun ELSE s0.disk.pend]

(* The state a report leaves: apply_delivery_report, maybe_coalesce_pending, *)
(* record_missed_while_closed, commit_scan_baseline, or the record replayed. *)
NextState ==
    IF job = "replay" THEN unrec.after
    ELSE [ver  |-> FreshVer, at |-> now,
          pend |-> IF job = "pending" THEN run
                   ELSE IF job \in {"coalesced", "missed"} THEN s0.disk.pend
                   ELSE NoRun]

(* The sections entered under io_lock: the config is read again, except by *)
(* a replay, which checks it under the sidecar lock.                       *)
Apply ==
    /\ pc = "apply" /\ io = "free"
    /\ IF /\ job = "replay" \/ Current(s0.cfg)
          /\ job = "coalesced" => latest_due_between(run.due, now) # 0
       THEN /\ pc' = "commit" /\ io' = "scan" /\ next' = NextState
            /\ UNCHANGED <<s0, job, run>>
       ELSE Finish /\ UNCHANGED io
    /\ UNCHANGED <<started, unrec, side, runs, fails, history>> /\ ScanKeeps

(* The generation alone, which no edit of the CLI changes. *)
CommitFreshByGeneration == gen = s0.gen /\ cfg.on # "gone"

(* scan_write_is_fresh, the delivery config of a replay, guarded_state_write. *)
CommitFresh ==
    /\ gen = s0.gen /\ disk = s0.disk /\ cfg.on # "gone"
    /\ job = "replay" => Current(unrec.cfg)

Kind == IF job = "replay" THEN "delivered" ELSE job
Row == [n |-> run.n, occ |-> run.occ, kind |-> Kind]

(* A failed write is forgotten. *)
RememberNothing == UNCHANGED unrec

(* record_unrecorded_delivery: only a delivered run is remembered. *)
Remember ==
    unrec' = IF job = "delivered"
             THEN [gen |-> s0.gen, cfg |-> s0.cfg, run |-> run,
                   before |-> s0.disk, after |-> next]
             ELSE unrec

(* take_unrecorded_delivery follows a replay or a report, not a baseline, *)
(* a missed run or a coalesced one.                                       *)
Forget ==
    unrec' = IF job \in {"baseline", "missed", "coalesced"} THEN unrec
             ELSE NoRecord

WriteState ==
    /\ disk' = next
    /\ committed' = IF Kind = "delivered" THEN committed \union {run.n}
                    ELSE committed

Leave == Finish /\ io' = "free"
CommitKeeps == UNCHANGED <<now, cfg, gen, side, edit, up, started, busy, runs, edits,
                           crashes, sends, overlapped>>

CommitStale ==
    /\ pc = "commit" /\ side = "free" /\ ~CommitFresh
    /\ Leave
    /\ UNCHANGED <<disk, audit, unrec, committed, excused, fails>> /\ CommitKeeps

CommitWritten ==
    /\ pc = "commit" /\ side = "free" /\ CommitFresh
    /\ WriteState /\ Forget /\ Leave
    /\ audit' = IF Kind \in {"delivered", "missed"} THEN audit \union {Row} ELSE audit
    /\ UNCHANGED <<excused, fails>> /\ CommitKeeps

(* The audit row goes first. *)
CommitFailsAfterRow ==
    /\ pc = "commit" /\ (side # "free" \/ CommitFresh) /\ fails < MaxFails
    /\ fails' = fails + 1
    /\ audit' = IF Kind = "delivered" THEN audit \union {Row} ELSE audit
    /\ Remember /\ Leave
    /\ UNCHANGED <<disk, committed, excused>> /\ CommitKeeps

(* The lock times out, or the state write fails: nothing was written, and  *)
(* of a broken delivery nothing is remembered.                             *)
CommitFails ==
    /\ pc = "commit" /\ (side # "free" \/ CommitFresh) /\ fails < MaxFails
    /\ fails' = fails + 1
    /\ Remember /\ Leave
    /\ excused' = IF job = "broken" THEN excused \union ({run.occ} \ {0}) ELSE excused
    /\ UNCHANGED <<disk, audit, committed>> /\ CommitKeeps

(* The state was written and the audit row was not. *)
CommitAuditFails ==
    /\ pc = "commit" /\ side = "free" /\ CommitFresh /\ job # "baseline"
    /\ fails < MaxFails
    /\ fails' = fails + 1
    /\ WriteState /\ Remember /\ Leave
    /\ UNCHANGED <<audit, excused>> /\ CommitKeeps

-----------------------------------------------------------------------------
(* Edits: the app's commands (io_lock, then the sidecar lock, then the     *)
(* generation) and the CLI's (the sidecar lock only).                      *)

EditKeeps == UNCHANGED <<now, up, started, busy, scanner, unrec, audit, runs,
                         crashes, sends, committed>>

Locked(by) ==
    /\ by = "app" => up = "yes" /\ io = "free"
    /\ side = "free" /\ edits < MaxEdits
    /\ edits' = edits + 1

(* Once when the files are locked and once when they are written. *)
BumpTwice(by) == gen' = IF by = "app" THEN gen + 2 ELSE gen

(* bump_loop_generation *)
Bump(by) == gen' = IF by = "app" THEN gen + 1 ELSE gen

(* update_loop_files with a change that resets the schedule: config first. *)
UpdateConfig(by) ==
    /\ Locked(by) /\ cfg.on # "gone"
    /\ cfg' \in [on : {"yes", "no"}, text : {"a", "b"}] \ {cfg}
    /\ side' = by /\ io' = IF by = "app" THEN "edit" ELSE io
    /\ edit' = by
    /\ overlapped' = Open
    /\ UNCHANGED <<disk, gen, fails, excused>> /\ EditKeeps

(* create_loop_files: a config where there was none, then the baseline. *)
CreateConfig(by) ==
    /\ Locked(by) /\ cfg.on = "gone"
    /\ cfg' \in [on : {"yes", "no"}, text : {"a"}]
    /\ side' = by /\ io' = IF by = "app" THEN "edit" ELSE io
    /\ edit' = by
    /\ overlapped' = Open
    /\ UNCHANGED <<disk, gen, fails, excused>> /\ EditKeeps

Unlock ==
    /\ side' = "free" /\ io' = IF edit = "app" THEN "free" ELSE io
    /\ edit' = "none" /\ overlapped' = {}

(* ... then the state, back to a baseline at this instant. *)
WriteBaseline ==
    /\ edit # "none"
    /\ disk' = baseline_loop_state
    /\ Unlock /\ Bump(edit)
    /\ UNCHANGED <<cfg, edits, fails, excused>> /\ EditKeeps

(* The state write fails, or the CLI ends: an error, and no generation. *)
EditAbandoned ==
    /\ edit # "none" /\ fails < MaxFails
    /\ fails' = fails + 1
    /\ Unlock
    /\ excused' = excused \union Open \union overlapped
    /\ UNCHANGED <<cfg, disk, gen, edits>> /\ EditKeeps

(* update_loop_files with no change a schedule depends on (a new name, a   *)
(* toggle to the same value): the state file stays as it is.               *)
Rename(by) ==
    /\ Locked(by) /\ cfg.on # "gone"
    /\ Bump(by)
    /\ excused' = IF by = "app" THEN excused \union Open ELSE excused
    /\ UNCHANGED <<cfg, disk, io, side, edit, fails, overlapped>> /\ EditKeeps

(* remove_loop_files *)
Delete(by) ==
    /\ Locked(by) /\ cfg.on # "gone"
    /\ cfg' = NoCfg /\ disk' = NoState
    /\ Bump(by)
    /\ UNCHANGED <<io, side, edit, fails, excused, overlapped>> /\ EditKeeps

-----------------------------------------------------------------------------
(* The orchestrator, the clock and the process *)

Tick ==
    /\ now < MaxTime /\ now' = now + 1
    /\ UNCHANGED <<files, gen, unrec, io, side, edit, up, started, busy, scanner,
                   bounds, history>>

BusyChanges ==
    /\ pc = "deliver"
    /\ busy' = IF busy = "yes" THEN "no" ELSE "yes"
    /\ UNCHANGED <<now, files, gen, unrec, io, side, edit, up, started, scanner,
                   bounds, history>>

(* The process ends: its memory and its locks go, the files stay. *)
Crash ==
    /\ up = "yes" /\ crashes < MaxCrashes
    /\ crashes' = crashes + 1 /\ up' = "no" /\ started' = "no"
    /\ excused' = excused \union Open \union overlapped
    /\ Finish /\ unrec' = NoRecord /\ gen' = 0 /\ io' = "free"
    /\ side' = IF side = "app" THEN "free" ELSE side
    /\ edit' = IF edit = "app" THEN "none" ELSE edit
    /\ overlapped' = IF edit = "app" THEN {} ELSE overlapped
    /\ UNCHANGED <<now, files, busy, runs, edits, fails, sends, committed>>

Restart ==
    /\ up = "no" /\ up' = "yes"
    /\ UNCHANGED <<now, files, gen, unrec, io, side, edit, started, busy, scanner,
                   bounds, history>>

ScanStep ==
    \/ Check \/ DeliverBusy \/ DeliverDropped \/ InjectCheck \/ Inject
    \/ Apply \/ CommitStale \/ CommitWritten \/ CommitFails \/ CommitAuditFails

Edit ==
    \/ \E by \in {"app", "cli"} :
         UpdateConfig(by) \/ CreateConfig(by) \/ Rename(by) \/ Delete(by)
    \/ WriteBaseline \/ EditAbandoned

Next ==
    \/ \E kind \in {"startup", "tick", "idle"} :
         /\ kind = "startup" => started = "no"
         /\ ScanRead(kind)
    \/ RunNow
    \/ ScanStep \/ Edit
    \/ Tick \/ BusyChanges \/ Crash \/ Restart

Spec == Init /\ [][Next]_vars

(* The process is started again, its startup scan runs, then its 30 s      *)
(* interval; a scan once begun takes its steps; an edit ends.              *)
FairSpec ==
    /\ Spec
    /\ WF_vars(Restart)
    /\ WF_vars(started = "no" /\ ScanRead("startup"))
    /\ WF_vars(ScanRead("tick"))
    /\ WF_vars(ScanStep)
    /\ WF_vars(WriteBaseline \/ EditAbandoned)

-----------------------------------------------------------------------------
(* Properties *)

(* Every variable keeps its type. *)
TypeOK ==
    /\ now \in 1..MaxTime
    /\ cfg \in Config /\ disk \in State
    /\ audit \subseteq [n : 0..MaxRuns, occ : 0..MaxTime, kind : Jobs]
    /\ gen \in 0..MaxEdits
    /\ unrec \in [gen : 0..MaxEdits, cfg : Config, run : Run, before : State,
                  after : State]
    /\ io \in {"free", "scan", "edit"} /\ side \in {"free", "app", "cli"}
    /\ edit \in {"none", "app", "cli"}
    /\ up \in {"yes", "no"} /\ started \in {"yes", "no"} /\ busy \in {"yes", "no"}
    /\ pc \in {"idle", "check", "deliver", "inject", "apply", "commit"}
    /\ s0 \in [cfg : Config, disk : State, gen : 0..MaxEdits]
    /\ job \in Jobs /\ run \in Run /\ next \in State
    /\ runs \in 0..MaxRuns /\ edits \in 0..MaxEdits
    /\ fails \in 0..MaxFails /\ crashes \in 0..MaxCrashes
    /\ sends \in [DueTimes -> Nat] /\ committed \subseteq 1..MaxRuns
    /\ excused \subseteq 0..MaxTime /\ overlapped \subseteq 0..MaxTime

(* An occurrence is typed once, whatever failed: only the end of the       *)
(* process, an edit that ends and leaves the schedule where it was, while  *)
(* the run is open, or a state that cannot be written after a delivery     *)
(* that broke, can make it go out again (record.rs keeps what could not be *)
(* written, scan_write_is_fresh and replayable_delivery).                  *)
SentOnce == \A d \in DueTimes : sends[d] > 1 => d \in excused

(* A run the audit reports as missed was not delivered.                    *)
MissedNotSent ==
    \A row \in audit : row.kind = "missed" /\ sends[row.occ] > 0 => row.occ \in excused

(* No row says a run was delivered unless its state was written            *)
(* (commit_scan_section's order).                                          *)
RowHasItsState ==
    \A row \in audit : row.kind = "delivered" => row.n \in committed

(* No write brings an older state back over a newer one: the last check    *)
(* only goes back when the Loop is deleted.                                *)
CheckedNeverGoesBack == [][disk'.at < disk.at => cfg'.on = "gone"]_vars

(* The schedule moves past an occurrence that was delivered.               *)
SentIsSettled ==
    \A d \in DueTimes :
        (sends[d] > 0) ~> (disk.at >= d \/ cfg.on # "yes" \/ d \in excused)

(* A pending run of an enabled Loop goes out, or is dropped, once the      *)
(* orchestrator stays idle.                                                *)
PendingSettles ==
    <>[](busy = "no") =>
        ((disk.pend # NoRun /\ cfg.on = "yes") ~> (disk.pend = NoRun \/ cfg.on # "yes"))

(* "AC takes the latest one and delivers once": no occurrence goes out     *)
(* twice while the process runs and every write succeeds.                  *)
DeliversOnce == \A d \in DueTimes : sends[d] <= 1
=============================================================================
