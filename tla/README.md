# Agents Commander: verification project

TLA+ models of the concurrent core of Agents Commander, checked with TLC on small
instances and proved with TLAPS for every value of their constants. Paths are
relative to the repository's root, which is `src/` here; a bare path such as
`quit_gate.rs` lies under `src-tauri/src/`.

Agents Commander is a Tauri desktop application. A Rust process owns terminal
sessions in which coding agents run, moves messages between the agents, and serves
several web-view windows and an HTTP API. The parts modelled are those in which a
wrong order of steps costs a user something that cannot be undone: the application
quits over unsaved work (QuitGate); a prompt is typed into an agent's terminal twice,
at the wrong moment, or is reported wrongly (PtyInput, MessageBus, LoopScheduler); a
session is closed under work that was given to it (ResponseClose); an updater runs
without consent, or no session can be launched any more (AgentUpdate).

Contents: 1 inventory; 2 what is modelled, module by module; 3 the runs;
4 bounds; 5 fairness; 6 proofs; 7 what the checks found; 8 not modelled; 9 plan.

## 1. Inventory

`PROJECT.json` lists every component with its files and status. The ones that hold
logic of their own:

| Component | State it keeps | Operations | What is hard | What makes it correct |
|---|---|---|---|---|
| Quit gate (`quit_gate.rs`) | epoch allocator, registered windows, the live round (unanswered gates, busy gates, budget, deadline), one slot for the last outcome, whether the exit was claimed | register, unregister, window gone, answer, progress, start, force, the asynchronous quit task | gates, a force, a timer, a cancellation and the task's own polls race; the timer pauses and resumes | exit only with consent or force, at most once; an outcome is final; the budget is exact; no wakeup is lost |
| PTY input operations (`api/message_store/pty_*.rs`, `phone/mailbox/pty_*`) | a row and a tombstone per operation; operation and target locks; workers | enqueue, claim, renew, actuate, retry, finish, expire, compact, recover | a crash around the write, ambiguous commits, leases that run out, recovery beside live workers | typed at most once, true outcomes, one writer per target, every operation ends |
| Message bus (`api/message_store/delivery.rs`, `api/dispatcher.rs`) | the messages table; a dispatcher per API server start | enqueue, lease, deliver, mark, release, reap; start, stop, abort | overlapping dispatchers, calls that outlive their caller, failed store calls in a batch, purges | delivered means typed, typed again only after a loss, poison only after real failures, ready messages settle |
| Loop scheduler (`loops/`) | Loop files, generations, scan and file locks, deliveries not yet recorded | scan, run now, edit, enable, delete, replay | files are written by this process and by the command line; nothing is locked during a delivery | a due run is delivered once and recorded, an edited Loop is not overwritten, a pending run ends |
| Response close (`pty/response_close*`, `commands/session/destroy/response_close.rs`) | routes, policies, work reservations, returns, tickets | reserve, accept, claim, register, return, select, commit, finish, reopen, settings | a close is decided before it is carried out, against writers, output, answers and settings; the tracker may fail closed | no session with pending work is closed, no refused work stays refused, an answered session is closed in the end |
| Idle detector, input activity (`pty/idle_detector.rs`) | last output, resize and input times, idle flags | output, resize, tick, input | grace periods overlap | idle is announced once per silence, and never during activity |
| Session selection (`session/selection*`) | a queue of turns, continuations, one worker | enqueue, execute, restart, clean up, shut down | cancelled requests, continuations that outlive their request | one turn at a time, every ticket answered |
| Session auto close, non-stop watchdog | clocks per coordinator | choose, confirm, close or re-engage | decisions from snapshots | nothing active is closed |
| Wake lanes and mailbox (`phone/`) | outbox files, lanes, workers, claims | poll, claim, wake, observe, settle | a finished worker's outcome is still queued when its lane is free | one worker per target, one attempt per cycle, no file lost |
| Agent capture (`capture/`, `reader_demand.rs`) | watermarks, consumed keys, budget per room | capture, spend, recharge, merge with the file | several instances share the file | nothing is consumed twice, the budget is not exceeded |
| Agent update gate (`agent_update.rs`, `agent_update/`) | phase, fences and process per target, the prompt, pending and answered rows, waiters | prompt, answer, cancel one or all, begin and commit a step, publish, settle after a panic, wait | prompts, answers and cancellations remove the same row; a result waits for the call that caused it; panics | every launch is released, nothing starts without consent or after its cancellation |
| Resource monitor (`resource_monitor/`) | samples, limits, watched processes | sample, warn, kill | process ids are reused | only a watched process is killed |
| Purge guard (`session/purge_guard.rs`) | one lease with its targets | acquire, query, drop | readers do not take the lease's mutex | nothing is woken while it is purged |
| Shutdown, restore, configuration, web, Telegram, spec board, voice, screenshots, command line, user interface | files, sockets, views | | mostly I/O | see section 8 |

How they interact. Windows call Tauri commands; the back end answers with events.
`quit_application` opens a quit round and its task calls the host's exit, which
cancels the shutdown token that every background task selects on. An agent's
`send` reaches either the HTTP API (a row in the messages table, taken by the
dispatcher) or an outbox file (taken by the mailbox poller); both end in a wake
delivery that writes to the target's PTY. A PTY input operation takes the same road
with stronger guarantees and its own locks. Response close, the purge guard and the
menu guard can refuse or defer a delivery to a target at any time. The session
selection coordinator starts, restarts and replaces the sessions that deliveries
need.

The hazards in `PROJECT.json` name, line by line, where this goes wrong if an order
of steps is unlucky, and the properties that watch it. Those of components without a
module say so in their note and are the work list of section 9.

## 2. The models

Each component has a module `X`, an instance module `MCX` with its `.cfg` files, and
modules of proofs, `XProofs` (MessageBusPoisonProofs and LoopSchedulerOnceProofs
hold a second invariant of theirs). `map` in `PROJECT.json` ties every definition to its lines.

### QuitGate and QuitVote

Models `quit_gate.rs` and `commands/quit_gate.rs`. The state of the gate lies behind
one mutex that is never held across an await, so one action is one critical section.

* `live`, `pending`, `busy`, `remaining`, `deadline` are `QuitRound`; an absent round
  is epoch 0, a paused deadline (`None`) is `Paused`.
* The commands are `Register`, `Unregister`, `WindowGone`, `Consent`, `Refuse`,
  `ReportBusy`, `ReportIdle`, `Start`, `ForceQuit` and `ForceClaim` (a force takes the
  lock twice: it finishes the round, then claims the exit).
* The quit task `quit_gate_run` takes the lock once per loop stage. `pc[e]` is the
  stage of the task of epoch `e`: emit the start event, emit the request, finalize an
  empty round, enrol a `Notified`, read the outcome, read the deadline, park, be woken
  or find the timer due, expire, claim the exit, return. `EmitStartedFails` and
  `DropTask` are the failed event and the cancelled or panicking task (the guard's
  `Drop`).
* `Notified` is modelled by what Tokio does: `woken` collects the tasks that were
  enrolled when `notify_waiters` was called.
* `on_timeout` takes the lock twice: `TimerFires` decides, `Expire` aborts.

Callers are left free, so what holds here holds for whatever the windows do.
Event payloads and log lines are left out. The history variables `enrolled`,
`consents`, `forced`, `ran` and `idled` exist for the properties only.

`QuitVote` is what the gate promises, without its tasks, clock and wakeups: a round asks
some windows, each one agrees or somebody vetoes, the last one to agree carries the vote,
main may force it, and the process exits once for the outcome that stands. `QuitGate`
implements it with `round <- live` and the outcome without its reason. `QuitVote` does
not know `pending`; it takes the windows that were asked and have not agreed, so the
refinement also shows that the gate's bookkeeping of senders amounts to that.

### PtyInput and InjectionContract

`PtyInput` models the store of PTY input operations and the worker that carries them
out. A store call is one transaction; it runs some time after it was issued, with the
clock reading of its issue (`stamp`), and `Call` gives it three results: done, failed
without effect, and failed with its effect committed.

* Store: `Enqueue`, `ExpireForAdmission`, `RecordHostRejection`, `Compact`, and the
  transactions `ClaimPtyInput`, `RenewPtyInputLease`, `BeginPtyActuating`,
  `RetryPtyInput`, `Terminalize`.
* Worker: from `TryOperationLock` to `Record` or `Lose`, one action per await of
  `dispatch_accepted_operation`, with the retries and rejections that come before the
  boundary. `Heartbeat` renews the lease on its own. `Stopped` is a shutdown observed
  in a wait.
* Recovery: `RecoveryScan` reads its candidates before it holds any lock, `Recover`
  settles them one by one from what was read; `RecoverAtStartup` after a restart.
* Process: `Shutdown`, `ProcessEnds`, `Restart`, `StartupDone`.

Abstractions: selection and readiness of the target's session are outcomes chosen
freely; locks striped by hash are one lock per key (contention between different keys
on one stripe only ends a dispatch early, which `Admit` and `AcquireTarget` allow by
other ways); page cursors are left out; the backoff, which grows with the attempt
(5 s doubled up to 40 s), is the constant `Backoff`. Two loops run recovery, the mailbox
poller's (`maintain_pty_input_runtime`, at the top of every cycle of 3 s) and, while the
API server runs, the dispatcher's; the model has one pass at a time, which may be under way
when a worker is spawned, and leaves out that the two passes may overlap.

`InjectionContract` is what the sender is promised: an operation is absent, accepted,
rejected, crossed (past the point of no return), injected or indeterminate; the text is
typed only once and only when crossed. `PtyInput` implements it under the mapping
`Outcome`, which reads the tombstone, then the row.

### MessageBus

Models the messages table, `run_dispatcher` and the API server whose starts and stops
begin and end dispatchers.

* A message is `<<o, created[o]>>`: its key and the number of its row, since a key may
  get a second row once its first was reaped. Times are kept as time that remains.
* The tick is `BeginTick`, `LeaseDue`, then per message of the batch, oldest first, a
  delivery (`Refused`, `Purged`, `Admitted`, `Deferred`, `Delivered`, `Failed`) and
  `Mark`, then `Reap`. `LeaseFails` and `MarkFails` are failing store calls; a failing
  mark drops the rest of the batch, as `?` does.
* `Retained` is a delivery that never returns: `deliver_peer_wake` awaits
  `std::future::pending()` when the replacement of its target's session is retained
  (`phone/mailbox/wake_delivery.rs:495`), and the dispatcher awaits it without a timeout
  (`api/dispatcher.rs:313`). Only an abort or the end of the process ends it.
* `StartServer`, `StartFails`, `StopServer`, `Abort`, `Exit` and `Crash` are the life of
  the server. An aborted dispatcher may leave a store call behind that still runs
  (`OrphanMark`).
* Marks write the row whatever its status and whoever leased it, as the SQL does.

A delivery is reduced to its outcome and to whether its text was typed. The menu guard
and the typing hold (`held`), and response close (`closing`), come and go freely; a real
close also waits until its target has no message left
(`pty/response_close/returns.rs`), so the model allows more than the code. That a
failing store commit also closes the response-close owner for good is left out.

### LoopScheduler

Models one Project Loop: `loops/scheduler.rs` and its `record.rs` and `state.rs`, the
report of `loops/delivery.rs`, and the writers of `config/loops/`.

* The scan is `ScanRead` (snapshot, replay or choice of the run), `Check`, the delivery
  (`DeliverBusy`, `DeliverDropped`, `InjectCheck`, `Inject`), `Apply` (the sections under
  `io_lock`), and a commit that is stale, written, failed before the state
  (`CommitFails`) or after it (`CommitAuditFails`). `RunNow` enters at `Check` with a run of
  its own. `scan_lock` is the scanner itself; `io` is `io_lock`, `side` the sidecar lock that
  the command line shares.
* The edits are `UpdateConfig` and `CreateConfig`, whose second write is `WriteBaseline` or
  `EditAbandoned`, and `Rename` and `Delete`, which are one write. The app's edits bump the
  generation, those of the command line do not.
* `Crash` loses the memory (generations, the unrecorded delivery, locks) and keeps the files.

A state file is its last check, its pending run and a version that stands for the rest of
its bytes. `Inject` types the prompt and then submits it; when the submit fails the text
has been typed all the same, and the report is a failed delivery (`broken`), of which
`record_unrecorded_delivery` keeps nothing. The history `sends`, `committed`, `excused` and
`overlapped` exists for the properties: `sends` counts what was typed, submitted or not;
`excused` holds the occurrences that were open (being delivered, or sent and not settled)
when the process ended or an edit left the schedule where it was, and those whose broken
delivery could not be written.

### ResponseClose

Models the tracker of `pty/response_close*` for one member, with its session, the
deliveries to it, its answers, and the owner of a close
(`commands/session/destroy/response_close.rs`). One action is one critical section of
the tracker's mutex or one effect of a close.

* Work of message k is `stage[k]`: `Reserve`, `Accept`, `Claim`, `Create`, `Admit`,
  `Candidate`, `Typed`, `Submit`, `Register`, and the ways it is lost (`Dispose`, `Release`,
  `Requeue`, `Reject`, `Settle`). A `Retained` delivery awaits for ever (see MessageBus).
* An answer is `AdmitReturn`, then `SettleReturn` or `ReturnLost`.
* A close is `Select` (a ticket), `RunTicket` with `Commit` or `Discard`, the kill of the
  session's process group (`GroupEffect`), `Kill` or `KillLeaves`, the auxiliary effects
  (`Retain`) and `FinishDormant` or `Reopen`. `KillLeaves` is a kill after which the backend
  still has the session, whether it returned an error (`failed`) or not (`left`); `Dies` is
  a process that ends by itself meanwhile; `EffectLost` is an effect without a result.
  `Reopen` needs what `response_close_dormancy` asks for: a kill that failed, and a session
  that is still Live.
* The environment is free: the user types, the session prints, detectors publish and
  withdraw reasons to keep it, settings are saved, the session is destroyed, the tracker
  fails.

Versions and epochs are abstracted: whatever bumps one also clears the selected ticket,
so a ticket is current exactly while `selected` is "yes". What follows from the code and
may surprise: an answer that was admitted between the candidate and the typing of a
message counts as the answer to it; a destroy that is vetoed has invalidated the route
already; and some closes leave the target closing for ever (`Stranded`), because
`reconcile_response_closes` only repeats the test that failed: one whose group effect or
manager call has no result, one whose kill returned Ok and left the session, one whose kill
failed on a session that is not Live, and one whose tracker failed meanwhile.
`DeliveryResumes` excepts them.

### AgentUpdate

Models the startup pass of `agent_update/`: the supervisor that prompts, spawns, joins
and finishes, one task per target, the answers and cancellations that arrive from any
window, and the launches that wait at the gate.

* Supervisor: `AskNext`, `Register`, `TimesOut`, `Expire`, `Answered`, `SpawnTask`, the
  settlement after a panic (`SupervisorPanics`, `StartSettling`, `SettleNext`), `Store`,
  `ReleaseFinished`, `Notify`.
* Task: `Begin` and `Commit` a step, `Spawned`, the process ends (`Waited`, `Observe`,
  `Returned`, `ReturnedDefective`), `Continue` or `Conclude`, then `Publish`, `Emit`; `Panics`.
* Calls: `AnswerBegin`, `AnswerClaim`, `AnswerFails`; `Cancel` and `CancelAll` with
  `CallReturns` or `CallDropped`. A member of `Calls` that has returned calls again, so they
  are the calls that overlap, not their number.
* Launches: `Arm`, `ReadFinished`, `Launch`; arming before the read is what loses no
  notification.

A target's three fences (acceptance, response release, publication) open once; a fence is
the set of targets whose fence is open. `Emit` opens the publication of a target only if its
control still exists, as `command_event_emitted` does; one that a No removed before stays
shut. The order of the catalog is left out, and a pass without prompts is an alternative of
`Init`.

## 3. The runs

| Run | Question | States |
|---|---|---|
| `quit_round` | one round, two gates that pause, answer and disappear, a force, a cancellation: is an exit always consented or forced and run at most once, and is a vote with a final outcome implemented; is the budget exact, no wakeup lost, nothing timed out early; does every round end, and is a consented one acted upon | 36 thousand |
| `quit_waiter` | finding: does a quit task whose round has ended always return its outcome | violated |
| `pty_once` | one operation, two workers, failing calls, a crash: typed at most once, with a true outcome; retries keep an attempt; the contract is implemented | 79 thousand |
| `pty_target` | two operations of the two planes on one target: one writer at a time | 289 thousand |
| `pty_live` | does every accepted operation end, also after a crash | 20 thousand |
| `bus_overlap` | one key, two dispatchers, two faults, a purge: honest poison, retyped only after a loss, terminal rows stay | 961 thousand |
| `bus_batch` | two messages in one batch with a failing call: outcomes reach their own message, and a ready target is served while the other is blocked for ever, unless a delivery is retained | 137 thousand |
| `loop_edits` | two occurrences, two edits, broken deliveries, failed writes: typed once, no older state written over a newer one, no audit row without its state | 3.7 million |
| `loop_live` | a crash, an edit and two failed writes: is what was delivered settled, does a pending run end, was a missed run really not delivered | 679 thousand |
| `loop_rename` | finding: is an occurrence delivered once when nothing fails | violated |
| `response_close` | two messages, an answer, a fault: is a session closed only after it answered and undisturbed, with no work on its way; is deferred work delivered unless the close is stranded, and an answered session closed | 206 thousand |
| `agent_update` | a decided target and one to ask about, any number of cancel calls one after another, a launch, a fault: does nothing start without consent or after a cancellation, with nothing left of the pass; does every launch and every call end, unless a fence it waits for is gone | 495 thousand |

Every property has a mutant in `PROJECT.json`: a plausible bug in one definition of the
model that makes TLC report that very property. Where the mutated form needs more than
a dropped conjunct, it stands in the module just before the definition it replaces,
with a comment that says what is wrong with it (`ResumeWithoutClock`,
`TerminalizeStaleTomb`, `MarkNewest`, ...); nothing else uses those operators.

Deadlock is checked in the QuitGate, MessageBus and LoopScheduler runs: there something
can always happen. It is off where an instance may come to its end: in the PtyInput runs
(a bounded clock and a bounded number of crashes), in `response_close` (every message
and answer is through, or a close that a failed tracker strands) and in `agent_update` (the pass is over).

## 4. Bounds, and why they are enough

* QuitGate. Two gates give a last consent that is not the first, and a peer that is busy
  while the other answers. `Timeout` 3 and `MaxPause` 2 let a round be paused, resumed, and
  paused again with budget left; `MaxLate` 1 lets a timer fire late. `quit_round` has one
  round, which keeps its liveness graph small; that a late task, force or answer of one
  round meets the next is in `quit_waiter` (`MaxEpoch` 2) and, for every safety property of
  the run and any number of rounds, in the proofs. Nothing refers to an epoch older than
  the last.
* PtyInput. Two workers are the claimant and its successor after the lease ran out.
  `MaxAttempts` 2 gives one retry; `Lease`, `Lifetime`, `Orphan` are small and different,
  so that a lease ends before, with and after its operation, and `MaxNow` lets them all
  run out. `MaxDelay` 1 keeps one call in flight across a tick. One crash is enough:
  nothing distinguishes a second restart. `RetryHasAttempts` holds only as long as a
  store call waits less than a lease (`MaxDelay < Lease`, 120 s in the code).
* MessageBus. Two dispatchers are the running one and a stopped one that is not gone;
  `MaxFaults` 2 is a stop and one more fault. Two rows let a key come back after its first
  row was reaped. `MaxAttempts` 2 separates a retry from a poisoning failure.
  `bus_batch` has one attempt and no retention, which keeps the liveness graph small;
  retry and backoff are in `bus_overlap`. Beside the runs, `SettledWhenReady` holds with three
  messages, two of them for one target, no fault and a batch of two (498 thousand states), and
  with two messages and a batch of one (87 thousand); there it fails without its exception for
  a batch full of blocked rows (`Crowded`).
* LoopScheduler. Two occurrences let one become due while the other is pending or being
  delivered; three instants are the start and the occurrences. `loop_edits` has two edits
  and a failed write, which meet one scan at any of its steps; `loop_live` has one occurrence,
  an edit, a crash and two failed writes, so that the replay of a record may fail as well.
  Two runs are a scan's and a manual one. Crashes with two occurrences, and larger
  numbers, are left to the theorems of section 6. Six versions suffice for the five live
  copies of a state file (`FreshVerType`).
* ResponseClose. Two messages are the one that was answered and the one that comes in
  between; one answer, and one veto reason that stands for all publishers, since each
  has the same effect. A larger instance with two answers and two faults (5.9 million states)
  passes the safety properties.
* AgentUpdate. One decided target and one to prompt for give both ways into the pass, one
  step beside the two probes gives every boundary of a task. One call at a time, repeated at
  will, gives a cancellation of one target before that of another. Two calls that overlap
  pass every property without a fault (707 thousand states) and the safety properties with
  one (2.5 million).

Histories are capped where they would grow (`writes` of a message at 2, `failures` at
`MaxAttempts`): the properties do not look further.

## 5. Fairness

* QuitGate. Tokio polls a ready task: weak fairness of `Task(e)` and `ForceClaim(e)`,
  and of the clock. `select!` polls its ready branches in random order, so a due timer
  is not passed over for ever: strong fairness of `TimerFires(e)`. A gate or a user owes
  no answer; `RoundsDoNotHang` therefore excepts rounds in which a gate stays busy.
* PtyInput. A started worker is polled and its waits end by the operation's deadline; the
  wait for the startup restore to be over, which has none, is assumed to end. Recovery does
  not depend on the API server or on its deliveries: `MailboxPoller::poll` calls
  `maintain_pty_input_runtime` first thing in every cycle (`phone/mailbox/wake_workers.rs:549`),
  and hands its wakes to detached workers, so that a retained one does not stop it. What a
  cycle does itself (operations of the host plane, messages that wake nobody) is assumed to
  end. A stopped process ends and is started again. A dispatch that finds nothing to claim
  is over long before the next one, so again and again a pass of recovery begins with no
  worker about and comes to an operation that nobody holds: strong fairness of both. That
  the application is started again is an assumption about its user.
* MessageBus. A dispatcher that was not cancelled is polled, a purge ends (its lease is
  dropped), time passes. Nobody must start the server or lift a hold, and a delivery need
  not end: `Retained` is no step of `Work`. `SettledWhenReady` excepts a stopped server, a
  blocked target, a dispatcher whose delivery is retained (`Stalled`) and a batch that blocked
  rows fill (`Crowded`).
* LoopScheduler. The process is started again, its startup scan runs, then its interval of
  30 s; a scan once begun is polled, and its file locks time out; an edit's second write
  comes or fails. The orchestrator owes nothing: `PendingSettles` asks only about
  behaviours in which it stays idle from some point on, and `SentIsSettled` gives up a
  Loop that is disabled or whose occurrence is excused.
* ResponseClose. A delivery once claimed is polled to its end unless it is retained, its
  queue is drained, the poll of closes and the worker of tickets run, the effects of a close
  end or are lost, time passes. `DeliveryResumes` excepts a stranded close and a retained
  delivery.
  The user, the member and the settings owe nothing; the reasons to keep a session may
  stay for ever.
* AgentUpdate. Spawned tasks and calls are polled, processes end or are killed, a prompt
  runs out, a persist ends. Nobody is bound to answer, to cancel or to panic. `GateOpens` and
  `CallsReturn` except a call whose fence went with a removed control (section 7).

## 6. Proofs

TLAPS checks every theorem below for any constants that meet the `ASSUME`s of the
module: sets of any size, any timeouts and any bounds.

QuitGateProofs. Four inductive parts on top of one another. `IndType` adds to `TypeOK`
the order of the epochs (a live round is the youngest epoch allocated and younger than
the written outcome, and an epoch not allocated has no task), which bounds the allocator
and makes outcomes final. `IndExit` adds what an exit rests on: whoever is no longer
missing from the live round has consented, a written `Exiting` is backed by a force or by
every consent, and an exit of the outcome's own epoch has been claimed. `BudgetIsExact`
is inductive given the types. `IndWaiter` adds to `NoLostWakeup` what a task knows
between reading the outcome and parking, and that a task about to expire its round saw
the whole budget gone. For the refinement of `QuitVote`, `Ballot` says that the pending
senders are the windows asked less those that agreed, and that nobody has agreed in an
epoch not allocated yet; with it every action is a step of the vote or one the vote does
not see, and that a claim is the first one for its outcome comes from `IndExit`. Theorems:
`TypeCorrect`, `ExitIsConsented`, `ExitsOnce`, `TerminalNeverRewritten`, `BudgetExact`,
`WakeupsNotLost`, `NeverEarly`, `KeepsVote`.

PtyInputProofs. At most once is not inductive by itself. The invariant `Safe` has four
parts: status, tombstone and writes of an operation agree (`RowsCoherent`); a dispatch
past its first step holds the operation's lock (`OpLocked`); no worker outlives the
process (`Quiet`); and while a worker crosses, its row stays `actuating` and it knows
what it wrote (`CrossingOK`). The argument: only a leaseholder commits `actuating`, and
nobody else can settle the row while its worker holds the lock, since recovery skips
locked operations; no row returns from there to a status that is claimed, and the
tombstone keeps a compacted key from coming back. `TargetHeld` gives the single writer.
Theorems: `TypeCorrect`, `WrittenAtMostOnce`, `OutcomesAreTrue`, `SingleWriter`, and
`KeepsContract`, which shows from the same invariant that every step is a step of
`InjectionContract` or leaves its state alone. `FatesAreFinal` draws the conclusion from
it: an operation that was rejected, injected or given up keeps its answer, also when its
row is compacted, and is not typed any more. `NoLockIsLeaked` has an invariant of its
own, that whoever holds a lock is dispatching that operation or for that target.

`RetriesCanBeClaimed` (a row in `retry` has an attempt left) assumes `MaxDelay < Lease`: a
store call is through before a lease written by it would be over, 120 s in the code.
Without it the statement is false, since a claim could write a lease that has ended
already. Recovery decides from the attempt it has read and checks again only the status and
the lease, so the invariant has to say that this is enough (`ScanHonest`): as long as the
lease had run out when the pass began, nobody has claimed the row since, because a claim
leaves a lease that runs beyond the time of the pass or up to the row's expiry
(`LeaseOutlasts`). `Prompt` is the bound on the delay of a call under way.

MessageBusProofs. The inductive invariant is `TypeOK` with three parts: `Numbered` (rows
have different numbers, and batches and left-over calls name rows that existed),
`Alone` (unless the row's record was lost, one dispatcher or call works on a message at
a time) and `Accounted` (what a dispatcher or a left-over call is about to record of a
message agrees with what was typed). Theorems: `TypeCorrect`, `DeliveredRowsWereTyped`,
`TypedOnceUnlessLost`, `TerminalRowsStay`.

MessageBusPoisonProofs. That a poisoned row has `MaxAttempts` failures behind it is a
statement about counts. `InFlight` counts the failures whose record is still under way: in
the hand of a dispatcher, or in a store call that an aborted one left over. `Counted` says
that the attempts of a row and its failures under way are together not more than the
deliveries that failed, so none is counted twice and none without a failure. Theorem:
`PoisonedOnlyByFailures`.

LoopSchedulerProofs. `Inv` is `TypeOK` with three parts: runs have numbers (`Numbers`), an
app's edit under way has paid for its generation (`Generations`), and what is written is
not older than what was read (`Ordered`): the state a scan is about to write is not
behind its snapshot, a commit demands that this snapshot is still the file, and a record
that is replayed was such a write. Theorems: `TypeCorrect`, `RowsHaveStates` (a run's number
is committed with the state, before its row), `CheckedGoesForward`.

LoopSchedulerOnceProofs. That an occurrence goes out once needs to know where a delivery
is while the file does not show it. `Tracking` says: what was sent or is about to be, and
is not behind the state file, is in the hand of the scan or in the unrecorded record, and
the Loop is as that scan read it, or an edit is under way that began when the occurrence
was open (`AllTracked`). With it come the order of times (`AllInTime`, `RunsInTime`), what
records and scans carry (`Records`, `Carries`), that a scan which still has to decide has an
occurrence nobody sent or reported (`Unsent`), and that what was reported as missed is
settled (`MissedSettled`). The heart is `IdleSettled`: when a scan starts and has nothing to
replay, whatever went out lies behind the file, so the schedule cannot choose it again.
Theorems: `DeliveredOnce` and `MissedWasNotSent`. `OnceUnlessInterrupted` gives the
documentation's sentence ("AC takes the latest one and delivers once") its exact condition. A
history is `Uninterrupted` if the process does not end, no edit is given up between its
two writes and no edit leaves the schedule alone, while an occurrence is open, and no
delivery that broke after the typing fails to be written; in every such history an
occurrence is typed once, without exception, whichever other write of the scheduler fails.
The run `loop_rename` shows the third condition to be needed.

ResponseCloseProofs. The invariant adds to `TypeOK` and `ClosingExcludesWork` that the quiet
time of a policy is real and a ticket that stands was not disturbed (`Watched`), that what
counts as an answer was begun after the last input (`Honest`), and that a route or a close
has a generation (`Routed`). Whatever happens to the session restarts the quiet time or
drops the policy, and takes the ticket with it, so a commit finds what its ticket saw.
Theorems: `TypeCorrect`,
`ClosingIsLeftAlone`, `ClosesAreUndisturbed`, `ClosesAreAnswered`.

AgentUpdateProofs. The invariant says of each target that it is with one of the prompt, the
list of updates and its task at a time (`Placed`), so that an answer never meets a running
task; that a target about to spawn is committed and its cancellation was not accepted
(`Spawning`); that what was published keeps what it says (`Kept`); what the supervisor has
left behind at each of its stages (`Left`); and where the supervisor and the answer being
persisted stand (`Asking`). Theorems:
`TypeCorrect`, `StartsAllowed`, `PassIsSettled`.

Only model-checked: the liveness properties (`RoundsDoNotHang`, `ExitingIsActedOn`,
`EveryOperationEnds`, `SettledWhenReady`, `SentIsSettled`, `PendingSettles`,
`DeliveryResumes`, `AnsweredIsClosed`, `GateOpens`, `CallsReturn`), since the prover does
neither fairness nor ENABLED. Their safety cores are proved where they are more than a
guard: no lost wakeup (`WakeupsNotLost`), no lock that outlives its dispatch
(`NoLockIsLeaked`), no retry that cannot be claimed (`RetriesCanBeClaimed`). Every
invariant and every action property of the passing runs is stated by a theorem.

## 7. What the checks found

Two runs check something the repository says of itself and find it violated; each is
an entry of `findings` with the quoted text.

1. `quit_waiter`: the gate keeps one outcome. A quit task whose round has ended and that is
   not polled before the next round ended too never sees its own and waits for ever. The
   property asks only about rounds that have ended (a gate that stays busy keeps its round
   open, as intended), and with a single epoch it holds.
2. `loop_rename`: an edit that leaves the schedule alone (a new name) bumps the Loop's
   generation. A prompt being delivered meanwhile commits as stale: no state, no row, no
   record. The next scan delivers the occurrence again, against "AC takes the latest one
   and delivers once" (`docs/features/project-loops.md:59`).

Three more disagreements have their property in the models, where TLC finds each of them
violated, but no run of their own: `TimeoutNeverWhileBusy` (QuitGate: `on_timeout` rechecks
that nobody is busy, unlocks, and aborts under a second lock without looking again),
`ReplayMakesNoSecondRow` (MessageBus: after the retention the row is deleted and with it
the memory of the `opId`, and a replay is delivered again) and `PurgeCostsNoAttempt`
(MessageBus: the purge check comes before the lease; a purge in between makes the
delivery fail and counts an attempt).

Observations made while modelling:

* A pending run of a Loop that is there when the application starts keeps its startup scan
  from recording the occurrences missed while it was closed
  (`docs/features/project-loops.md:60`).
* In AgentUpdate a cancellation may come between the reservation check (`pass.rs:595`) and
  `register_prompt` (`pass.rs:599`). The prompt of the cancelled target is then shown and no
  event closes it, although `agent_update.rs:286` says that the pending entry has exactly
  one remover, the only emitter of `agent_update_prompt_closed`. A later No removes the row
  after its result; a later Yes puts a terminal phase back to pending. Nothing starts. But
  the No may come between the target's `publish_terminal` and its `command_event_emitted`
  (`agent_update/gate.rs:737`, `agent_update/pass.rs:107`): its control is gone, and nothing
  opens its publication fence any more. A cancel-all that waits for that fence
  (`agent_update/cancellation.rs:52`) never returns, the targets whose cancellation it
  accepted wait for its return before they are published, and every launch stays blocked.
  TLC found this once `Emit` did what the code does; `GateOpens` and `CallsReturn` except it
  (`Orphaned`) and hold otherwise.

More behaviours are worth knowing and contradict no text:

* `lease_due` counts rows of blocked targets toward its LIMIT and releases them due at
  once, so eight of them starve younger rows of ready targets. `SettledWhenReady` excepts a
  batch that blocked rows can fill.
* A dispatcher whose delivery is retained (`phone/mailbox/wake_delivery.rs:495`) leases
  nothing more until the server is stopped: the dispatcher has no timeout around it.
* A close that cannot end (`Stranded`, section 2) keeps its target closing until the
  application is started again.
* A Loop delivery that fails after its prompt was typed is recorded as failed, and if that
  record cannot be written the prompt is typed again.

## 8. Not modelled

I/O and rendering (PTY and container processes, terminal snapshots, screenshots, voice,
network, git, logging), text heuristics (menus and readiness in a terminal's output), and
the views of the user interface: there is no protocol in them that a model checker would
reach. Request parsing and authentication of the HTTP API are data checks of a single
call. Restore and shutdown are fixed sequences. Each is listed in `PROJECT.json` with its
reason.

The three younger modules leave out, of the code they model:

* LoopScheduler: how a delivery finds, starts or restarts the orchestrator's session, the
  legacy name of the state file, an unreadable state file, several Loops in one scan (they
  share `io_lock` only), audit rows of other kinds than delivered and missed.
* ResponseClose: several members at once, the coordinator's own route, sessions created or
  restarted by the user, replacements of a session (but for a delivery that is retained over
  one), container backends, a process that exits by itself outside a close, and the
  overflow of the tracker's counters.
* AgentUpdate: the plan of a pass and the catalog, the install cache and its probes, how a
  process tree is killed, and a panic of a task outside its caught body (with a cancel-all
  waiting for that target, it would never be answered).

## 9. Plan

In this order; each gets a module, an instance, properties with mutants, and proofs of
its types and its main safety property.

1. `MessageBus` composed with `ResponseClose`, whose close replaces the free `closing` of
   MessageBus, as a refinement of MessageBus.
2. `IdleDetector` with auto close: no confirmed member was active since its snapshot by
   more than the grace period.
3. `WakeLanes`: poller, lanes, workers and queued outcomes; no outbox file is lost, one
   attempt per cycle.
4. `Capture` (two instances merging one budget) and `PurgeGuard` with the purge command.
5. `SessionSelection`: one worker, tickets answered, continuations cleaned up; then as the
   environment of PtyInput's `Select`.
6. `QuitProtocol`: the main and spec-board windows (`src/main/App.tsx`,
   `src/spec-board/App.tsx`) as clients of QuitGate; does an answer of theirs ever belong
   to another round.
7. `ResourceMonitor`: a kill never reaches a process whose id was reused.

Theorems to add: the composition of item 1, and the types and the main safety property of
each new module.

## Running

    tlc -config QuitGateRound.cfg MCQuitGate
    tlapm QuitGateProofs.tla

and likewise for the other configurations (named after their module) and proof modules.
