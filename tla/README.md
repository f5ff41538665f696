# A TLA+ verification project for the Mongo Production System

The Mongo Production System (MPS) is a FastAPI and SQLite application that runs a
machining cell: a robot ("Mongo") carries pallets between a pool, a mill and two
stations, and a CNC mill runs the pallets' programs. This directory holds TLA+
modules of its core logic, the TLC configurations that check them, and TLAPS
proofs. Line numbers below refer to `src/app/` at the commit beside this project.

## 1. Inventory

| Component | State it keeps | Operations | Hard part |
|---|---|---|---|
| Pallet board (`service.py`, `models.py`) | a row per pallet: location, occupied position, reserved return position, queue position; pool size; revision | create, delete, move, queue, reorder, resize, station toggles, debug signals | exclusive promises of positions, kept over every order of edits; one optimistic revision for everything |
| Pallet motion worker (`execute_pallet_motion`, `_finish_motion`, `recover_pallet_motion`) | `RobotMotion` row, thread, its cached settings row | start, lift observed, completion with retries, fault, restart, recovery | completion races edits; crash with unknown physical result |
| Robot supervisor ledger (`_new_supervisor_command`, `_dispatch_supervisor_command`) | one row per sequence, last sequence | reserve, release, send, verdict, timeout, late completion, reconcile, clear latch | at most once over an unreliable link |
| Robot supervisor manager (`robot_supervisor.py`) | connection, session, last sequence and event, events by sequence | handshake, frames, dispatch, wait | reconnects, superseded connections, two locks |
| Robot supervisor script (`robot_scripts.py`) | sequence, latch, command in progress, pending event | communication thread, main loop | two threads sharing globals, link loss during a step |
| Run Mode coordinator (`service.py` 7241-8896) | enabled, state, token, pending action, confirmation, current pallet, return position | start, pause, stop, confirm, resume armed, recovery, the cycle | operator actions between the coordinator's steps; stale token; armed wake-up |
| Queue reliability test | run row, cancel flag | start, cycle, cancel, restart | check and commit far apart |
| Mill supervisor (ledger, `mill_supervisor.py`, `mill_supervisor_agent.py`) | command rows; last sequence, last result and active program on disk | dispatch, monitor, event, duplicate answer, reconcile, bootstrap, activation, restart | duplicate suppression, superseded connection, agent restart |
| Recovery sessions, bootstrap, maintenance, watchdog | `recovery_sessions`, maintenance and verified flags, the latch | start, answer, cancel, reconcile, rebuild, bootstrap | a second mutator beside the operator; commits in sequence with verdicts between them |
| Optimistic concurrency | `AppSettings.revision`, version column | check, bump, commit or 409 | plain commits do not bump; sessions keep stale rows |
| Automatic schedule (`autoschedule.py`) | none (pure) | preview, exact search, local improvement, apply | capacity limits, ties |
| Robot telemetry (`robot_rtde.py`, cache of `service.py`) | stream, generation, cooldown, cache, refreshing flag | refresh, reader, reset, suspend | superseded readers write to shared globals; one client only |
| CNC control (`cnc_linuxcnc.py`) | the program PathPilot runs | start, abort, observe | a lost reply leaves the start unknown |
| Backup and restore, production timers, cameras, file transfer, HTTP layer, front end | files, snapshots | see section 9 | mostly I/O |

The parts interact through the database (every handler and thread has its own
session; a conflict on the settings row is the only mutual exclusion between
them), through the two managers' in-memory state, and through TCP connections to
the controllers. Threads: HTTP handlers, one worker per movement, one Run Mode
coordinator, one reliability test, one connection thread per robot and mill, and
background pollers.

What makes each correct:

* Board: no position is promised twice, places hold one pallet, a pallet that is
  away has somewhere to return, the queue is contiguous, and only the movement or
  its recovery moves a pallet while a movement is locked.
* Link: no atomic step is begun twice, steps are in order, success means all steps
  were finished, the ledger knows everything the robot was sent, every wait ends.
* Run Mode: one coordinator holds the run; after Stop the old one commands no
  transfer; a program runs once per request, on the pallet in the mill; a pallet
  becomes complete only when its program ended, or an operator says so.
* Mill: a program is started at most once per dispatch and is reported complete
  only by its own result.
* Recovery: the recorded place of a pallet and the verdict on its command agree
  with the cell, however the reconciliation is interrupted; a session ends.
* Schedule: a short queue gets a cheapest plan, a long one never a worse plan.
* Telemetry: one connection, samples of that connection only, live data again
  after a loss, silence after a shutdown began.

`PROJECT.json` lists the hazards at their lines and the properties aimed at them.

## 2. Plan

The modules were written in this order, the most important behaviour first. All
of them are in place.

| Module | Component | Proofs |
|---|---|---|
| `PalletBoard`, refining `PoolAllocation` | board, movement's record | `PalletBoardProofs` |
| `SupervisorLink`, refining `AtomicSteps` | robot ledger, manager, script | `LinkProofs`, `LinkSafety` |
| `RunMode` | coordinator, its recovery strategies, program start and abort | `RunModeProofs` |
| `MillSupervisor`, refining `OneProgramPerCommand` | mill ledger, manager, agent | `MillProofs` |
| `GuidedRecovery` | sessions, bootstrap, maintenance, watchdog | `RecoveryProofs` |
| `ToolPlan` | automatic schedule | `ToolPlanProofs` |
| `Telemetry` | realtime stream, circuit, cache | `TelemetryProofs` |

`MCPalletBoard` and `MCRunMode` add the symmetry sets for TLC.

What composes what: `RunMode` takes a movement as requested, running, done or
faulted, which is what `PalletBoard` and `SupervisorLink` make of it; and a
program as begun, finished, stopped or unknown, which is what `MillSupervisor`
makes of it. `GuidedRecovery` composes the ledger's last command, the board's
place of the pallet, both links and the flags, each reduced to what recovery reads.

Every safety property of the runs is a theorem, but for the one a run violates; what stays
with TLC, and why, is at the end of section 7.

## 3. The board

`PalletBoard.tla` has the four columns of a pallet row (`location`, `poolSlot`,
`returnSlot`, `queuePos`), the settings that matter (`slotCount`, `stations`,
`runMode`), the reliability test, the locked `RobotMotion` and its `worker`. Every
handler that changes these is one action with the guards, the renumbering
(`compact_queue`) and the single commit of the code:

| Action | Code |
|---|---|
| create, delete, move, storage | `create_pallet`, `delete_pallet`, `move_pallet` |
| queue, unqueue, reorder | `queue_pallet`, `dequeue_pallet`, `reorder_queue` |
| `ResizePool`, `ToggleStation` | `update_settings` |
| `StartPick`, `StartPut`, `StartLoad`, `StartUnload` | `start_pallet_motion`, `start_mill_pallet_transfer` |
| worker actions (`WorkerBegins` ... `FinishConflicts`) | `execute_pallet_motion`, `_mark_pick_as_held_after_lift`, `_finish_motion` |
| recovery | `recover_pallet_motion` |
| `Restart` | `interrupt_active_pallet_motion` |

A commit that conflicts changes nothing and is a step only where the code goes on
differently after it: the worker's lift and completion. The worker keeps the
settings row it read (`expire_on_commit=False`), so a board edit since then makes
its next plain commit fail. `DebugMenu` adds the simulated signals, which are not
guarded by the motion lock nor by Run Mode; the action properties name them as
the exception. Worker steps follow the legacy path; those of the
supervisor path and their commits are in `SupervisorLink`. Machine state, content
status, programs and weights are not modelled, nor the change of the connection
mode during a movement. Run Mode and the reliability test are a flag here.

`PoolAllocation.tla` is the abstract allocator: a pallet takes an open position,
moves its claim, releases it, and the pool is resized without cutting off a
claim. `BoardAllocatesPool` says that the board implements it, where the claim of
a pallet is the position it occupies or else the one reserved for it.

### Runs

* `board` (3 pallets, 2 positions, physical robot, debug menu): all invariants, the
  two action properties and the refinement; 634 000 states. Three pallets over two
  positions are the smallest pool in which a reservation competes with an
  occupant and a pallet is left over to take a wrongly released place. Pallets are
  interchangeable in this run and a symmetry set is used; no liveness is checked. The
  simulated robot, whose movement ends inside the handler, is covered by the proofs only.
* `board_reliability`: a reliability test and a movement can both start (section 8).

## 4. The supervisor link

`SupervisorLink.tla` has the ledger and the last sequence, the threads that
dispatch (`caller`: the worker of a movement, an operator request), the manager,
the controller program and the frames between them.

| Part | Actions | Code |
|---|---|---|
| dispatching thread | `CheckLink`, `Reserve`, `Dispatch`, `Transmit`, `Release`, `ReleaseLost`, `Record`, `Verdict`, `WaitExpires` | `_execute_motion_via_supervisor`, `_new_supervisor_command`, `_dispatch_supervisor_command`, `dispatch`, `wait_for_event` |
| legacy script | `LegacyStep` | `execute_pallet_motion` |
| operator | `StartMotion`, `ToggleOutput`, `ReconcileCommand`, `ClearLatch`, `RecoverMotion`, `Bootstrap`, `SeedProgram` | the handlers of those names |
| status poll | `ApplyCompletion` | `robot_supervisor_status` |
| connection thread | `AppHears`, `AppDisconnects`, `Telemetry` | `_serve_connection`, `_activate_connection`, `_handle_frame` |
| controller, communication thread | `RobotConnects`, `RobotHears`, `RobotSendsEvent`, `RobotLosesLink` | `mongo_communication_thread` |
| controller, main loop | `RobotTakes`, `RobotProceeds`, `RobotFinishes` | the script's main loop |
| environment | `Break`, `RobotStops`, `Restart` | the network, a safety stop, `interrupt_active_pallet_motion` |

Abstractions: a step is identified by its movement and its place in it; ACCEPTED
and RUNNING, published one after the other before the move, are one event;
telemetry is heard at once when no event is on its way; an error of `sendall`
means that the connection is dead; frames on the way at a break arrive or are
lost; the robot gives a link up only after its main loop picked up a stored command
(two missed reads of two seconds against a `sync()`); how a movement's completion
loses its commits is in `PalletBoard`, and here `EndMotion` commits the outcome, a
failure instead, or nothing (4271, 7238); one operator request
dispatches at a time, beside the worker. Corrupt frames and
unknown opcodes are not modelled; the maintenance-gap repair, the watchdog and
the maintenance flag are in `GuidedRecovery`. A
release may lose its commit to any other edit of the settings row (`ReleaseLost`).

`ran` and `done` are history variables: how often the arm began a step, and which
steps it finished. `AtomicSteps.tla` is stated over these and the outcome alone:
steps begin in order and once, success requires all of them, and a step may still
finish, or even begin, after its movement was faulted and reconciled, as an
uncertain command may. `ImplementsAtomicSteps` checks the refinement (the
mapping is the identity on `motion`, `outcome`, `ran`, `done`).

### Runs

* `link`: one movement of two steps, three sequences, one fault anywhere, with the
  legacy fallback; about 960 000 states, 60 levels deep. Two steps are what the
  longest movement has. Three sequences leave one for a latch clear or a
  maintenance command after both steps, and the space runs out in this run, which
  is what `LinkTypeOK` needs. One fault reaches link loss with its latch and its
  clear, an uncertain send, a restart with a late completion, a bootstrap and a
  stop. Two faults were explored for a movement of one step only.
* `link_outputs`: an operator's output command beside a movement of one step, with
  one fault and two sequences; about 3 million states. It is here that reserved
  sequences cross, that one is given back while a later one exists, and that a
  command reaches a busy robot.

Fairness: `FairSpec` assumes only that the worker's thread is scheduled
(`WF_vars(Worker)`); Python threads are preemptive and every wait of the worker
has a deadline. Nothing is assumed of the network, the controller or the operator.
`MovementThreadEnds` therefore says that the deadline alone is enough for the thread of a
movement to end; its mutant removes the deadline. It does not say that the movement is
decided: when every completion commit loses, the thread ends without an outcome
(`EveryOutcomeIsCommitted`, section 8).

Every run of the project switches deadlock checking off: the system may stop, and a
bounded number of sequences, movements, edits and faults leaves nothing to do.

## 5. Run Mode and the mill

### `RunMode`

The settings row's Run Mode columns (`run`: enabled, token, pending action and who
asked, granted, paused, the choice for a loaded pallet), the board as Run Mode reads it
(`queue`, `loc`, `complete`), one robot transfer (`motion`), what PathPilot runs
(`mill`), and the coordinator threads `co`. A step of a thread is one database session
or one call to a controller; its `pc` names it.

| Part | Actions | Code |
|---|---|---|
| coordinator | `Prepare`, `HandleLoaded`, `Pick`, `Ask`, `Position`, `Machine`, `CheckMill`, `Send`, `Monitor`, `PauseWait`, `Transfer`, `MotionDone`, `Finish`, `Ending` | `execute_run_mode` and the functions it calls, `execute_run_mode_recovery` |
| a lost race | `ThreadConflicts` | `commit_or_conflict` and the coordinator's last handler |
| operator | `Start`, `Stop`, `Approve`, `Decline`, `CancelRecovery`, `StartRecovery`, `ClearStatus`, `ResumeManual`, `ControlMillStop`, `DebugProgram` | the handlers in `service.py` (`DebugProgram` is `run_debug_mill_program`) |
| board edits that touch a run | `QueuePallet`, `Dequeue`, `UpdatePallet`, `Relocate`, `RecoverMotion`, with `ResumeArmed` | the handlers |
| watchdog and environment | `PauseForManual`, `MillEnds`, `MotionFaults`, `Restart` | `pause_run_mode_for_manual_robot_control`, PathPilot, the robot, `interrupt_run_mode` |

Abstractions. Displayed states that nobody reads are one state "working" (`Read`,
`Shown`). The page sends an action for the loaded pallet exactly when one is in the
mill. A recovery may be cancelled only while the run is paused or faulted. A behaviour
starts with any board with at most one pallet in the mill and a queue that is
ready. The strategies that reposition or complete by hand are one job "recovery". A
start of a program over SSH is `Launches`: it may be refused, run, or run without a
reply. How a movement loses its commits is left to `PalletBoard`.
A program of the debug page may begin whenever PathPilot is idle, as often as one likes, also
while the robot is in the mill. It has a name of its own ("debug"); a thread that has not polled
since its own program ended takes the debug program for it (`Unpolled`).

* `run_mode` (two pallets, one thread, one retry, one edit): 474 000 states. Two
  pallets make the queue go on after the first, and an edit may move either.
* `run_mode_stop` (one pallet, two threads, two tokens, one edit): 2.5 million states.
  `ProgramEndsBeforeTransfer` is about the programs of Run Mode: that the mill is idle while
  the robot is in it cannot be said, because of the debug page (section 8). Two tokens are what it takes for an old and a new coordinator to meet;
  `co[c].late` counts the programs a thread began after its run was over.

`Spec` assumes weak fairness of each thread only. `StoppedThreadEnds` holds because
each wait of a coordinator looks at the token again. Nothing is assumed of the operator
or the mill: a thread waits for PathPilot in polls, and each poll reads the token.

### `MillSupervisor`

`expected` and `rows` are the ledger, `caller` the threads that dispatch, `setup` the
activation of the supervisor, `manager` and `events` the state of
`MillSupervisorManager`, `link` the connections with the frames on them, `agent` and `disk`
the agent's process and its files, `mill` PathPilot. `part` is a history
variable: what became of the program of each sequence.

| Part | Actions | Code |
|---|---|---|
| caller | `Check`, `Reserve`, `Mark`, `Transmit`, `MarkSent`, `Observe`, `Conclude`, `TimesOut`, `Release` | `_new_mill_supervisor_command`, `_dispatch_mill_supervisor_command`, `_run_cnc_cycle_via_supervisor`, `test_mill_supervisor_command_path` |
| page and operator | `Poll`, `Reconcile`, `EditEndpoint`, `Bootstrap`, `Bootstrapped`, `ChangeActivation`, `Activated`, `ActivationFails` | the handlers |
| connection workers | `Serve`, `WorkerEnds` | `_serve`, `_activate`, `_handle` |
| agent | `Connect`, `Loop` (`TakeCommand`, `Acknowledge`, `StartProgram`, `KeepActive`, `TellsRunning`, `StartFails`, `Outcome`, `Replies`) | `main` of the agent |
| environment | `Cut`, `EndProgram`, `OperatorRuns`, `AgentCrash`, `AppRestart`, `Watchdog` | TCP, PathPilot, processes |

Abstractions. All machining programs share one name, so that only the signature of
the status file tells an old completion record from a new one. "sent" stands for
accepted and running, "uncertain" also for monitoring_released, "reconciled" for the two
operator verdicts. Telemetry is delivered at once. Run Mode is off when an operator
reconciles. An operator who runs a program of the same name at PathPilot during a
command is believed: the record is the same. A behaviour has several callers without trouble, or one
caller with one trouble. Sequences are at most `MaxSequence`, so that the space runs out
within a run.

`OneProgramPerCommand` says that a program is begun after it is recorded, once, never
beside another, and is reported finished only if it finished.
`ImplementsOneProgramPerCommand` maps a row's status to the verdict.

* `mill`: two callers of machining programs, two sequences, one trouble.
* `mill_answers`: one command of each kind under `FairSpec`. `VerdictArrives`: what the
  agent has on disk reaches the application. `AlignmentReturns`: the sequences agree
  again. Fairness: caller threads, connection workers and the agent's loop are
  scheduled, PathPilot's programs end, the watchdog looks every five seconds, the page
  polls, and an operator reconciles a command he is asked about. Nobody has to begin a new
  command.

## 6. Recovery, schedule and telemetry

### `GuidedRecovery`

`settings` (run, halted, verified, maintenance), `motion`, `board` (the recorded place of
the pallet), `command` (the last row of the ledger), `cell` (where the pallet is and what
the arm does), `robot`, `mill`, `sessions`, and `threads` with their private reading of the
settings row. Every commit is a step: `Place`, `Verdict` and `ClearLatch` are the three
commits of a reconciliation, and everything else may come between them.

| Part | Actions | Code |
|---|---|---|
| session | `StartRecovery`, `InsertSession`, `Answer`, `CancelSession` | `start_system_recovery`, `answer_system_recovery`, `cancel_system_recovery` |
| reconciliation | `Safety`, `StopRun`, `EndRun`, `Place`, `Verdict`, `ClearLatch`, `Command`, `MillCommand`, `Decide` | `answer_system_recovery`, `_reconcile_recovery_*` |
| services | `BeginServices`, `RobotLink`, `RobotWait`, `MillLink`, `Judge`, `Rebuild`, `MillProgram`, `Finish` | `auto_recover_controller_connections`, `_rebuild_generated_programs_for_recovery` |
| bootstrap | `Mark`, `StopScript`, `SendScript`, `Connect`, `Restore`, `BootFails` | `bootstrap_robot_supervisor` |
| other actors | `WatchdogActs`, `RunDebugProgram`, `AwaitProgram`, `ReconnectRobot`, `AlignRobot`, `EnterMaintenance`, `LeaveMaintenance`, `RestartListener`, `StartMotion`, `StartRun` | the handlers and the watchdog |
| cell, links | `StepEnds`, `Hears`, `Superseded`, `Poll`, `RobotConnects`, `RobotDrops`, `RobotFaults`, `PendantStops`, `RunFaults`, `MillDrops`, `Restart` and others | robot, mill, network, start-up |

Abstractions. `verified` stands for enabled and activation_verified. The commands a
bootstrap dispatches, `set_maintenance` and the command of `run_debug_program` are one
step each; a debug program moves no pallet. The thread that worked a movement is reduced
to what it commits. The operator is truthful and looks at a cell that stands still.
The mill's link is up, stale or down; Run Mode is on, off or halted. The watchdog
may act whenever its conditions hold, and the link may be reset at any time it is not
up: delays, grace periods and attempt limits only restrict this.

Bounds: `Answerers` (the requests that answer sessions; the others start one or use the
robot), `Verified` (the initial flag; both values in the liveness run), `Bases` (where the
pallet is when an operator begins anything but a movement: the pool in the safety run, whose
property is about movements; anywhere in the liveness run), one movement, run or other command,
one trouble, `MaxEvents` both together.

* `recovery`: two requests and two sessions, 2.5 million states. Two are what a race of
  two answers, of a start with an answer, or of a debug program with a session needs.
* `recovery_ends`: one request and the watchdog, 730 000 states. `RecoveryEnds` says that a
  session whose operator keeps answering ends, or reaches a state for which recovery
  offers no choice (section 8). Fairness: threads run, devices go on, the watchdog acts,
  and the operator answers infinitely often if he is asked infinitely often (`SF`: the
  questions may be withdrawn and asked again). Behaviours in which watchdog recoveries
  never end are excluded by the premise: 30 s lie between two of them, and a session needs
  less.

### `ToolPlan`

`simulate_tool_plan`, the exact search, the greedy orders, the local improvement and the
order that is put back into the queue are functions of the module; the pairs
of the improvement are its steps (`Preview`, `TryPair`, `EndPass`, `Apply`).
`CheapestMovements` is the reference: a search over every order and every choice
of what to take out. The limits are smaller than the code's (`Baseline` 2 for 16,
`ExactLimit` 3 for 8, `MaxPasses` 2 for 5), so that queues of four pallets (one more than the
exact search takes) meet a full changer and the second branch. `Apply` leaves out the
refusals by a locked movement, which are in `PalletBoard`. 122 000 states.

### `Telemetry`

The stream of a CB-series controller: `readers` (threads with their socket), `stream` (the
module's globals), `cooling`, `suspended`, `lock`, `refreshers`, `cache`, `refreshing`,
`clearing`. A reader that was superseded keeps running and writes as the code lets it.

| Part | Actions | Code |
|---|---|---|
| reader | `Receives`, `Stores`, `Breaks`, `Ends` | `_legacy_realtime_reader` |
| refresh | `Begin`, `Look`, `Connect`, `ConnectFails`, `Awake`, `WriteBack` | `read_robot_snapshot`, `_read_legacy_realtime_sample`, `_start_legacy_realtime_reader`, `_refresh_robot_telemetry` |
| page, operator | `Ask`, `Reset`, `RetryClears`, `ClearCache`, `Suspend`, `Relaunch` | `_cached_robot_telemetry`, `retry_robot_telemetry`, `reset_robot_connections`, `suspend_robot_connections` |
| environment | `ConnectionLost`, `NetworkFails`, `NetworkReturns`, `StreamAges`, `CoolingEnds`, `CacheExpires` | network and time |

A reader that ended leaves its last packet behind. A read that finds this packet still fresh
starts a new reader all the same, which clears the packet, and so raises and cools down
(1178-1179, 1199): `Look` then leads to the phase "replace", which only fails. `SuspendedIsSilent` is about
the realtime stream: the one-shot Modbus sessions for outputs (436, 472, 522) are not modelled and do not
look at the suspension.

One controller, two refresh and two reader threads, two events; 196 000 states. Two readers are a
superseded one and its successor; two refreshers are one that holds the lock and one that
waits. A shutdown is followed by a relaunch. A stream that delivers never ages.
Fairness: threads run, the lock is given to everyone who waits (`SF` of `Begin`), delays end
(`SF` of `CoolingEnds`, because a failed read begins a new one), pages go on asking, network
and backend come back. `TelemetryRecovers` then says that the page shows live data again
and again.

## 7. Proofs

### The board

`PalletBoardProofs.tla` proves every safety property of the module, for every finite set of pallets, every pool
size, physical or simulated, with or without the debug menu. The only assumption is `BoardAssumption`
on the constants.

The safety invariants are not inductive one by one. `SlotsExclusive` needs to know
that a locked movement's destination is the one its pallet reserved, and that
needs the shape of the motion record. The inductive invariant is

    BoardInv == TypeOK, RowShape (the three columns of a row agree),
                SlotsExclusive, OnePalletPerPlace, NoForgottenReservation,
                MotionShape (a locked motion matches the row of its pallet),
                MotionKeepsItsSlots, WorkerHasMotion

`ClaimsInsidePool` and `HeldPalletCanReturn` follow from it.

The proof has one lemma per group of actions of `Next` (`BoardNextSafe`,
`QueueNextSafe`, `ModeNextSafe`, `StartsSafe`, `RecoverySafe`, `LiftSafe`, `FinishSafe`,
`RestartSafe`). They rest on a few facts about one change of a row: `Relocation` (a
pallet moved to an open position keeps the claims exclusive), `StillStep` (a step
that moves nothing keeps the invariant), `CommandStep` and `SettledStep` (a movement
starts, a movement is decided). `BoardImplementsPool` maps each step to a take, a
release, a resize or a stutter of `PoolAllocation`.

The queue is a separate argument, about counting. `QueueIsContiguous` with `TypeOK` is
inductive: positions that fill 0 to n-1 for n rows are distinct (`FilledIsDistinct`, a
surjection between sets of one size), distinct positions give distinct ranks below
the number of rows (`RankOrder`), and distinct positions below the number of rows are all of
them (`DistinctFills`, an injection between sets of one size). So what `compact_queue`,
`Inserted` and `reorder_queue` write is again contiguous, and the rest of the proof is
that no step takes a queued row away without taking it out of the queue.

The two action properties have one argument: every step moves a row for one of the reasons
in `MovedRightly` and edits the queue as `QueueEditRight` says (`EveryStepRight`, one
lemma per group of actions, from `BoardInv`). `LockedPalletStays` and
`MillPalletLeavesByRobot` read their property off it.

### The supervisor link

`LinkProofs.tla` and `LinkSafety.tla` prove six properties of `SupervisorLink` for every
number of movements, steps per movement, sequences and faults, from the assumption
`SupervisorLink` states on its constants. The invariant `LinkInv`
is built in layers, each kept with the help of the ones before it:

* `LinkTyped`, `WireOK`, `CallersOK`, `FramesOK` (`LinkBasics`, in `LinkProofs`): the types; bytes
  travel only to a program that runs and listens; a thread's sequence is its
  own and its row describes its command; every frame towards the robot, and the command
  it holds, is recorded and was sent. `LinkIsTyped` and `LedgerIsComplete` follow.
* `StepsOK`: a step is begun at most once, and one that its thread has not yet
  commanded is neither begun nor awaited (`Unbegun`, `Frontier`). `NoStepRunsTwice` alone
  is not inductive: a frame on its way must exclude that its step was begun already.
* `ReportsOK`, `OrderOK`: a report of "completed", or of "latched, link lost", wherever it
  is (the robot, its unsent report, a frame, the manager's events), is of a step that is
  done; a step is commanded when the one before it is done.
* `InterruptedOK`: after a restart nobody sends the steps of the interrupted movement
  any more, and "completed" for it is only heard of a step that is done. This is what the pieced-together
  report after a restart rests on, and with it `SuccessMeansDone`.
* `UndisturbedOK`: without a fault nothing replaces a program that moves, for `StepInProgressIsKept`.

`LinkImplementsAtomicSteps` maps each step to a begin, an end, a verdict or a stutter of
`AtomicSteps`; the layers above are exactly what its guards ask for.

### Run Mode

`RunModeProofs.tla` proves the type invariant, `OneCoordinator`, `ProgramEndsBeforeTransfer`, `OverIsOver`,
`CompletionIsEarned` and `OneRunPerRequest` for any finite set of pallets, any set of threads and any
bound on runs, edits and retries. `RunModeAssumption` also asks that no pallet is called "none",
"position" or "debug", the values `mill.program` takes beside pallets. The invariant `RunInv` is in `RunMode.tla`:

* `RunTyped`, `TokensOK`: a token is handed out once, so a live thread is the only one with its
  token, and an armed run has no thread. `OneCoordinator` follows.
* `LegsOK`: which pallet a thread has in hand, and at which points of the cycle each leg can be.
  A prompt that a thread reads back says what the thread asked.
* `LateOK`: a thread that began a program after its run was over is at the mill and without its
  token, so it begins no other. `OverIsOver` follows.
* `MotionOK`, `StayOK`: the locked motion is one thread's, with that thread's pallet; the thread
  of the run in force does nothing else meanwhile; and the pallet the run machines or unloads stays in the mill.
* `MillOK`: while the run in force is about to move the robot, no program of its own runs; one of the debug
  page may. `ProgramEndsBeforeTransfer` follows.
* `EarnedOK`: a pallet that the queue's cycle unloads was machined in this stay, also when the thread
  watches a debug program in place of the pallet's own. `CompletionIsEarned` follows.
* `FreshOK`: a program that is about to be begun was not begun since it was asked for. `OneRunPerRequest` follows.

For each action one `...Fields` lemma says what it does to the records; one lemma per part says
what it means for the thread that takes the step, for the other threads (`OthersIdle`) and for a step that
is no thread's (`OperatorIdle`). Every part is also an invariant TLC checked, on the
constants of `run_mode` and of `run_mode_stop`.

### The mill supervisor

`MillProofs.tla` proves `MillTypeOK` and the refinement of `OneProgramPerCommand` for any finite
sets of callers and connections, any size of the sequence space and any number of troubles,
from `MillAssumption`. The invariant `MillInv`, in `MillSupervisor.tla` beside the properties:

* `MillTyped`, `LinksOK`: a connection begins with one HELLO, and one whose worker is done is
  cut and empty.
* `CallersOK`: a thread's sequence is its own, and its row is "created" exactly until it is marked.
* `WiresOK`: a command on its way is marked and is on its way once; every report is of a command
  that was sent. `TakenOK`: so is what the agent took, which is on its disk.
* `OnceOK`: the sequence the agent took last is not on its way, one that is about to be sent is neither
  on its way nor taken, and the program of the command in hand was not begun. Commands may
  overtake each other: one that comes late has a sequence the agent is past, and is answered only.
  Without this part "begun at most once" is not inductive.
* `RunningOK`, `WatchOK`: what PathPilot runs is what the history says; the completion record is of
  the watched program or of an operator's, so that a fresh record that says "completed" is its own.
* `ClaimsOK`: every verdict, on disk, in a frame, at the manager, in its events or in the ledger,
  is of a marked command, and "completed" of a program that ended.

One lemma per action keeps all parts. Three cover most of them: `QuietStep` (the agent writes or
loses its connection and changes nothing but its own records), `RestatesKeeps` (a row gets another
status) and `ManagerKeeps` (the application hears something). `MillImplementsOneProgram` maps each
step: a row leaving "created" is Record, a row that becomes "completed" is Report, one that loses
that status again is Forget; a program of a command begins in `StartProgram` and ends in
`EndProgram`; everything else is a stutter.

### Guided recovery

`RecoveryProofs.tla` proves `RecoveryTypeOK` and `VerdictMatchesCell` for any sets of requests,
watchdogs and sessions and any number of troubles and commands, from `ThreadsDiffer` and
`VerifiedIsBoolean`. What has to be shown is that an operator's answer is still true
when it is committed, three commits later, although the robot, a late result, another
session or the watchdog may have come between. The invariant `RecoveryInv`, in `GuidedRecovery.tla`:

* `RecoveryTyped`: the types, and one session in each active status.
* `MotionOK`: a movement stays locked as long as the robot may carry out one of its steps; without
  one the pallet is recorded where it is. The latest command, when it moves the pallet, is the first or
  the last step of that movement.
* `StepOK`: the pallet is at an end of the step commanded last, at its start while it is
  carried out, and at its end when the robot knows of a result.
* `VerdictOK`: a verdict says where the pallet went.
* `ThreadsOK`: a thread whose settings row is the latest, and that has not used its answer
  yet, knows the cell as it is (`Looked`); one between the commit of the movement and the verdict
  holds an answer whose verdict is true (`Judges`). This is the part that makes
  `VerdictMatchesCell` inductive, and it is what the revision of the settings row is for: each
  action that moves the pallet or gives a command either makes every other thread's row out of date
  (`Bumps`, `BumpedByOthers`), or cannot be taken while a thread has looked, because the cell stood still. A new
  program of a bootstrap (`SendScript`) commits nothing: it is of the second kind.

Most actions leave the cell alone and are covered by `Routine` (no thread learns anything), `NewOrder` (a
command that moves nothing becomes the latest) and `KeptKeeps` (a step is cut short, a movement faults, a
command becomes uncertain). `AnswerKeeps`, `PlaceKeeps` and `JudgedRight` are the operator's look, the commit of
what he saw and the verdict. Every part is an invariant TLC checked on the constants of both runs.

### The automatic schedule

`ToolPlanProofs.tla` proves `PreviewKeepsQueue`, `AppliedPlanIsFinal` and `PlanIsCheapest` for any
queue, any changer, any tools, any baseline capacity and any limit of the exact search and of the improvement, from
`PlanConstants`: so for the code's 8 jobs and 16 positions too, where TLC checks 3 and 2. The
invariant `PlanInv`, in the module of the proofs, was checked by TLC on the constants of `tool_plan` first:

* `PlanTypeOK`, `PairInRange`: each pallet has its own number, and the pass over the pairs stays within the queue.
* `PlanIsOrder`: a plan is an order of the queue's own jobs and moves no more tools than the queue.
  The improvement keeps it, because a swap is kept only when it makes the plan better.
* `ExactIsFinal`: no order is better than an exact plan while it is shown, nor than the queue
  after it was applied. Since "better" is a strict total order of the orders (`BetterOrder`), the next plan is
  the queue itself. What has to be shown is that the new positions that break the ties favour the
  plan that was applied (`AppliedIsFinal`).

The three properties then rest on facts about the operators, which are recursive functions: TLA+
makes such a function a `CHOOSE`, and `Iterates` shows, by induction over a set of numbers
(`NatInduct`), that there is one to choose.

* `OneJob`, `Simulation`: for each job exactly as many tools are taken out as do not fit, all of them are there
  and unused by the job, and nothing overflows.
* `FurthestIsCheapest`, `MovementsAreCost`: for a given order nothing is cheaper than to take
  out the tool whose next use is furthest away, not even bringing tools in early or taking out more
  than needed. `cost[k][loaded]` is what the last k jobs cost at least; the argument exchanges
  one tool at a time (`SoonerIsBetter`: a changer that holds the tool needed sooner costs no
  more; `CostDetour`: a detour never pays).
* `LeastEquation`, `SolutionIsLeast`: the reference `CheapestMovements`, which chooses job by job, is the least cost
  of any order. It is the only solution of its equation, by well-founded induction over the sets of jobs.
* `GreedyOrder`, `CandidatesTyped`, `BestOfBest`: the greedy search ends with an order of all jobs, the
  queue's own order is among the candidates, and the best of finitely many candidates exists.
* `PlaceNumbers`, `FilledQueue`: the places of the jobs are numbered without gap, so putting the
  plan back keeps every pallet, and the jobs of the new queue are the plan.

### Telemetry

`TelemetryProofs.tla` proves `TelemetryTyped`, `OneStreamHolds`, `SamplesAreOfThisStream` and
`SuspendedStaysSilent` for any sets of readers and refresh threads and any number
of events, from `TelemetryConstants`. The inductive invariant `StreamInv` adds
`NobodyElse` to the three properties and the types: while a caller opens a connection nobody
owns the stream, and a suspended backend has no caller in a read. Without the first
part, `Connect` could be taken beside an open connection; without the second, a
refresh could connect after the shutdown closed everything. Both rest on the
lock, which `ReadTypeOK` ties to the refreshers' phases. `DisconnectedIsSilent`, a lemma
on `_disconnect_legacy_realtime`, is used for each action that calls it.

### Only model-checked

Liveness under fairness (`MovementThreadEnds`, `StoppedThreadEnds`, `VerdictArrives`, `AlignmentReturns`,
`RecoveryEnds`, `TelemetryRecovers`). Liveness and `ENABLED` are outside what the prover handles.
The modules with proofs use no recursive operator: what recurs is a function. How good the
local improvement of a long queue is, beyond never being worse than the queue, is neither checked nor proved.

## 8. What the code does not keep

The first entry has a run and a counterexample. The definitions in brackets state others and
stay in their modules without a run. To see a counterexample, copy a cfg of the same module,
name only that definition under INVARIANTS (or PROPERTIES when it is temporal, with `FairSpec`
where the module has one) and run TLC. The rest was read in the code, and nothing was checked.

**Board and movements.**
* A reliability test and a movement can both start (comment at `service.py` 4204-4205;
  `ReliabilityExcludesMotion`, run `board_reliability`).
* A worker whose commits all lose ends without committing an outcome (docstring at 7010; the last
  attempt is at 7238; `EveryOutcomeIsCommitted` with two pallets and no debug menu). The movement stays requested
  or running until a restart faults it.
* A load recovered as "machine" leaves the pallet queued (`README.md` 114-115;
  `MillPalletIsNotQueued`).
* After a recovery as "robot held" another pick can be commanded (`models.py` 193-198;
  `PickWithEmptyGripper`).
* The debug signal moves the pallet in the mill during Run Mode or a movement (9987).
* A faulted reliability cycle leaves the board saying "pool" while the pallet may be held.

**Robot link.**
* `robot_supervisor_status` pairs the sequence of telemetry with the event of the command
  before, and completes a row whose step was not begun (comment at 5711-5712;
  `CompletedMeansFinished`).
* The motion interlock (3967-4025) can judge a jogged robot still from two samples of one packet.

**Run Mode.**
* A manual pause recorded just after the coordinator looked for one does not hold the robot
  (text at 7412, docstring at 7423; `NoRobotWhileTaught`). `_run_mode_allows_robot_reconnect`
  (3564) is true only after approval.
* A mill program may still begin once after Stop (`README.md` 251; 7588-7590); `OverIsOver`
  bounds this to the one that was about to be sent.
* `retry_robot_only` and `reposition_and_retry` mark a pallet complete although its program did
  not complete (`README.md` 231-238; about 8587). `CompletionIsEarned` excepts them.
* A pallet dequeued or reordered while its load awaits confirmation is still loaded (8800).
* Statuses are written over "stopped" and "idle_waiting_queue" (8813); a final commit that
  conflicts leaves the run enabled with no thread (7261); `dequeue_pallet` does not wake an
  armed run, and `queue_pallet` wakes it in a second commit that may be lost (9213).
* `run_debug_mill_program` (9807) looks at neither Run Mode nor the movement, so that its program
  may begin while the robot is in the mill (`DebugProgram`, the named exception of
  `ProgramEndsBeforeTransfer`), or be watched by the coordinator as its own.

**Mill link.**
* A sequence reserved and never sent leaves the ledger one ahead; reconciling does not realign it
  (1252, text at 7754; `ReconcilingRealigns`).
* A start that succeeded and whose report failed is recorded faulted while the program cuts
  (agent 322, `README.md` 258-260; `FaultedHasStopped`).
* The agent's receive buffer (243) is not cleared when it reconnects. A bootstrap leaves the
  supervisor enabled with execution disabled.

**Recovery.**
* A movement can be commanded during a bootstrap (comment at 5899-5900, `_assert_motion_ready`
  4142-4182; `NoDispatchDuringBootstrap`), and the second program of a bootstrap may replace the
  script under it.
* `uq_active_recovery_session` is unique on the status: a session in another active status may
  exist beside the first. An answered request can overwrite "cancelled".
* A latch left by a process that ended between verdict and clear, or sequences that differ, get an
  instruction but no choice: the session cannot leave "handoff". `RecoveryEnds` names these states.
* The last commit of a bootstrap conflicts with any edit of the board and leaves the
  maintenance flag on; two bootstraps restore each other's flag; the watchdog and a session
  may fight. An operator's disable is overwritten when a reservation is retried; automatic
  recovery clears the operator's Maintenance Mode.
* A restart of the mill helper or of the listener is decided from an old run flag (4475, about 4718).
* The final approval does not look at the cell again, and an answer is not bound to the movement
  that was displayed.

**Telemetry.**
* The cooldown counts from before a read of up to 8 s (`robot_rtde.py` 1497-1528), so that it may
  be over when the read fails (comment at 166-167).
* After a long silence an old error-free snapshot is returned without a mark (3344-3354).
* A retry clears the refreshing flag while a refresh runs, and a refresh that ended its read
  can write data from before a reset into the cleared cache.
* A read that finds the fresh packet of a reader that ended discards it, raises and costs a
  cooldown (1178-1199).
* The Modbus sessions for outputs (436, 472, 522) connect also while connections are suspended.

## 9. Not modelled

* Production timers: elapsed seconds that each handler adds in its own transaction; nothing is
  commanded from them. Backup and restore: copies of the database file.
* Cameras, file transfer and program text, parsing of LinuxCNC status, the tool table, HTTP routes,
  validation, diagnostics, migrations, the browser front end.
* RTDE, Modbus, the dashboard and packet decoding of the robot; frame decoding, heartbeats
  and the limits on retained events of both supervisors; corrupt frames and unknown opcodes.
* The cycles of the reliability test (its start and what it excludes are in `PalletBoard`), the
  simulated robot in Run Mode, taught positions, runtimes and the alert text.
* The watchdog's delays and attempt limits, the stack light, the legacy latch path of recovery.
* SQLite: a commit is atomic and durable.

## 10. How to run

    tlc -workers 2 -config PalletBoard.cfg MCPalletBoard.tla
    tlc -workers 2 -config SupervisorLink.cfg SupervisorLink.tla
    tlc -workers 2 -config RunModeStop.cfg MCRunMode.tla
    tlc -workers 2 -config GuidedRecoveryEnds.cfg GuidedRecovery.tla
    tlapm PalletBoardProofs.tla
    tlapm LinkSafety.tla
    tlapm RunModeProofs.tla
    tlapm MillProofs.tla
    tlapm RecoveryProofs.tla
    tlapm ToolPlanProofs.tla
    tlapm TelemetryProofs.tla

`PROJECT.json` names the module and the cfg of every run; none takes more than
five minutes.

Definitions whose names end in `_Something` and are commented "Faulty variant" are
plausible mistakes. Substituting one for the definition after it must break
the property that `PROJECT.json` pairs it with.
