--------------------------- MODULE GuidedRecovery ---------------------------
(***************************************************************************)
(* Guided system recovery (service.py 4307-5703): the persisted session an *)
(* operator answers step by step, the reconciliation of an interrupted     *)
(* pallet movement and of its command, the automatic recovery of the two   *)
(* controller connections, the bootstrap of the robot's supervisor script, *)
(* and the watchdog that runs the same recovery without an operator.       *)
(*                                                                         *)
(* Requests and the watchdog are threads.  A thread works on the settings  *)
(* row it read first (the ORM keeps it across commits), so its commit is   *)
(* refused when another one came between; other rows are read anew.  The   *)
(* cell is what an operator sees: where the pallet is and whether the      *)
(* robot moves.                                                            *)
(***************************************************************************)
EXTENDS Naturals, Sequences, FiniteSets, SequencesExt

CONSTANTS
  Requests,       \* request threads of the web application
  Answerers,      \* bound: those that answer a session; the others start one or use the robot
  Watchdogs,      \* the thread of start_robot_supervisor_recovery_watchdog, or none
  Verified,       \* bound: whether the supervisor was verified when the behaviour begins
  Sessions,       \* identifiers of recovery sessions
  Bases,          \* bound: where the pallet is when an operator begins anything but a movement
  MaxTroubles,    \* bound: failures of the environment
  MaxStarts,      \* bound: movements and runs started, and other commands of the operator
  MaxEvents       \* bound: both together

ASSUME ThreadsDiffer == Watchdogs \cap Requests = {} /\ Answerers \subseteq Requests
ASSUME VerifiedIsBoolean == Verified \subseteq BOOLEAN

VARIABLES
  settings,       \* run, halted, verified, maintenance: columns of app_settings
  motion,         \* the locked row of robot_motions: op, status, restarted
  board,          \* the pallet's recorded place
  command,        \* the latest robot_supervisor_commands row: op, moves, status
  cell,           \* physical: at, where the pallet is; doing, the step in progress
  robot,          \* link, latched, gap, program, knows: controller and manager
  mill,           \* link, verified, pending, gap, cycle
  sessions,       \* recovery_sessions: status, and whether retry was ever acknowledged
  threads,        \* what each thread is doing
  troubles, starts

vars == <<settings, motion, board, command, cell, robot, mill, sessions, threads, troubles, starts>>

Trouble == troubles < MaxTroubles /\ starts + troubles < MaxEvents /\ troubles' = troubles + 1

Operated == starts < MaxStarts /\ starts + troubles < MaxEvents /\ starts' = starts + 1

\* A command that moves no pallet.
Commanded == Operated /\ board \in Bases

Threads == Requests \cup Watchdogs
Places  == {"pool", "gripper", "mill"}
Links   == {"live", "stale", "down"}
Active  == {"awaiting_safety", "running", "handoff", "ready"}
Statuses == Active \cup {"none", "completed", "cancelled"}

-----------------------------------------------------------------------------
(* Movements, their steps and what an operator can say of them.            *)

Steps == [pick |-> <<"pick_pool">>, put |-> <<"put_pool">>,
          load_mill |-> <<"pick_pool", "load_mill">>,
          unload_mill |-> <<"unload_mill", "put_pool">>]
Motions == DOMAIN Steps
From == [pick_pool |-> "pool", put_pool |-> "gripper", load_mill |-> "gripper", unload_mill |-> "mill"]
To   == [pick_pool |-> "gripper", put_pool |-> "pool", load_mill |-> "mill", unload_mill |-> "gripper"]

\* align_robot_for_pallet_pick turns the fork where it is.
Align == "align_pallet_pick"
Before(step, place) == IF step = Align THEN place ELSE From[step]
After(step, place)  == IF step = Align THEN place ELSE To[step]

\* Faulty variant: a load that reached the mill is not among the choices.
MotionOptions_NoMachine ==
  [pick |-> {"source_pool", "robot_held"}, put |-> {"robot_held", "destination_pool"},
   load_mill |-> {"source_pool", "robot_held"}, unload_mill |-> {"robot_held", "destination_pool"}]

MotionOptions ==
  [pick |-> {"source_pool", "robot_held"}, put |-> {"robot_held", "destination_pool"},
   load_mill |-> {"source_pool", "robot_held", "machine"},
   unload_mill |-> {"machine", "robot_held", "destination_pool"}]

\* What an operator who looks at the cell answers.
Seen(op, place) ==
  CASE place = "gripper" -> "robot_held"
    [] place = "mill"    -> "machine"
    [] OTHER -> IF op \in {"pick", "load_mill"} THEN "source_pool" ELSE "destination_pool"

RecordedPlace(resolution) ==
  CASE resolution = "robot_held" -> "gripper" [] resolution = "machine" -> "mill" [] OTHER -> "pool"

CompletedBy ==
  [pick_pool |-> {"robot_held", "machine", "destination_pool"}, put_pool |-> {"destination_pool"},
   load_mill |-> {"machine"}, unload_mill |-> {"robot_held", "destination_pool"}]

NoMotion == [op |-> "none", status |-> "none", restarted |-> FALSE]

\* Faulty variant: an unload that ended in the pool is not counted.
SupervisorOperationCompleted_HeldOnly(operation, resolution) ==
  operation \in DOMAIN CompletedBy /\ resolution \in CompletedBy[operation] \ {"destination_pool", "robot_held"}

SupervisorOperationCompleted(operation, resolution) ==
  operation \in DOMAIN CompletedBy /\ resolution \in CompletedBy[operation]

-----------------------------------------------------------------------------
(* Threads and their view of the settings row.                             *)

Handling == {"safety", "stop_run", "end_run", "place", "verdict", "latch", "command", "mill", "decide"}
Services == {"services", "robot_link", "robot_wait", "mill_link", "judge", "rebuild", "mill_program", "finish"}
Bootstrap == {"mark", "stop_script", "send_script", "connect", "restore"}
Pcs       == {"idle", "insert", "await_program"} \cup Handling \cup Services \cup Bootstrap

\* sid, status: the session being answered and its status as this thread knows it
\* chooses: the operator answered the displayed questions; look: where he saw the pallet
\* run, halted, fresh: the settings row the thread read, and whether it is still the latest
\* then: where the thread goes on after a bootstrap; orig: what a failed bootstrap restores
Idle == [pc |-> "idle", sid |-> "none", status |-> "none", chooses |-> FALSE, look |-> "pool",
         run |-> FALSE, halted |-> FALSE, fresh |-> FALSE, handled |-> FALSE, calm |-> FALSE,
         deferred |-> FALSE, said |-> "none", then |-> "idle",
         orig |-> [verified |-> FALSE, maintenance |-> FALSE]]

Reading == [Idle EXCEPT !.run = settings.run, !.halted = settings.halted, !.fresh = TRUE]

At(t, pc)    == threads[t].pc = pc
\* What a thread has no more use for is forgotten.
On(th, pc)   ==
  IF pc = "idle" THEN Idle
  ELSE IF pc \in Services THEN [th EXCEPT !.pc = pc, !.chooses = FALSE, !.look = "pool", !.handled = FALSE,
                                          !.said = "none", !.then = "idle", !.orig = Idle.orig]
  ELSE [th EXCEPT !.pc = pc]
Goes(t, pc)  == threads' = [threads EXCEPT ![t] = On(@, pc)]
Others(t)    == [u \in Threads |-> IF u = t THEN threads[u] ELSE [threads[u] EXCEPT !.fresh = FALSE]]

\* Bumping the revision: every other thread's settings row is out of date, the committer's is not.
Bumps(t, new) == threads' = [Others(t) EXCEPT ![t] = new]
BumpedByOthers == threads' = [u \in Threads |-> [threads[u] EXCEPT !.fresh = FALSE]]

-----------------------------------------------------------------------------
(* What _recovery_observe finds.                                           *)

Unresolved     == command.status \in {"sent", "uncertain"}
ActiveMotion   == motion.status = "active"
LockedMotion   == motion.status # "none"
Connected      == robot.link # "down"
RobotUncertain == robot.latched \/ Unresolved \/ (Connected /\ robot.gap # "none")
MillUncertain  == mill.pending \/ (mill.link # "down" /\ mill.gap)
RunFault(th)   == th.halted /\ board = "mill"
Handoff(th)    == LockedMotion \/ th.run \/ RunFault(th) \/ RobotUncertain \/ MillUncertain

\* A result the robot still knows of; every status read applies it first (Poll).
Reported == Connected /\ robot.knows /\ robot.gap = "none" /\ command.status = "uncertain"

\* Recovery offers no choice for a latch without an open command, nor for sequences that differ.
Orphaned == \/ RobotUncertain /\ ~Unresolved /\ ~LockedMotion
            \/ MillUncertain /\ ~mill.pending

\* _repairable_supervisor_maintenance_gap: only a bootstrap's own command that the robot never recorded.
Repairable == /\ Connected /\ ~robot.latched /\ robot.gap = "maintenance" /\ cell.doing = "none"
              /\ command.op = "bootstrap_restart" /\ ~Unresolved

-----------------------------------------------------------------------------
(* Sessions.                                                               *)

\* Faulty variant: the migration did not create the index.
IndexAllows_Always(s, status) == TRUE

\* The unique index of recovery_sessions is on the status.
IndexAllows(s, status) ==
  status \in Active => \A o \in Sessions \ {s} : sessions[o].status # status

\* _save_recovery: the ORM writes only a status that differs from the one it knows; a refused
\* insert or update ends the request.
Saves(t, status, pc) ==
  LET s == threads[t].sid
      written == IF status = threads[t].status THEN sessions[s].status ELSE status
  IN  IF IndexAllows(s, written)
      THEN /\ sessions' = [sessions EXCEPT ![s].status = written]
           /\ threads' = [threads EXCEPT ![t] = On([@ EXCEPT !.status = status], pc)]
      ELSE UNCHANGED sessions /\ Goes(t, "idle")

Keeps(t) == Saves(t, threads[t].status, "idle")

\* An exception in the services phase is recorded as a handoff; the watchdog only logs it.
Raises(t) == IF t \in Watchdogs THEN Goes(t, "idle") /\ UNCHANGED sessions ELSE Saves(t, "handoff", "idle")

StartRecovery(t) ==
  /\ At(t, "idle") /\ \A s \in Sessions : sessions[s].status \notin Active
  /\ Goes(t, "insert")
  /\ UNCHANGED <<settings, motion, board, command, cell, robot, mill, sessions, troubles, starts>>

\* Identifiers are random, so any unused one stands for the next.
Unused == {s \in Sessions : sessions[s].status = "none"}
NextId == CHOOSE s \in Unused : TRUE

InsertSession(t) ==
  /\ At(t, "insert") /\ Unused # {} /\ IndexAllows(NextId, "awaiting_safety")
  /\ sessions' = [sessions EXCEPT ![NextId].status = "awaiting_safety"]
  /\ Goes(t, "idle")
  /\ UNCHANGED <<settings, motion, board, command, cell, robot, mill, troubles, starts>>

InsertRefused(t) ==
  /\ At(t, "insert")
  /\ \A s \in Unused : ~IndexAllows(s, "awaiting_safety")
  /\ Goes(t, "idle")
  /\ UNCHANGED <<settings, motion, board, command, cell, robot, mill, sessions, troubles, starts>>

CancelSession(s) ==
  /\ sessions[s].status \in Active
  /\ sessions' = [sessions EXCEPT ![s].status = "cancelled"]
  /\ UNCHANGED <<settings, motion, board, command, cell, robot, mill, threads, troubles, starts>>

FirstPc(status) ==
  CASE status = "awaiting_safety" -> "safety" [] status = "handoff" -> "stop_run" [] OTHER -> "services"

\* The operator looks at a cell that stands still, and answers the questions shown or not.  Confirmations
\* stay with the session (answers_json); all but "retry" are asked for in the state that needs them.
Answer(t, s, confirms, chooses) ==
  LET row == sessions[s]
  IN  /\ At(t, "idle") /\ row.status \in Active /\ cell.doing = "none"
      /\ row.status \in {"awaiting_safety", "ready"} => confirms
      /\ row.status # "handoff" => ~chooses
      /\ sessions' = [sessions EXCEPT ![s].retry = @ \/ (row.status = "handoff" /\ confirms),
                                      ![s].status = IF @ = "ready" THEN "completed" ELSE @]
      /\ IF row.status = "ready" THEN UNCHANGED threads
         ELSE threads' = [threads EXCEPT ![t] =
                [Reading EXCEPT !.pc = FirstPc(row.status), !.sid = s, !.status = row.status,
                                !.chooses = chooses, !.look = IF chooses THEN cell.at ELSE "pool"]]
      /\ UNCHANGED <<settings, motion, board, command, cell, robot, mill, troubles, starts>>

Safety(t) ==
  /\ At(t, "safety") /\ ~Reported
  /\ IF Handoff(threads[t]) THEN Saves(t, "handoff", "idle") ELSE Saves(t, "running", "services")
  /\ UNCHANGED <<settings, motion, board, command, cell, robot, mill, troubles, starts>>

-----------------------------------------------------------------------------
(* The reconciliations of a handoff, in their order.                       *)

\* A choice the operator was asked for and did not make keeps the session where it is.
NotChosen(t) == ~threads[t].chooses /\ Keeps(t) /\ UNCHANGED <<settings, motion, board, command, cell, robot, mill, troubles, starts>>

\* A stale settings row: the reconciliation's commit is refused and the request with it.
Refused(t) == /\ threads[t].chooses /\ ~threads[t].fresh /\ Goes(t, "idle")
              /\ UNCHANGED <<settings, motion, board, command, cell, robot, mill, sessions, troubles, starts>>

Chosen(t) == threads[t].chooses /\ threads[t].fresh

Passes(t, pc) == Goes(t, pc) /\ UNCHANGED <<settings, motion, board, command, cell, robot, mill, sessions, troubles, starts>>

\* stop_run_mode, and cancel_run_mode_recovery when nothing is moving or in the mill.
StopRun(t) ==
  /\ At(t, "stop_run") /\ ~Reported
  /\ \/ ~threads[t].run /\ Passes(t, "end_run")
     \/ threads[t].run /\ (NotChosen(t) \/ Refused(t))
     \/ /\ threads[t].run /\ Chosen(t)
        /\ settings' = [settings EXCEPT !.run = FALSE, !.halted = FALSE]
        /\ Bumps(t, [threads[t] EXCEPT !.pc = "end_run", !.run = FALSE, !.halted = FALSE, !.handled = TRUE])
        /\ UNCHANGED <<motion, board, command, cell, robot, mill, sessions, troubles, starts>>

\* "stop_keep_machine": the scheduler is stopped, the pallet stays recorded in the mill.
EndRun(t) ==
  /\ At(t, "end_run")
  /\ \/ ~(RunFault(threads[t]) /\ threads[t].chooses) /\ Passes(t, "place")
     \/ RunFault(threads[t]) /\ Refused(t)
     \/ /\ RunFault(threads[t]) /\ Chosen(t)
        /\ settings' = [settings EXCEPT !.run = FALSE, !.halted = FALSE]
        /\ Bumps(t, [threads[t] EXCEPT !.pc = "place", !.run = FALSE, !.halted = FALSE, !.handled = TRUE])
        /\ UNCHANGED <<motion, board, command, cell, robot, mill, sessions, troubles, starts>>

\* recover_pallet_motion with the observed place; then, when the open command is the movement's own, its verdict.
Place(t) ==
  LET resolution == Seen(motion.op, threads[t].look)
  IN  /\ At(t, "place") /\ ~Reported
      /\ \/ motion.status # "faulted" /\ Passes(t, "command")
         \/ motion.status = "faulted" /\ (NotChosen(t) \/ Refused(t))
         \/ /\ motion.status = "faulted" /\ Chosen(t)
            /\ IF resolution \in MotionOptions[motion.op]
               THEN /\ motion' = NoMotion
                    /\ board' = RecordedPlace(resolution)
                    /\ Bumps(t, [threads[t] EXCEPT !.handled = TRUE, !.said = resolution,
                                    !.pc = IF command.moves /\ Unresolved THEN "verdict" ELSE "command"])
               ELSE UNCHANGED <<motion, board>> /\ Goes(t, "idle")
            /\ UNCHANGED <<settings, command, cell, robot, mill, sessions, troubles, starts>>

\* The second commit of _reconcile_recovery_motion.
Verdict(t) ==
  /\ At(t, "verdict")
  /\ \/ /\ (~threads[t].fresh \/ threads[t].run \/ ActiveMotion \/ ~Unresolved)
        /\ Passes(t, "idle")
     \/ /\ threads[t].fresh /\ ~threads[t].run /\ ~ActiveMotion /\ Unresolved
        /\ command' = [command EXCEPT !.status =
             IF SupervisorOperationCompleted(command.op, threads[t].said)
             THEN "operator_completed" ELSE "operator_faulted"]
        /\ Bumps(t, [threads[t] EXCEPT !.pc = "latch", !.then = "command"])
        /\ UNCHANGED <<settings, motion, board, cell, robot, mill, sessions, troubles, starts>>

\* The third: a new command that clears the latch, when the robot is still latched.
ClearLatch(t) ==
  /\ At(t, "latch")
  /\ \/ ~robot.latched /\ Passes(t, threads[t].then)
     \/ robot.latched /\ ~Connected /\ Passes(t, "idle")
     \/ /\ robot.latched /\ robot.link = "live" /\ robot.gap = "none"
        /\ robot' = [robot EXCEPT !.latched = FALSE, !.knows = FALSE]
        /\ command' = [op |-> "clear_latch", moves |-> FALSE, status |-> "completed"]
        /\ settings' = [settings EXCEPT !.verified = TRUE]
        /\ Bumps(t, [Reading EXCEPT !.pc = threads[t].then, !.sid = threads[t].sid, !.status = threads[t].status,
                        !.chooses = TRUE, !.look = threads[t].look, !.handled = TRUE])
        /\ UNCHANGED <<motion, board, cell, mill, sessions, troubles, starts>>
     \/ /\ robot.latched /\ Connected /\ (robot.link = "stale" \/ robot.gap # "none")
        /\ command' = [op |-> "clear_latch", moves |-> FALSE, status |-> "uncertain"]
        /\ robot' = [robot EXCEPT !.gap = "other", !.knows = FALSE]
        /\ Bumps(t, Idle)
        /\ UNCHANGED <<settings, motion, board, cell, mill, sessions, troubles, starts>>

\* An open command without a movement: the operator saw whether it had its effect.
Command(t) ==
  /\ At(t, "command") /\ ~Reported
  /\ \/ ~(RobotUncertain /\ Unresolved /\ ~LockedMotion) /\ Passes(t, "mill")
     \/ Unresolved /\ ~LockedMotion /\ (NotChosen(t) \/ Refused(t))
     \/ /\ Unresolved /\ ~LockedMotion /\ Chosen(t) /\ threads[t].run /\ Passes(t, "idle")
     \/ /\ Unresolved /\ ~LockedMotion /\ Chosen(t) /\ ~threads[t].run
        /\ \E done \in IF command.moves THEN {cell.at = To[command.op]} ELSE BOOLEAN :
             command' = [command EXCEPT !.status = IF done THEN "operator_completed" ELSE "operator_faulted"]
        /\ Bumps(t, [threads[t] EXCEPT !.pc = "latch", !.then = "mill", !.handled = TRUE])
        /\ UNCHANGED <<settings, motion, board, cell, robot, mill, sessions, troubles, starts>>

MillCommand(t) ==
  /\ At(t, "mill")
  /\ \/ ~mill.pending /\ Passes(t, "decide")
     \/ mill.pending /\ (NotChosen(t) \/ Refused(t))
     \/ mill.pending /\ Chosen(t) /\ (threads[t].run \/ LockedMotion) /\ Passes(t, "idle")
     \/ /\ mill.pending /\ Chosen(t) /\ ~threads[t].run /\ ~LockedMotion
        /\ mill' = [mill EXCEPT !.pending = FALSE]
        /\ Bumps(t, [threads[t] EXCEPT !.pc = "decide", !.handled = TRUE])
        /\ UNCHANGED <<settings, motion, board, command, cell, robot, sessions, troubles, starts>>

Decide(t) ==
  /\ At(t, "decide") /\ ~Reported
  /\ IF (~threads[t].handled /\ ~sessions[threads[t].sid].retry) \/ Handoff(threads[t])
     THEN Goes(t, "idle") /\ UNCHANGED sessions
     ELSE Saves(t, "running", "services")
  /\ UNCHANGED <<settings, motion, board, command, cell, robot, mill, troubles, starts>>

-----------------------------------------------------------------------------
(* auto_recover_controller_connections, for a request or for the watchdog.  *)

Deferred(t, pc) == /\ threads' = [threads EXCEPT ![t].pc = pc, ![t].deferred = TRUE]
                   /\ UNCHANGED <<settings, motion, board, command, cell, robot, mill, sessions, troubles, starts>>

\* Whether automation is idle is decided once, from the settings row the thread holds.
BeginServices(t) ==
  /\ At(t, "services") /\ ~Reported
  /\ IF Handoff(threads[t])
     THEN Saves(t, "handoff", "idle")
     ELSE /\ threads' = [threads EXCEPT ![t].pc = "robot_link", ![t].calm = ~threads[t].run /\ ~ActiveMotion]
          /\ UNCHANGED sessions
  /\ UNCHANGED <<settings, motion, board, command, cell, robot, mill, troubles, starts>>

\* recover_robot_supervisor_connection: only the local listener is restarted.
MayResetListener(th) == ~ActiveMotion /\ ~th.run

\* stop and start of the listener: its sockets are closed, and a program that runs connects again.
ListenerRestarted == [robot EXCEPT !.link = "down"]

RobotLink(t) ==
  /\ At(t, "robot_link")
  /\ robot' = IF robot.link = "stale" /\ threads[t].calm /\ MayResetListener(threads[t])
               THEN ListenerRestarted ELSE robot
  /\ Goes(t, "robot_wait")
  /\ UNCHANGED <<settings, motion, board, command, cell, mill, sessions, troubles, starts>>

\* recover_robot_supervisor_program refuses while Dashboard shows a program, its own included.
MayRestoreProgram(th) == ~ActiveMotion /\ ~th.run /\ robot.program = "none"

BootsFor(t, then) == /\ threads' = [threads EXCEPT ![t].pc = "mark", ![t].then = then]
                     /\ UNCHANGED <<settings, motion, board, command, cell, robot, mill, sessions, troubles, starts>>

VerifiedRobot(t) ==
  LET th == threads[t]
  IN  /\ settings.verified
      /\ \/ robot.link = "live" /\ Passes(t, "mill_link")
         \/ robot.link = "stale" /\ th.calm /\ MayResetListener(th) /\ Passes(t, "mill_link")
         \/ /\ robot.link # "live" /\ ~(th.calm /\ MayResetListener(th) /\ (robot.link = "stale" \/ MayRestoreProgram(th)))
            /\ Deferred(t, "mill_link")
         \/ robot.link = "down" /\ th.calm /\ MayRestoreProgram(th) /\ BootsFor(t, "mill_link")

UnverifiedRobot(t) ==
  LET th == threads[t]
  IN  /\ ~settings.verified
      /\ \/ /\ (~th.calm \/ (Connected /\ RobotUncertain /\ ~Repairable) \/ (~Connected /\ robot.program = "other"))
            /\ Deferred(t, "mill_link")
         \/ /\ th.calm /\ (IF Connected THEN RobotUncertain /\ Repairable ELSE robot.program # "other")
            /\ BootsFor(t, "mill_link")
         \/ /\ th.calm /\ Connected /\ ~RobotUncertain
            /\ IF th.fresh
               THEN /\ settings' = [settings EXCEPT !.verified = TRUE]
                    /\ Bumps(t, [th EXCEPT !.pc = "mill_link"]) /\ UNCHANGED sessions
               ELSE UNCHANGED settings /\ Raises(t)
            /\ UNCHANGED <<motion, board, command, cell, robot, mill, troubles, starts>>

RobotWait(t) == At(t, "robot_wait") /\ ~Reported /\ (VerifiedRobot(t) \/ UnverifiedRobot(t))

\* A different program is left alone; otherwise an idle mill's helper is deployed or restarted.
MillLink(t) ==
  LET th == threads[t]
      well == mill.verified /\ mill.link = "live"
      deploys == ~mill.verified \/ mill.link = "down"
  IN  /\ At(t, "mill_link")
      /\ \/ (mill.cycle = "other" \/ well) /\ Passes(t, "judge")
         \/ /\ mill.cycle # "other" /\ ~well
            /\ ~th.calm \/ (deploys /\ th.run) \/ (~deploys /\ mill.cycle # "idle")
            /\ Deferred(t, "judge")
         \/ /\ mill.cycle # "other" /\ ~well /\ th.calm /\ deploys /\ ~th.run
            /\ LET handshake == th.fresh /\ mill.cycle = "idle" /\ ~mill.gap
               IN  /\ mill' = [mill EXCEPT !.link = "live", !.verified = handshake]
                   /\ IF th.fresh THEN Bumps(t, [th EXCEPT !.pc = "judge", !.deferred = @ \/ ~handshake])
                      ELSE threads' = [threads EXCEPT ![t].pc = "judge", ![t].deferred = TRUE]
            /\ UNCHANGED <<settings, motion, board, command, cell, robot, sessions, troubles, starts>>
         \/ /\ mill.link = "stale" /\ mill.verified /\ mill.cycle = "idle" /\ th.calm
            /\ mill' = [mill EXCEPT !.link = "live"]
            /\ Goes(t, "judge")
            /\ UNCHANGED <<settings, motion, board, command, cell, robot, sessions, troubles, starts>>

\* The rest of the services phase: clear_robot_controller_fault, the second observation, the rebuild.
Judge(t) ==
  LET th == threads[t]
  IN  /\ At(t, "judge") /\ ~Reported
      /\ IF t \in Watchdogs THEN Goes(t, "idle") /\ UNCHANGED sessions
         ELSE IF th.deferred \/ Handoff(th) THEN Saves(t, "handoff", "idle")
         ELSE Goes(t, "rebuild") /\ UNCHANGED sessions
      /\ UNCHANGED <<settings, motion, board, command, cell, robot, mill, troubles, starts>>

Rebuild(t) ==
  /\ At(t, "rebuild")
  /\ \/ ~LockedMotion /\ ~threads[t].run /\ BootsFor(t, "mill_program")
     \/ /\ (LockedMotion \/ threads[t].run) /\ Raises(t)
        /\ UNCHANGED <<settings, motion, board, command, cell, robot, mill, troubles, starts>>

MillProgram(t) == At(t, "mill_program") /\ Passes(t, "finish")

Finish(t) ==
  /\ At(t, "finish") /\ Saves(t, "ready", "idle")
  /\ UNCHANGED <<settings, motion, board, command, cell, robot, mill, troubles, starts>>

-----------------------------------------------------------------------------
(* bootstrap_robot_supervisor.                                             *)

\* A failure defers the robot's part of auto_recover, and ends a rebuild with a handoff.
BootFails(t) ==
  IF threads[t].then = "mill_program" THEN Raises(t)
  ELSE /\ UNCHANGED sessions
       /\ threads' = [threads EXCEPT ![t] = On([@ EXCEPT !.deferred = threads[t].then # "idle"], threads[t].then)]

Restores(t) == Goes(t, "restore")

\* Maintenance mode is committed before anything is sent.
Mark(t) ==
  LET th == threads[t]
  IN  /\ At(t, "mark")
      /\ IF ActiveMotion \/ th.run \/ ~th.fresh
         THEN BootFails(t) /\ UNCHANGED settings
         ELSE /\ settings' = [settings EXCEPT !.maintenance = TRUE]
              /\ Bumps(t, [th EXCEPT !.pc = "stop_script",
                     !.orig = [verified |-> settings.verified, maintenance |-> settings.maintenance]])
              /\ UNCHANGED sessions
      /\ UNCHANGED <<motion, board, command, cell, robot, mill, troubles, starts>>

\* The connected program is told to end; the reservation of that command reads the settings row anew.
EndsProgram(t) ==
  /\ command' = [op |-> "bootstrap_restart", moves |-> FALSE, status |-> "completed"]
  /\ robot' = [robot EXCEPT !.link = "down", !.program = "none", !.gap = "none", !.knows = FALSE]
  /\ Bumps(t, [threads[t] EXCEPT !.pc = "send_script", !.fresh = TRUE])
  /\ UNCHANGED troubles

\* It is refused by a robot in motion, or lost with the connection before the robot recorded it.
ProgramStays(t) ==
  /\ command' = [op |-> "bootstrap_restart", moves |-> FALSE, status |-> "uncertain"]
  /\ \/ /\ cell.doing # "none"
        /\ robot' = [robot EXCEPT !.latched = TRUE, !.gap = "maintenance", !.knows = FALSE]
        /\ UNCHANGED troubles
     \/ /\ cell.doing = "none" /\ Trouble
        /\ robot' = [robot EXCEPT !.link = "down", !.gap = "maintenance", !.knows = FALSE]
  /\ Bumps(t, [threads[t] EXCEPT !.pc = "restore", !.fresh = TRUE])

StopScript(t) ==
  /\ At(t, "stop_script")
  /\ \/ ~Connected /\ Passes(t, "send_script")
     \/ /\ Connected /\ robot.gap # "none" /\ ~Repairable /\ Restores(t)
        /\ UNCHANGED <<settings, motion, board, command, cell, robot, mill, sessions, troubles, starts>>
     \/ /\ Connected /\ (robot.gap = "none" \/ Repairable)
        /\ \/ cell.doing = "none" /\ robot.link = "live" /\ EndsProgram(t)
           \/ ProgramStays(t)
        /\ UNCHANGED <<settings, motion, board, cell, mill, sessions, starts>>

\* The robot's step is cut short by a new program: the pallet is at either end of it.
CutShort ==
  IF cell.doing = "none" THEN UNCHANGED cell
  ELSE \E place \in {Before(cell.doing, cell.at), After(cell.doing, cell.at)} : cell' = [at |-> place, doing |-> "none"]

MotionFaults == motion' = IF ActiveMotion THEN [motion EXCEPT !.status = "faulted"] ELSE motion
CommandUncertain == command' = IF command.status = "sent" THEN [command EXCEPT !.status = "uncertain"] ELSE command

\* run_robot_script replaces whatever runs by a program seeded with the sequence the thread knows.
SendScript(t) ==
  /\ At(t, "send_script")
  /\ \/ /\ \E gap \in IF threads[t].fresh THEN {"none"} ELSE {"none", "other"} :
             robot' = [link |-> "down", latched |-> FALSE, gap |-> gap, program |-> "supervisor", knows |-> FALSE]
        /\ CutShort /\ MotionFaults /\ CommandUncertain
        /\ Goes(t, "connect") /\ UNCHANGED troubles
     \/ /\ Trouble
        /\ Restores(t) /\ UNCHANGED <<robot, cell, motion, command>>
  /\ UNCHANGED <<settings, board, mill, sessions, starts>>

\* The new connection with the expected sequence ends the bootstrap; its last commit may be refused.
Connect(t) ==
  LET th == threads[t]
  IN  /\ At(t, "connect")
      /\ \/ /\ Connected /\ robot.gap = "none" /\ th.fresh
            /\ settings' = [settings EXCEPT !.verified = TRUE, !.maintenance = FALSE]
            /\ Bumps(t, On(th, th.then)) /\ UNCHANGED <<sessions, troubles>>
         \/ /\ Connected /\ robot.gap = "none" /\ ~th.fresh
            /\ BootFails(t) /\ UNCHANGED <<settings, troubles>>
         \/ /\ Connected /\ robot.gap # "none"
            /\ Restores(t) /\ UNCHANGED <<settings, sessions, troubles>>
         \/ /\ ~Connected /\ Trouble
            /\ Restores(t) /\ UNCHANGED <<settings, sessions>>
         \/ /\ ~Connected /\ robot.program # "supervisor"
            /\ Restores(t) /\ UNCHANGED <<settings, sessions, troubles>>
      /\ UNCHANGED <<motion, board, command, cell, robot, mill, starts>>

\* restore_configuration_after_failure, refused when the row is out of date.
Restore(t) ==
  LET th == threads[t]
  IN  /\ At(t, "restore")
      /\ IF th.fresh
         THEN /\ settings' = [settings EXCEPT !.verified = th.orig.verified, !.maintenance = th.orig.maintenance]
              /\ IF th.then = "mill_program"
                 THEN /\ sessions' = [sessions EXCEPT ![th.sid].status = IF IndexAllows(th.sid, "handoff") THEN "handoff" ELSE @]
                      /\ Bumps(t, Idle)
                 ELSE UNCHANGED sessions /\ Bumps(t, On([th EXCEPT !.deferred = TRUE], th.then))
         ELSE BootFails(t) /\ UNCHANGED settings
      /\ UNCHANGED <<motion, board, command, cell, robot, mill, troubles, starts>>

-----------------------------------------------------------------------------
(* The watchdog of the robot's connection.                                 *)

WatchdogActs(w) ==
  LET reads == [Reading EXCEPT !.calm = ~settings.run /\ ~ActiveMotion]
      healthy == settings.verified /\ robot.link = "live"
  IN  /\ At(w, "idle") /\ ~healthy /\ ~settings.run
      /\ \/ /\ robot.link = "live" => reads.calm
            /\ ~settings.verified
            /\ threads' = [threads EXCEPT ![w] = [reads EXCEPT !.pc = "robot_link"]]
            /\ UNCHANGED robot
         \/ /\ settings.verified /\ robot.link # "live" /\ MayRestoreProgram(reads) /\ ~Connected
            /\ threads' = [threads EXCEPT ![w] = [reads EXCEPT !.pc = "mark", !.then = "idle"]]
            /\ UNCHANGED robot
         \/ /\ robot.link = "stale" /\ MayResetListener(reads)
            /\ robot' = ListenerRestarted
            /\ UNCHANGED threads
      /\ UNCHANGED <<settings, motion, board, command, cell, mill, sessions, troubles, starts>>

-----------------------------------------------------------------------------
(* The movement, the robot, the mill and the operator.                     *)

\* A movement is commanded and its first step sent (PalletBoard and SupervisorLink have the details).
MotionReady ==
  /\ ~LockedMotion /\ settings.verified /\ robot.link = "live" /\ ~robot.latched /\ ~Unresolved
  /\ robot.gap = "none" /\ cell.doing = "none"

StartMotion ==
  /\ Operated /\ MotionReady
  /\ \E op \in Motions :
       /\ From[Head(Steps[op])] = board /\ board = cell.at
       /\ motion' = [op |-> op, status |-> "active", restarted |-> FALSE]
       /\ command' = [op |-> Head(Steps[op]), moves |-> TRUE, status |-> "sent"]
       /\ cell' = [cell EXCEPT !.doing = Head(Steps[op])]
  /\ robot' = [robot EXCEPT !.knows = FALSE]
  /\ BumpedByOthers
  /\ UNCHANGED <<settings, board, mill, sessions, troubles>>

\* The fork is turned for teaching: a command of its own, with nothing recorded on the board.
AlignRobot ==
  /\ Commanded /\ MotionReady /\ ~settings.run /\ ~settings.maintenance
  /\ command' = [op |-> Align, moves |-> FALSE, status |-> "sent"]
  /\ cell' = [cell EXCEPT !.doing = Align]
  /\ robot' = [robot EXCEPT !.knows = FALSE]
  /\ BumpedByOthers
  /\ UNCHANGED <<settings, motion, board, mill, sessions, troubles>>

AlignHeard ==
  /\ command.op = Align /\ command.status = "sent" /\ robot.knows /\ robot.link = "live"
  /\ command' = [command EXCEPT !.status = "completed"]
  /\ UNCHANGED <<settings, motion, board, cell, robot, mill, sessions, threads, troubles, starts>>

StepEnds ==
  /\ cell.doing # "none"
  /\ cell' = [at |-> After(cell.doing, cell.at), doing |-> "none"]
  /\ robot' = [robot EXCEPT !.knows = command.op = cell.doing]
  /\ UNCHANGED <<settings, motion, board, command, mill, sessions, threads, troubles, starts>>

Finished == /\ motion' = NoMotion /\ board' = To[command.op]

\* The movement's thread hears of a step and commands the next, or records the movement.
Hears ==
  /\ ActiveMotion /\ command.moves /\ command.status = "sent" /\ robot.knows /\ robot.link = "live"
  /\ IF command.op = Last(Steps[motion.op])
     THEN /\ Finished /\ command' = [command EXCEPT !.status = "completed"]
          /\ UNCHANGED <<cell, robot>>
     ELSE /\ command' = [command EXCEPT !.op = Last(Steps[motion.op])]
          /\ cell' = [cell EXCEPT !.doing = Last(Steps[motion.op])]
          /\ robot' = [robot EXCEPT !.knows = FALSE]
          /\ UNCHANGED <<motion, board>>
  /\ BumpedByOthers
  /\ UNCHANGED <<settings, mill, sessions, troubles, starts>>

\* Another thread's reservation took the movement's place as the latest command: the movement's thread
\* still hears of its own step, and its next one is refused.
Superseded ==
  /\ ActiveMotion /\ ~command.moves /\ cell.doing = "none"
  /\ \/ MotionFaults /\ UNCHANGED board
     \/ cell.at = To[Last(Steps[motion.op])] /\ motion' = NoMotion /\ board' = cell.at
  /\ BumpedByOthers
  /\ UNCHANGED <<settings, command, cell, robot, mill, sessions, troubles, starts>>

\* robot_supervisor_status applies a completion nobody waits for, and ends an interrupted movement by its last step.
Poll ==
  /\ Reported
  /\ command' = [command EXCEPT !.status = "completed"]
  /\ IF LockedMotion /\ motion.restarted /\ command.moves /\ command.op = Last(Steps[motion.op])
     THEN Finished /\ BumpedByOthers ELSE UNCHANGED <<motion, board, threads>>
  /\ UNCHANGED <<settings, cell, robot, mill, sessions, troubles, starts>>

RobotConnects ==
  /\ robot.program = "supervisor" /\ robot.link # "live"
  /\ robot' = [robot EXCEPT !.link = "live"]
  /\ UNCHANGED <<settings, motion, board, command, cell, mill, sessions, threads, troubles, starts>>

\* The connection breaks or hangs; the command may not have reached the robot, and a moving robot latches.
RobotDrops ==
  /\ Trouble /\ robot.link = "live"
  /\ \E link \in {"stale", "down"}, lost \in BOOLEAN, latched \in BOOLEAN :
       /\ lost => cell.doing = Align \/ (ActiveMotion /\ cell.doing = Head(Steps[motion.op]))
       /\ latched => cell.doing # "none" /\ ~lost
       /\ robot' = [robot EXCEPT !.link = link, !.gap = IF lost THEN "other" ELSE @, !.latched = @ \/ latched]
       /\ cell' = IF lost THEN [cell EXCEPT !.doing = "none"] ELSE cell
  /\ MotionFaults /\ CommandUncertain /\ BumpedByOthers
  /\ UNCHANGED <<settings, board, mill, sessions, starts>>

\* An emergency stop or a fault in the middle of a step.
RobotFaults ==
  /\ Trouble /\ cell.doing # "none" /\ CutShort
  /\ robot' = [robot EXCEPT !.latched = TRUE, !.knows = FALSE]
  /\ MotionFaults /\ CommandUncertain /\ BumpedByOthers
  /\ UNCHANGED <<settings, board, mill, sessions, starts>>

\* Someone at the pendant stops the supervisor, perhaps to run a program of his own.
PendantStops ==
  /\ Trouble /\ robot.program = "supervisor" /\ CutShort
  /\ \E program \in {"none", "other"} :
       robot' = [robot EXCEPT !.program = program, !.link = "down", !.knows = FALSE]
  /\ MotionFaults /\ CommandUncertain /\ BumpedByOthers
  /\ UNCHANGED <<settings, board, mill, sessions, starts>>

PendantDone ==
  /\ robot.program = "other"
  /\ robot' = [robot EXCEPT !.program = "none"]
  /\ UNCHANGED <<settings, motion, board, command, cell, mill, sessions, threads, troubles, starts>>

StartRun ==
  /\ Commanded
  /\ ~settings.run /\ ~LockedMotion
  /\ settings' = [settings EXCEPT !.run = TRUE, !.halted = FALSE]
  /\ mill' = [mill EXCEPT !.cycle = IF board = "mill" /\ mill.verified /\ @ = "idle" THEN "ours" ELSE @]
  /\ BumpedByOthers
  /\ UNCHANGED <<motion, board, command, cell, robot, sessions, troubles>>

RestartListener ==
  /\ Commanded /\ settings.verified /\ ~settings.run /\ ~ActiveMotion
  /\ robot' = ListenerRestarted
  /\ UNCHANGED <<settings, motion, board, command, cell, mill, sessions, threads, troubles>>

\* A connected program is told to end and obeys; afterwards "program" runs.
ObeysMaintenance(program) ==
  /\ robot.link = "live" /\ robot.gap = "none"
  /\ settings' = [settings EXCEPT !.maintenance = TRUE]
  /\ command' = [op |-> "enter_maintenance", moves |-> FALSE, status |-> "completed"]
  /\ robot' = [robot EXCEPT !.link = "down", !.program = program, !.knows = FALSE]

\* A command it does not answer leaves maintenance mode off.
IgnoresMaintenance ==
  /\ Connected /\ (robot.link = "stale" \/ robot.gap # "none")
  /\ command' = [op |-> "enter_maintenance", moves |-> FALSE, status |-> "uncertain"]
  /\ robot' = [robot EXCEPT !.gap = "other", !.knows = FALSE] /\ UNCHANGED settings

EnterMaintenance ==
  /\ Commanded /\ ~settings.run /\ ~LockedMotion /\ cell.doing = "none"
  /\ \/ /\ ~Connected
        /\ settings' = [settings EXCEPT !.maintenance = TRUE] /\ UNCHANGED <<command, robot>>
     \/ ObeysMaintenance("none") \/ IgnoresMaintenance
  /\ BumpedByOthers
  /\ UNCHANGED <<motion, board, cell, mill, sessions, troubles>>

\* A new program, seeded with the sequence; whatever ran before is replaced.
LeaveMaintenance ==
  /\ Commanded /\ settings.maintenance /\ ~settings.run /\ ~LockedMotion
  /\ robot' = [link |-> "live", latched |-> FALSE, gap |-> "none", program |-> "supervisor", knows |-> FALSE]
  /\ settings' = [settings EXCEPT !.maintenance = FALSE, !.verified = TRUE]
  /\ BumpedByOthers
  /\ UNCHANGED <<motion, board, command, cell, mill, sessions, troubles>>

\* A program of a debug button replaces the supervisor; a thread waits for its end.  A program that does
\* not start is answered by a bootstrap.
RunDebugProgram(t) ==
  /\ At(t, "idle") /\ Commanded /\ ~settings.run /\ ~LockedMotion /\ cell.doing = "none"
  /\ \/ /\ settings.verified /\ ~settings.maintenance
        /\ \/ ObeysMaintenance("other") /\ Bumps(t, [Idle EXCEPT !.pc = "await_program"]) /\ UNCHANGED troubles
           \/ ObeysMaintenance("none") /\ Trouble
              /\ Bumps(t, [Reading EXCEPT !.pc = "mark", !.then = "idle"])
           \/ IgnoresMaintenance /\ BumpedByOthers /\ UNCHANGED troubles
     \/ /\ ~settings.verified \/ settings.maintenance
        /\ robot.program = "none"
        /\ robot' = [robot EXCEPT !.program = "other"]
        /\ UNCHANGED <<settings, command, threads, troubles>>
  /\ UNCHANGED <<motion, board, cell, mill, sessions>>

\* restore_supervisor_after_arbitrary_program.
AwaitProgram(t) ==
  /\ At(t, "await_program")
  /\ IF ~settings.maintenance THEN Goes(t, "idle")
     ELSE /\ robot.program = "none"
          /\ threads' = [threads EXCEPT ![t] = [Reading EXCEPT !.pc = "mark", !.then = "idle"]]
  /\ UNCHANGED <<settings, motion, board, command, cell, robot, mill, sessions, troubles, starts>>

\* After jogging from the pendant: the watchdog's recovery of the program, at the operator's request.
ReconnectRobot(t) ==
  /\ At(t, "idle") /\ Commanded
  /\ settings.verified /\ ~Reported /\ ~RobotUncertain /\ ~Connected /\ MayRestoreProgram(Reading)
  /\ threads' = [threads EXCEPT ![t] = [Reading EXCEPT !.pc = "mark", !.then = "idle"]]
  /\ UNCHANGED <<settings, motion, board, command, cell, robot, mill, sessions, troubles>>

\* The run faults; its mill command may be left uncertain.
RunFaults ==
  /\ Trouble /\ settings.run
  /\ settings' = [settings EXCEPT !.run = FALSE, !.halted = TRUE]
  /\ \E pending \in BOOLEAN : /\ pending => mill.cycle = "ours"
                              /\ mill' = [mill EXCEPT !.pending = pending]
  /\ BumpedByOthers
  /\ UNCHANGED <<motion, board, command, cell, robot, sessions, starts>>

MillDrops ==
  /\ Trouble /\ mill.link = "live"
  /\ \E link \in {"stale", "down"}, gap \in BOOLEAN :
       /\ gap => mill.cycle = "ours"
       /\ mill' = [mill EXCEPT !.link = link, !.gap = @ \/ gap]
  /\ UNCHANGED <<settings, motion, board, command, cell, robot, sessions, threads, starts>>

MillRunsOther ==
  /\ Trouble /\ mill.cycle = "idle"
  /\ mill' = [mill EXCEPT !.cycle = "other"]
  /\ UNCHANGED <<settings, motion, board, command, cell, robot, sessions, threads, starts>>

MillCycleEnds ==
  /\ mill.cycle # "idle"
  /\ mill' = [mill EXCEPT !.cycle = "idle"]
  /\ UNCHANGED <<settings, motion, board, command, cell, robot, sessions, threads, troubles, starts>>

\* The application ends and starts again: sessions persist, threads and sockets do not.
Restart ==
  /\ Trouble
  /\ settings' = [settings EXCEPT !.run = FALSE, !.halted = @ \/ settings.run]
  /\ motion' = IF ActiveMotion THEN [motion EXCEPT !.status = "faulted", !.restarted = TRUE] ELSE motion
  /\ CommandUncertain
  /\ robot' = [robot EXCEPT !.link = "down"]
  /\ threads' = [t \in Threads |-> Idle]
  /\ UNCHANGED <<board, cell, mill, sessions, starts>>

-----------------------------------------------------------------------------
Init ==
  /\ settings \in [run : {FALSE}, halted : {FALSE}, verified : Verified, maintenance : {FALSE}]
  /\ motion = NoMotion /\ board \in Places
  /\ command = [op |-> "clear_latch", moves |-> FALSE, status |-> "completed"]
  /\ cell = [at |-> board, doing |-> "none"]
  /\ robot = [link |-> "live", latched |-> FALSE, gap |-> "none", program |-> "supervisor", knows |-> FALSE]
  /\ mill \in [link : {"live"}, verified : {settings.verified}, pending : {FALSE}, gap : {FALSE}, cycle : {"idle"}]
  /\ sessions = [s \in Sessions |-> [status |-> "none", retry |-> FALSE]]
  /\ threads = [t \in Threads |-> Idle]
  /\ troubles = 0 /\ starts = 0

RequestStep(t) ==
  \/ InsertSession(t) \/ InsertRefused(t) \/ Safety(t)
  \/ StopRun(t) \/ EndRun(t) \/ Place(t) \/ Verdict(t) \/ ClearLatch(t) \/ Command(t) \/ MillCommand(t) \/ Decide(t)
  \/ BeginServices(t) \/ Rebuild(t) \/ MillProgram(t) \/ Finish(t) \/ AwaitProgram(t)

SharedStep(t) ==
  \/ RobotLink(t) \/ RobotWait(t) \/ MillLink(t) \/ Judge(t)
  \/ Mark(t) \/ StopScript(t) \/ SendScript(t) \/ Connect(t) \/ Restore(t)

CellStep ==
  \/ StepEnds \/ AlignHeard \/ Hears \/ Superseded \/ Poll \/ RobotConnects \/ PendantDone \/ MillCycleEnds

TroubleStep ==
  \/ RobotDrops \/ RobotFaults \/ PendantStops \/ RunFaults \/ MillDrops \/ MillRunsOther \/ Restart

Next ==
  \/ \E t \in Requests : StartRecovery(t) \/ RequestStep(t)
  \/ \E t \in Requests \ Answerers : RunDebugProgram(t) \/ ReconnectRobot(t)
  \/ \E t \in Answerers, s \in Sessions, confirms, chooses \in BOOLEAN : Answer(t, s, confirms, chooses)
  \/ \E s \in Sessions : CancelSession(s)
  \/ \E t \in Threads : SharedStep(t)
  \/ \E w \in Watchdogs : WatchdogActs(w)
  \/ StartMotion \/ AlignRobot \/ StartRun \/ RestartListener \/ EnterMaintenance \/ LeaveMaintenance
  \/ CellStep \/ TroubleStep

Spec == Init /\ [][Next]_vars

\* Threads, devices and an operator who keeps answering every question of a session.
Fairness ==
  /\ \A t \in Threads : WF_vars(SharedStep(t))
  /\ \A t \in Requests : WF_vars(RequestStep(t))
  /\ \A s \in Sessions : SF_vars(\E t \in Answerers : Answer(t, s, TRUE, sessions[s].status = "handoff"))
  /\ (\A w \in Watchdogs : WF_vars(WatchdogActs(w))) /\ WF_vars(CellStep)

FairSpec == Spec /\ Fairness

-----------------------------------------------------------------------------
(* Properties.                                                             *)

\* Types, and one session in each active status (the unique index of recovery_sessions).
RecoveryTypeOK ==
  /\ settings \in [run : BOOLEAN, halted : BOOLEAN, verified : BOOLEAN, maintenance : BOOLEAN]
  /\ motion \in [op : Motions \cup {"none"}, status : {"none", "active", "faulted"}, restarted : BOOLEAN]
  /\ board \in Places
  /\ command \in [op : DOMAIN From \cup {Align, "bootstrap_restart", "clear_latch", "enter_maintenance"}, moves : BOOLEAN,
                  status : {"sent", "uncertain", "completed", "operator_completed", "operator_faulted"}]
  /\ cell \in [at : Places, doing : DOMAIN From \cup {Align, "none"}]
  /\ robot \in [link : Links, latched : BOOLEAN, gap : {"none", "maintenance", "other"},
                program : {"supervisor", "other", "none"}, knows : BOOLEAN]
  /\ mill \in [link : Links, verified : BOOLEAN, pending : BOOLEAN, gap : BOOLEAN, cycle : {"idle", "ours", "other"}]
  /\ sessions \in [Sessions -> [status : Statuses, retry : BOOLEAN]]
  /\ \A t \in Threads : threads[t].pc \in Pcs /\ threads[t].sid \in Sessions \cup {"none"}
  /\ \A r, s \in Sessions : r # s /\ sessions[r].status \in Active => sessions[r].status # sessions[s].status

\* However the reconciliation of a movement is interrupted, refused, repeated or raced by a late
\* result of the robot, the ledger says what happened: the pallet is recorded where it is, and a
\* verdict on the movement's command agrees with where the pallet went (service.py 5196-5263).
VerdictMatchesCell ==
  /\ ~LockedMotion => board = cell.at
  /\ command.moves /\ cell.doing = "none" =>
       /\ command.status \in {"completed", "operator_completed"} => cell.at = To[command.op]
       /\ command.status = "operator_faulted" => cell.at = From[command.op]

\* A session whose operator keeps answering ends, or is stopped by a state that recovery offers no
\* choice for: a latch without an open command, or sequences that differ (service.py 4971-4977).
\* The watchdog's recoveries are excluded when they never end: 30 s lie between two of them.
RecoveryEnds ==
  <>[](\A w \in Watchdogs : threads[w].pc = "idle") =>
  \A s \in Sessions : sessions[s].status \in Active ~> (sessions[s].status \notin Active \/ Orphaned)

-----------------------------------------------------------------------------
(* The inductive invariant behind VerdictMatchesCell.                      *)

Moving == DOMAIN From
Trunks == [run : BOOLEAN, halted : BOOLEAN, verified : BOOLEAN, maintenance : BOOLEAN]
Orders == [op : Moving \cup {Align, "bootstrap_restart", "clear_latch", "enter_maintenance"}, moves : BOOLEAN,
           status : {"sent", "uncertain", "completed", "operator_completed", "operator_faulted"}]
Cells  == [at : Places, doing : Moving \cup {Align, "none"}]
Robots == [link : Links, latched : BOOLEAN, gap : {"none", "maintenance", "other"},
           program : {"supervisor", "other", "none"}, knows : BOOLEAN]
Mills  == [link : Links, verified : BOOLEAN, pending : BOOLEAN, gap : BOOLEAN, cycle : {"idle", "ours", "other"}]
Rows   == [status : Statuses, retry : BOOLEAN]
Later  == {"idle", "command", "mill", "mill_link", "mill_program"}
Minds  == [pc : Pcs, sid : Sessions \cup {"none"}, status : Statuses, chooses : BOOLEAN, look : Places,
           run : BOOLEAN, halted : BOOLEAN, fresh : BOOLEAN, handled : BOOLEAN, calm : BOOLEAN,
           deferred : BOOLEAN, then : Later, orig : [verified : BOOLEAN, maintenance : BOOLEAN],
           said : {"none", "source_pool", "robot_held", "machine", "destination_pool"}]

CellTyped ==
  /\ motion \in [op : Motions \cup {"none"}, status : {"none", "active", "faulted"}, restarted : BOOLEAN]
  /\ board \in Places /\ command \in Orders /\ cell \in Cells /\ robot \in Robots
RestTyped == settings \in Trunks /\ mill \in Mills /\ sessions \in [Sessions -> Rows]
MindsTyped == threads \in [Threads -> Minds]
OneOfEach == \A r, s \in Sessions : r # s /\ sessions[r].status \in Active => sessions[r].status # sessions[s].status
RecoveryTyped == CellTyped /\ RestTyped /\ MindsTyped /\ OneOfEach

\* A movement is locked as long as the robot may carry out one of its steps.
MotionOK ==
  /\ motion.op \in Motions <=> LockedMotion
  /\ command.moves <=> command.op \in Moving
  /\ ~LockedMotion => board = cell.at /\ cell.doing \in {"none", Align}
  /\ command.moves /\ LockedMotion => command.op \in {Head(Steps[motion.op]), Last(Steps[motion.op])}

\* The pallet is at an end of the step commanded last, and at its start while it is carried out.
StepOK ==
  /\ command.moves => cell.at \in {From[command.op], To[command.op]}
  /\ command.moves /\ cell.doing # "none" => Unresolved /\ cell.doing = command.op /\ cell.at = From[command.op]
  /\ robot.knows => cell.doing = "none" /\ (command.moves => cell.at = To[command.op])

\* A verdict says where the pallet went.
VerdictOK ==
  command.moves =>
    /\ command.status \in {"completed", "operator_completed"} => cell.at = To[command.op]
    /\ command.status = "operator_faulted" => cell.at = From[command.op]

\* As long as nobody committed since the operator looked, the cell is as he saw it, and the verdict that
\* follows from his answer is true.
Looked(th) == th.fresh /\ th.chooses /\ th.pc \in {"stop_run", "end_run", "place"}
Judges(th) == th.fresh /\ th.pc = "verdict"
LookOK(th) ==
  /\ Looked(th) => th.look = cell.at /\ cell.doing = "none"
  /\ Judges(th) =>
       /\ ~LockedMotion
       /\ command.moves => (SupervisorOperationCompleted(command.op, th.said) <=> cell.at = To[command.op])
ThreadsOK == \A t \in Threads : LookOK(threads[t])

RecoveryInv == RecoveryTyped /\ MotionOK /\ StepOK /\ VerdictOK /\ ThreadsOK

-----------------------------------------------------------------------------
(* What a comment or a text of the page says and the code does not keep.   *)

\* "Maintenance Mode blocks new MPS motion dispatch while bootstrap is in progress" (service.py 5899).
NoDispatchDuringBootstrap ==
  [][~ActiveMotion /\ ActiveMotion' => \A t \in Threads : threads[t].pc \notin Bootstrap \ {"mark"}]_vars

=============================================================================
