--------------------------- MODULE SupervisorLink ---------------------------
(***************************************************************************)
(* The persistent supervisor connection between the application and the    *)
(* robot: the command ledger of app/service.py, the connection manager of  *)
(* app/robot_supervisor.py and the two threads of the program that         *)
(* app/robot_scripts.py generates for the controller.                      *)
(*                                                                         *)
(* A movement is a sequence of Steps atomic steps.  Its thread sends one   *)
(* command per step and waits for the terminal event; an operator request  *)
(* may dispatch a command of its own at the same time.  The connection may *)
(* break at any moment, and each side finds out by itself.                 *)
(***************************************************************************)
EXTENDS Integers, Sequences, FiniteSets

CONSTANTS
  MaxSequence,  \* size of the sequence space (2_000_000_000 in the code)
  MaxMotions,   \* bound: movements commanded
  Steps,        \* atomic steps of a movement
  Fallback,     \* robot_supervisor_pre_dispatch_fallback
  Outputs,      \* the operator may set an output through the supervisor
  MaxFaults     \* bound: broken connections, restarts of the application and
                \* of the robot program, together

ASSUME LinkAssumption ==
  /\ {MaxSequence, MaxMotions, Steps} \subseteq Nat \ {0}
  /\ MaxFaults \in Nat
  /\ {Fallback, Outputs} \subseteq BOOLEAN

VARIABLES
  lastSeq,   \* AppSettings.robot_supervisor_last_sequence
  ledger,    \* the rows of robot_supervisor_commands, by sequence
  motion,    \* the number of the latest movement
  outcome,   \* what RobotMotion.status says of each movement
  caller,    \* the threads that dispatch: a movement's and a request's
  manager,   \* RobotSupervisorManager, without its events
  events,    \* its latest event of each sequence
  robot,     \* the supervisor program on the controller
  wire,      \* the robot's connection carries bytes both ways
  joined,    \* ... and the manager has activated it
  toRobot,   \* frames on the way
  toApp,
  ran,       \* history: how often each step was begun by the robot
  done,      \* history: the steps the robot finished
  faults     \* bound: faults so far

dbVars    == <<lastSeq, ledger>>
motionVars == <<motion, outcome>>
appVars   == <<manager, events>>
netVars   == <<wire, joined, toRobot, toApp>>
armVars   == <<ran, done>>
vars == <<dbVars, motionVars, caller, appVars, robot, netVars, armVars, faults>>

Seqs    == 1..MaxSequence
Motions == 1..MaxMotions
Callers == {"worker", "request"}
Moves   == {<<m, i>> : m \in Motions, i \in 1..Steps}

Terminal   == {"completed", "latched"}
Unresolved == {"sent", "uncertain", "latched"}

NoRow   == [status |-> "absent", op |-> "none", move |-> <<0, 0>>, session |-> 0]
NoReport == [code |-> "none", fault |-> "none", session |-> 0]
NoEvent == [seq |-> 0, code |-> "none", fault |-> "none"]
NoCommand == [seq |-> 0, op |-> "none", move |-> <<0, 0>>]
Idle == [pc |-> "free", op |-> "none", seq |-> 0, conn |-> 0, step |-> 1,
         tried |-> FALSE, sent |-> FALSE]
NoManager == [up |-> FALSE, conn |-> 0, session |-> 0, seq |-> 0,
              event |-> "none", latched |-> FALSE, telemetry |-> "none"]

\* A supervisor program that was just started, seeded with a sequence.
Program(seq, session) ==
  [pc |-> "idle", up |-> FALSE, session |-> session, last |-> seq,
   event |-> "idle", fault |-> "none", latched |-> FALSE, lost |-> FALSE,
   cmd |-> NoCommand, pending |-> NoEvent, unsent |-> FALSE]

-----------------------------------------------------------------------------
(* Movements.                                                              *)

Locked == motion > 0 /\ outcome[motion] \in {"open", "faulted", "interrupted"}
Active == motion > 0 /\ outcome[motion] = "open"

\* _assert_motion_ready with the supervisor enabled.
MotionReady ==
  IF manager.up
  THEN /\ ~manager.latched
       /\ lastSeq > 0 => ledger[lastSeq].status \notin Unresolved
       /\ manager.telemetry = "idle"
  ELSE Fallback

StartMotion ==
  /\ ~Locked
  /\ motion < MaxMotions
  /\ MotionReady
  /\ motion' = motion + 1
  /\ outcome' = [outcome EXCEPT ![motion + 1] = "open"]
  /\ caller' = [caller EXCEPT !["worker"] = [Idle EXCEPT !.pc = "check"]]
  /\ UNCHANGED <<dbVars, appVars, robot, netVars, armVars, faults>>

\* The end of a movement's thread. Three commits lost to board edits raise to the last handler of the
\* thread, which records a failure; its commits may be lost as well, and the movement then stays as it is.
EndMotion(verdict) ==
  /\ outcome' \in {[outcome EXCEPT ![motion] = verdict], [outcome EXCEPT ![motion] = "faulted"], outcome}
  /\ caller' = [caller EXCEPT !["worker"] = Idle]
  /\ UNCHANGED motion

\* How _dispatch_supervisor_command reports back to whoever called it.
Fails(c) ==
  IF c = "worker" THEN EndMotion("faulted")
  ELSE caller' = [caller EXCEPT ![c] = Idle] /\ UNCHANGED motionVars

\* Faulty variant: the loop over the steps ends one early.
LastStep_OneEarly(k) == k.step + 1 >= Steps
LastStep(k) == k.step = Steps

Succeeds(c) ==
  IF c = "worker"
  THEN IF LastStep(caller[c]) THEN EndMotion("succeeded")
       ELSE /\ caller' = [caller EXCEPT ![c].pc = "check", ![c].step = @ + 1]
            /\ UNCHANGED motionVars
  ELSE /\ caller' = [caller EXCEPT ![c] =
                       IF caller[c].op = "maintenance"
                       THEN [@ EXCEPT !.pc = "seed"] ELSE Idle]
       /\ UNCHANGED motionVars

\* Faulty variant: a movement that was partly dispatched falls back as well.
MayFallBack_Always(k) == Fallback
MayFallBack(k) == ~k.tried /\ Fallback

\* The legacy program runs the movement from its beginning.
RunsLegacy == caller' = [caller EXCEPT !["worker"].pc = "legacy", !["worker"].step = 1]

\* _execute_motion_via_supervisor, before each step.
CheckLink ==
  LET w == caller["worker"]
  IN  /\ w.pc = "check"
      /\ IF manager.up
         THEN /\ caller' = [caller EXCEPT !["worker"].pc = "reserve", !["worker"].op = "step"]
              /\ UNCHANGED motionVars
         ELSE IF MayFallBack(w)
         THEN RunsLegacy /\ UNCHANGED motionVars
         ELSE Fails("worker")
      /\ UNCHANGED <<dbVars, appVars, robot, netVars, armVars, faults>>

-----------------------------------------------------------------------------
(* The ledger: _new_supervisor_command and _dispatch_supervisor_command.   *)

\* Faulty variant: the sequence space is not checked.
SequenceLeft_Unchecked == TRUE
SequenceLeft == lastSeq < MaxSequence

Set(c, pc) == caller' = [caller EXCEPT ![c].pc = pc]

Reserve(c) ==
  LET k == caller[c]
      seq == lastSeq + 1
      move == IF k.op = "step" THEN <<motion, k.step>> ELSE <<0, 0>>
  IN  /\ k.pc = "reserve"
      /\ SequenceLeft
      /\ lastSeq' = seq
      /\ ledger' = [ledger EXCEPT ![seq] =
                      [status |-> "created", op |-> k.op, move |-> move,
                       session |-> manager.session]]
      /\ caller' = [caller EXCEPT ![c].pc = "dispatch", ![c].seq = seq]
      /\ UNCHANGED <<motionVars, appVars, robot, netVars, armVars, faults>>

\* The space is exhausted, or the reservation conflicted five times.
ReserveFails(c) ==
  /\ caller[c].pc = "reserve"
  /\ Fails(c)
  /\ UNCHANGED <<dbVars, appVars, robot, netVars, armVars, faults>>

\* dispatch, under the manager's lock: the connection is taken, its session
\* compared with the one of the reservation.
Dispatch(c) ==
  LET k == caller[c]
      expected == ledger[k.seq].session
  IN  /\ k.pc = "dispatch"
      /\ IF manager.up /\ expected \in {0, manager.session}
         THEN caller' = [caller EXCEPT ![c].pc = "picked", ![c].conn = manager.conn]
         ELSE Set(c, "release")
      /\ UNCHANGED <<dbVars, motionVars, appVars, robot, netVars, armVars, faults>>

\* Faulty variant: a send that failed counts as not attempted.
AfterSend_NotAttempted(ok) == IF ok THEN "record" ELSE "release"
AfterSend(ok) == "record"

\* dispatch, under the send lock.
Transmit(c) ==
  LET k == caller[c]
      frame == [seq |-> k.seq, op |-> k.op, move |-> ledger[k.seq].move]
      Leaves(ok) == caller' = [caller EXCEPT ![c].pc = AfterSend(ok), ![c].sent = ok,
                                             ![c].tried = TRUE]
  IN  /\ k.pc = "picked"
      /\ \/ /\ ~(manager.up /\ manager.conn = k.conn)
            /\ Set(c, "release")
            /\ UNCHANGED <<netVars, faults>>
         \/ /\ manager.up /\ manager.conn = k.conn
            /\ Leaves(TRUE)
            /\ toRobot' = IF joined THEN Append(toRobot, frame) ELSE toRobot
            /\ UNCHANGED <<wire, joined, toApp, faults>>
         \/ \* sendall fails: the connection is dead, the frame may have left
            /\ manager.up /\ manager.conn = k.conn
            /\ Leaves(FALSE)
            /\ toRobot' \in {toRobot, IF joined THEN Append(toRobot, frame) ELSE toRobot}
            /\ joined' = FALSE
            /\ wire' = (wire /\ ~joined)
            /\ joined => faults < MaxFaults
            /\ faults' = IF joined THEN faults + 1 ELSE faults
            /\ UNCHANGED toApp
      /\ UNCHANGED <<dbVars, motionVars, appVars, robot, armVars>>

MayRelease(k) == lastSeq = k.seq

\* Nothing was sent: the sequence is given back, and the step may be run by the
\* legacy script instead.
Release(c) ==
  LET k == caller[c]
  IN  /\ k.pc = "release"
      /\ MayRelease(k)
      /\ lastSeq' = lastSeq - 1
      /\ ledger' = [ledger EXCEPT ![k.seq] = NoRow]
      /\ IF k.op = "step" /\ MayFallBack(k)
         THEN RunsLegacy /\ UNCHANGED motionVars
         ELSE Fails(c)
      /\ UNCHANGED <<appVars, robot, netVars, armVars, faults>>

\* The settings row changed since the reservation (a board edit, or another
\* reservation): the plain commit raises, and the row stays "created".
ReleaseLost(c) ==
  /\ caller[c].pc = "release"
  /\ Fails(c)
  /\ UNCHANGED <<dbVars, appVars, robot, netVars, armVars, faults>>

Record(c) ==
  LET k == caller[c]
  IN  /\ k.pc = "record"
      /\ ledger' = [ledger EXCEPT ![k.seq].status =
                      IF k.sent THEN "sent" ELSE "uncertain"]
      /\ IF k.sent THEN Set(c, "wait") /\ UNCHANGED motionVars ELSE Fails(c)
      /\ UNCHANGED <<lastSeq, appVars, robot, netVars, armVars, faults>>

\* wait_for_event returns the terminal event of this sequence and session.
Verdict(c) ==
  LET k == caller[c]
      e == events[k.seq]
      SetRow(status) == ledger' = [ledger EXCEPT ![k.seq].status = status]
  IN  /\ k.pc = "wait"
      /\ e.code \in Terminal
      /\ ledger[k.seq].session \in {0, e.session}
      /\ IF e.code = "completed"
         THEN SetRow("completed") /\ Succeeds(c)
         ELSE IF e.fault = "link lost"
         THEN /\ SetRow("completed_link_lost")
              /\ IF manager.up /\ manager.latched /\ manager.seq = k.seq
                 THEN /\ caller' = [caller EXCEPT ![c].pc = "reserve", ![c].op = "clear"]
                      /\ UNCHANGED motionVars
                 ELSE Fails(c)
         ELSE SetRow("latched") /\ Fails(c)
      /\ UNCHANGED <<lastSeq, appVars, robot, netVars, armVars, faults>>

\* Faulty variant: the wait has no timeout.
WaitExpires_Never(c) == FALSE

WaitExpires(c) ==
  LET k == caller[c]
  IN  /\ k.pc = "wait"
      /\ ledger' = [ledger EXCEPT ![k.seq].status = "uncertain"]
      /\ Fails(c)
      /\ UNCHANGED <<lastSeq, appVars, robot, netVars, armVars, faults>>

\* The legacy program of one step replaces whatever runs on the controller.
LegacyStep ==
  LET w == caller["worker"]
      move == <<motion, w.step>>
  IN  /\ w.pc = "legacy"
      /\ ran' = [ran EXCEPT ![move] = @ + 1]
      /\ robot' = [robot EXCEPT !.pc = "off", !.up = FALSE, !.cmd = NoCommand]
      /\ wire' = FALSE /\ joined' = FALSE /\ toRobot' = <<>>
      /\ UNCHANGED toApp
      /\ \/ /\ done' = done \cup {move}
            /\ IF w.step = Steps THEN EndMotion("succeeded")
               ELSE /\ caller' = [caller EXCEPT !["worker"].step = @ + 1]
                    /\ UNCHANGED motionVars
         \/ Fails("worker") /\ UNCHANGED done
      /\ UNCHANGED <<dbVars, appVars, faults>>

-----------------------------------------------------------------------------
(* Operator requests.  One at a time is modelled; the thread of a movement *)
(* runs beside it.                                                         *)

Request(op) ==
  /\ caller["request"].pc = "free"
  /\ caller' = [caller EXCEPT !["request"] = [Idle EXCEPT !.pc = "reserve", !.op = op]]

\* toggle_debug_io: an output is set through the supervisor.
ToggleOutput ==
  /\ Outputs
  /\ ~Locked
  /\ manager.telemetry # "none"
  /\ Request("output")
  /\ UNCHANGED <<dbVars, motionVars, appVars, robot, netVars, armVars, faults>>

\* reconcile_robot_supervisor: the operator says what became of a command.
ReconcileCommand(s) ==
  /\ ~Active
  /\ ledger[s].status \in Unresolved
  /\ ledger' = [ledger EXCEPT ![s].status = "reconciled"]
  /\ UNCHANGED <<lastSeq, motionVars, caller, appVars, robot, netVars, armVars, faults>>

\* reconcile_robot_supervisor: clear the latch after the latest command.
ClearLatch ==
  /\ ~Active
  /\ lastSeq > 0 /\ ledger[lastSeq].status \in {"reconciled", "completed"}
  /\ manager.up
  /\ Request("clear")
  /\ UNCHANGED <<dbVars, motionVars, appVars, robot, netVars, armVars, faults>>

\* recover_pallet_motion; a latch that the same movement left is cleared.
LinkLossLatch ==
  /\ manager.up /\ manager.latched
  /\ manager.seq \in Seqs
  /\ ledger[manager.seq].status = "completed_link_lost"
  /\ ledger[manager.seq].move[1] = motion

RecoverMotion ==
  /\ Locked /\ ~Active
  /\ outcome' = [outcome EXCEPT ![motion] = "reconciled"]
  /\ IF LinkLossLatch THEN Request("clear") ELSE UNCHANGED caller
  /\ UNCHANGED <<motion, dbVars, appVars, robot, netVars, armVars, faults>>

\* bootstrap_robot_supervisor: stop the connected program, then start one that
\* is seeded with the sequence this request last saw.
Bootstrap ==
  /\ ~Active
  /\ faults < MaxFaults
  /\ IF manager.up
     THEN manager.seq = lastSeq /\ Request("maintenance")
     ELSE /\ caller["request"].pc = "free"
          /\ caller' = [caller EXCEPT !["request"] =
                          [Idle EXCEPT !.pc = "seed", !.seq = lastSeq]]
  /\ faults' = faults + 1
  /\ UNCHANGED <<dbVars, motionVars, appVars, robot, netVars, armVars>>

\* The script replaces whatever runs; a rebuilt one has a session of its own.
SeedProgram ==
  LET k == caller["request"]
  IN  /\ k.pc = "seed"
      /\ \E session \in {robot.session, robot.session + 1} :
           robot' = Program(k.seq, session)
      /\ wire' = FALSE /\ joined' = FALSE /\ toRobot' = <<>>
      /\ caller' = [caller EXCEPT !["request"] = Idle]
      /\ UNCHANGED <<dbVars, motionVars, appVars, toApp, armVars, faults>>

\* robot_supervisor_status: any poll of the status applies a completion that
\* no thread is waiting for any more.
Polled == lastSeq > 0 /\ manager.up /\ manager.seq = lastSeq
          /\ manager.event = "completed"

\* An interrupted movement counts as done when the row just completed is that
\* of its last step and no other row of it is open.
\* Faulty variant: the last row of the movement is taken for its last step.
Confirmed_AnyStep(row) ==
  /\ motion > 0 /\ outcome[motion] = "interrupted"
  /\ row.move[1] = motion
  /\ \A s \in Seqs \ {lastSeq} : ledger[s].move[1] = motion => ledger[s].status = "completed"
Confirmed(row) ==
  /\ motion > 0 /\ outcome[motion] = "interrupted"
  /\ row.move = <<motion, Steps>>
  /\ \A s \in Seqs \ {lastSeq} : ledger[s].move[1] = motion => ledger[s].status = "completed"

\* The row is committed first; the movement's own commit may be lost.
ApplyCompletion ==
  LET row == ledger[lastSeq]
  IN  /\ Polled
      /\ row.session = manager.session
      /\ row.status \in {"sent", "uncertain"}
      /\ ledger' = [ledger EXCEPT ![lastSeq].status = "completed"]
      /\ \/ UNCHANGED outcome
         \/ Confirmed(row) /\ outcome' = [outcome EXCEPT ![motion] = "succeeded"]
      /\ UNCHANGED <<lastSeq, motion, caller, appVars, robot, netVars, armVars, faults>>

\* The application ends and starts again: threads and manager are gone, the
\* movement is faulted, nothing is sent again.
Restart ==
  /\ faults < MaxFaults
  /\ faults' = faults + 1
  /\ outcome' = IF Active THEN [outcome EXCEPT ![motion] = "interrupted"] ELSE outcome
  /\ caller' = [c \in Callers |-> Idle]
  /\ manager' = NoManager
  /\ events' = [s \in Seqs |-> NoReport]
  /\ wire' = FALSE /\ joined' = FALSE /\ toApp' = <<>>
  /\ toRobot' \in {toRobot, <<>>}
  /\ UNCHANGED <<motion, dbVars, robot, armVars>>

-----------------------------------------------------------------------------
(* The manager's connection thread.                                        *)

Rank(code) == CASE code = "running" -> 2 [] code = "completed" -> 3
                [] code = "latched" -> 4 [] OTHER -> 0

\* _handle_frame refuses an event that contradicts what it has.
Acceptable(f) ==
  LET previous == events[f.seq]
  IN  /\ f.session = manager.session
      /\ previous.code \in Terminal => f.code = previous.code
      /\ Rank(f.code) >= Rank(previous.code)

HeardHello(f) ==
  /\ manager' = [up |-> TRUE, conn |-> manager.conn + 1, session |-> f.session,
                 seq |-> f.seq, event |-> f.code, latched |-> f.latched,
                 telemetry |-> IF manager.session \in {0, f.session}
                               THEN manager.telemetry ELSE "none"]
  /\ events' = IF manager.session \in {0, f.session} THEN events
               ELSE [s \in Seqs |-> NoReport]
  /\ joined' = (wire /\ \A i \in 2..Len(toApp) : toApp[i].kind # "hello")
  /\ UNCHANGED wire

HeardEvent(f) ==
  IF Acceptable(f)
  THEN /\ events' = [events EXCEPT ![f.seq] =
                       [code |-> f.code, fault |-> f.fault, session |-> f.session]]
       /\ manager' = [manager EXCEPT !.seq = IF f.last > f.seq THEN f.last ELSE f.seq,
                                     !.event = f.code,
                                     !.latched = f.code = "latched"]
       /\ UNCHANGED <<wire, joined>>
  ELSE /\ manager' = [manager EXCEPT !.up = FALSE]
       /\ joined' = FALSE
       /\ wire' = (wire /\ ~joined)
       /\ UNCHANGED events

AppHears ==
  LET f == Head(toApp)
  IN  /\ toApp # <<>>
      /\ \/ f.kind = "hello" /\ HeardHello(f)
         \/ f.kind = "event" /\ manager.up /\ HeardEvent(f)
         \/ f.kind # "hello" /\ ~manager.up /\ UNCHANGED <<appVars, wire, joined>>
      /\ toApp' = Tail(toApp)
      /\ UNCHANGED <<dbVars, motionVars, caller, robot, toRobot, armVars, faults>>

\* The manager's side notices that its connection is gone.
AppDisconnects ==
  /\ manager.up /\ ~joined
  /\ manager' = [manager EXCEPT !.up = FALSE]
  /\ UNCHANGED <<dbVars, motionVars, caller, events, robot, netVars, armVars, faults>>

\* The network breaks the connection; frames on the way may still arrive.
Break ==
  /\ wire
  /\ faults < MaxFaults
  /\ faults' = faults + 1
  /\ wire' = FALSE /\ joined' = FALSE
  /\ toRobot' \in {toRobot, <<>>}
  /\ toApp' \in {toApp, <<>>}
  /\ UNCHANGED <<dbVars, motionVars, caller, appVars, robot, armVars>>

-----------------------------------------------------------------------------
(* The controller: mongo_communication_thread.                             *)

Running == robot.pc # "off"
Busy == robot.cmd.seq > 0

RobotConnects ==
  /\ Running
  /\ ~robot.up
  /\ robot' = [robot EXCEPT !.up = TRUE]
  /\ wire' = TRUE /\ joined' = FALSE
  /\ toRobot' = <<>>
  /\ toApp' = Append(toApp, [kind |-> "hello", session |-> robot.session,
                             seq |-> robot.last, code |-> robot.event,
                             latched |-> robot.latched])
  /\ UNCHANGED <<dbVars, motionVars, caller, appVars, armVars, faults>>

\* Faulty variant: a command that arrives while another is in progress is stored
\* over it.
Conflicting_Replaces(f) == [robot EXCEPT !.cmd = f]

\* A repeat of the active sequence is answered, any other one latches.
Conflicting(f) ==
  IF f.seq = robot.last
  THEN [robot EXCEPT !.pending = [seq |-> robot.last, code |-> robot.event,
                                  fault |-> robot.fault],
                     !.unsent = TRUE]
  ELSE [robot EXCEPT !.latched = TRUE, !.fault = "conflict"]

RobotHears ==
  LET f == Head(toRobot)
  IN  /\ Running /\ robot.up
      /\ toRobot # <<>>
      /\ robot' = IF Busy THEN Conflicting(f) ELSE [robot EXCEPT !.cmd = f]
      /\ toRobot' = Tail(toRobot)
      /\ UNCHANGED <<dbVars, motionVars, caller, appVars, wire, joined, toApp, armVars, faults>>

RobotSays(f) == toApp' = IF wire THEN Append(toApp, f) ELSE toApp

RobotSendsEvent ==
  LET p == robot.pending
  IN  /\ Running /\ robot.up
      /\ robot.unsent
      /\ RobotSays([kind |-> "event", session |-> robot.session, seq |-> p.seq,
                    code |-> p.code, fault |-> p.fault, last |-> robot.last])
      /\ robot' = [robot EXCEPT !.unsent = FALSE]
      /\ UNCHANGED <<dbVars, motionVars, caller, appVars, wire, joined, toRobot, armVars, faults>>

\* What a sample says of a command that is between ACCEPTED and RUNNING depends
\* on when it was taken.
Sampled == CASE robot.pc = "moving" -> {"busy"}
             [] robot.pc = "starting" -> {"idle", "busy"}
             [] OTHER -> {"idle"}

\* Telemetry is heard at once, in its order after the events.
Telemetry ==
  /\ Running /\ robot.up /\ joined
  /\ toApp = <<>>
  /\ \E t \in Sampled :
       manager' = [manager EXCEPT !.seq = robot.last, !.telemetry = t]
  /\ UNCHANGED <<dbVars, motionVars, caller, events, robot, netVars, armVars, faults>>

\* Heartbeats stay away for several reads; the main thread runs in between.
RobotLosesLink ==
  /\ Running /\ robot.up /\ ~wire
  /\ robot.pc = "idle" => ~Busy
  /\ robot' = [robot EXCEPT !.up = FALSE, !.lost = TRUE]
  /\ toRobot' = <<>>
  /\ UNCHANGED <<dbVars, motionVars, caller, appVars, wire, joined, toApp, armVars, faults>>

-----------------------------------------------------------------------------
(* The controller: the main thread.  It waits in every publishing state    *)
(* until the communication thread has sent the event.                      *)

Publish(r, pc, code, fault, seq) ==
  [r EXCEPT !.pc = pc, !.pending = [seq |-> seq, code |-> code, fault |-> fault],
            !.unsent = TRUE]

InOrder == robot.cmd.seq = robot.last + 1

RobotTakes ==
  LET k == robot.cmd
      next == [robot EXCEPT !.last = k.seq, !.event = "completed"]
  IN  /\ robot.pc = "idle" /\ Busy
      /\ robot' =
           IF k.seq = robot.last
           THEN Publish(robot, "reporting", robot.event, robot.fault, robot.last)
           ELSE IF k.op = "clear" /\ InOrder
           THEN Publish([next EXCEPT !.latched = FALSE, !.lost = FALSE, !.fault = "none"],
                        "reporting", "completed", "none", k.seq)
           ELSE IF k.op = "maintenance" /\ InOrder
           THEN Publish(next, "leaving", "completed", "none", k.seq)
           ELSE IF robot.latched \/ ~InOrder
           THEN Publish([robot EXCEPT !.latched = TRUE, !.fault = "sequence"],
                        "reporting", "latched", "sequence", k.seq)
           ELSE Publish([next EXCEPT !.event = "running", !.fault = "none"],
                        "starting", "running", "none", k.seq)
      /\ UNCHANGED <<dbVars, motionVars, caller, appVars, netVars, armVars, faults>>

RobotProceeds ==
  LET k == robot.cmd
      move == k.op = "step"
  IN  /\ robot.pc \in {"starting", "reporting", "leaving"}
      /\ ~robot.unsent
      /\ \/ /\ robot.pc = "starting"
            /\ robot' = [robot EXCEPT !.pc = "moving", !.lost = FALSE]
            /\ ran' = IF move THEN [ran EXCEPT ![k.move] = @ + 1] ELSE ran
            /\ UNCHANGED netVars
         \/ /\ robot.pc = "reporting"
            /\ robot' = [robot EXCEPT !.pc = "idle", !.cmd = NoCommand, !.pending = NoEvent]
            /\ UNCHANGED <<ran, netVars>>
         \/ \* the program ends and its socket closes
            /\ robot.pc = "leaving"
            /\ robot' = [robot EXCEPT !.pc = "off", !.up = FALSE, !.cmd = NoCommand]
            /\ wire' = FALSE /\ joined' = FALSE /\ toRobot' = <<>>
            /\ UNCHANGED <<ran, toApp>>
      /\ UNCHANGED <<dbVars, motionVars, caller, appVars, done, faults>>

\* The dispatched function returned.
RobotFinishes ==
  LET k == robot.cmd
  IN  /\ robot.pc = "moving"
      /\ robot' =
           IF robot.lost
           THEN Publish([robot EXCEPT !.event = "latched", !.latched = TRUE, !.fault = "link lost"],
                        "reporting", "latched", "link lost", robot.last)
           ELSE IF robot.latched
           THEN Publish([robot EXCEPT !.event = "latched"],
                        "reporting", "latched", robot.fault, robot.last)
           ELSE Publish([robot EXCEPT !.event = "completed"],
                        "reporting", "completed", "none", robot.last)
      /\ done' = IF k.op = "step" THEN done \cup {k.move} ELSE done
      /\ UNCHANGED <<dbVars, motionVars, caller, appVars, netVars, ran, faults>>

\* A safety stop, or the operator at the pendant, ends the program.
RobotStops ==
  /\ Running
  /\ faults < MaxFaults
  /\ faults' = faults + 1
  /\ robot' = [robot EXCEPT !.pc = "off", !.up = FALSE, !.cmd = NoCommand]
  /\ wire' = FALSE /\ joined' = FALSE /\ toRobot' = <<>>
  /\ UNCHANGED <<dbVars, motionVars, caller, appVars, toApp, armVars>>

-----------------------------------------------------------------------------
Init ==
  /\ lastSeq = 0
  /\ ledger = [s \in Seqs |-> NoRow]
  /\ motion = 0
  /\ outcome = [m \in Motions |-> "none"]
  /\ caller = [c \in Callers |-> Idle]
  /\ manager = NoManager
  /\ events = [s \in Seqs |-> NoReport]
  /\ robot = Program(0, 1)
  /\ wire = FALSE /\ joined = FALSE
  /\ toRobot = <<>> /\ toApp = <<>>
  /\ ran = [x \in Moves |-> 0]
  /\ done = {}
  /\ faults = 0

\* The thread that carries out a dispatch, up to its verdict or its timeout.
Thread(c) ==
  \/ Reserve(c) \/ ReserveFails(c)
  \/ Dispatch(c) \/ Transmit(c)
  \/ Release(c) \/ ReleaseLost(c)
  \/ Record(c) \/ Verdict(c) \/ WaitExpires(c)

Worker == CheckLink \/ Thread("worker") \/ LegacyStep

Operator ==
  \/ StartMotion \/ ToggleOutput \/ RecoverMotion
  \/ \E s \in Seqs : ReconcileCommand(s)
  \/ ClearLatch \/ Bootstrap \/ ApplyCompletion

Connection == AppHears \/ AppDisconnects \/ Break \/ Restart

Robot ==
  \/ RobotConnects \/ RobotHears \/ RobotSendsEvent \/ Telemetry
  \/ RobotLosesLink
  \/ RobotTakes \/ RobotProceeds \/ RobotFinishes \/ RobotStops

Next ==
  \/ Worker \/ Thread("request") \/ SeedProgram
  \/ Operator \/ Connection \/ Robot

Spec == Init /\ [][Next]_vars

\* The worker's thread is scheduled.  Nothing is assumed of the network, the
\* controller or the operator.
FairSpec == Spec /\ WF_vars(Worker)

-----------------------------------------------------------------------------
(* Properties.                                                             *)

Commands == [seq : Seqs, op : {"step", "output", "clear", "maintenance"},
             move : Moves \cup {<<0, 0>>}]

\* Every variable keeps its type; in particular the application never counts
\* beyond the sequence space (service.py:6113-6114).
LinkTypeOK ==
  /\ lastSeq \in 0..MaxSequence
  /\ \A s \in Seqs :
       /\ ledger[s].status \in {"absent", "created", "completed", "completed_link_lost",
                                "reconciled"} \cup Unresolved
       /\ ledger[s].move \in Moves \cup {<<0, 0>>}
       /\ events[s].code \in {"none", "idle", "running"} \cup Terminal
  /\ motion \in 0..MaxMotions
  /\ \A m \in Motions :
       outcome[m] \in {"none", "open", "succeeded", "faulted", "interrupted", "reconciled"}
  /\ \A c \in Callers : caller[c].seq \in 0..MaxSequence /\ caller[c].step \in 1..Steps
  /\ robot.last \in 0..MaxSequence
  /\ robot.cmd \in Commands \cup {NoCommand}
  /\ \A i \in DOMAIN toRobot : toRobot[i] \in Commands
  /\ {wire, joined} \subseteq BOOLEAN
  /\ ran \in [Moves -> Nat]
  /\ done \subseteq Moves

\* Whatever the robot was sent is written down: a frame on its way and a
\* command the robot holds are the ledger's row of that sequence, and the robot
\* never counts further than the application.  A sequence is given back only
\* when no byte of it can have left (service.py:6173-6184).
LedgerKnowsEveryCommand ==
  LET InLedger(f) ==
        ledger[f.seq].status # "absent" /\ ledger[f.seq].op = f.op /\ ledger[f.seq].move = f.move
  IN  /\ \A i \in DOMAIN toRobot : toRobot[i].seq <= lastSeq /\ InLedger(toRobot[i])
      /\ robot.cmd.seq > 0 => robot.cmd.seq <= lastSeq /\ InLedger(robot.cmd)
      /\ robot.last <= lastSeq

\* No step is begun twice, by whichever transport: not after an uncertain send,
\* a restart, a reconnection or the legacy fallback (service.py:6322-6338).
NoStepRunsTwice == \A x \in Moves : ran[x] <= 1

\* "Never overwrite an in-flight atomic command" (robot_scripts.py:738): a step
\* that the supervisor program has begun stays the command in progress until it
\* is finished, whatever else the application sends.
StepInProgressIsKept ==
  faults = 0 /\ Running =>
    \A x \in Moves : ran[x] > 0 /\ x \notin done =>
      robot.pc = "moving" /\ robot.cmd.move = x

\* A movement that is reported as successful was finished, step by step, even
\* when the report was pieced together after a restart (service.py:5731-5751).
SuccessMeansDone ==
  \A m \in Motions : outcome[m] = "succeeded" => \A i \in 1..Steps : <<m, i>> \in done

\* The protocol implements what a movement promises about the arm: steps in
\* order, once, and no success without all of them.
Arm == INSTANCE AtomicSteps
ImplementsAtomicSteps == Arm!SSpec

\* The thread of a movement comes to its end, whatever the network, the controller
\* and the operator do: a lost answer ends in the timeout (service.py:6208-6213).
\* It decides the movement unless board edits win against all its commits (4271, 7238).
MovementThreadEnds == Active ~> caller["worker"].pc = "free"

-----------------------------------------------------------------------------
(* The inductive invariant behind the safety properties.                   *)

Ops    == {"step", "output", "clear", "maintenance"}
Codes  == {"none", "idle", "running"} \cup Terminal
Faults == {"none", "link lost", "conflict", "sequence"}
Rows   == [status : {"absent", "created", "completed", "completed_link_lost", "reconciled"} \cup Unresolved,
           op : Ops \cup {"none"}, move : Moves \cup {<<0, 0>>}, session : Nat]
Threads == [pc : {"free", "check", "reserve", "dispatch", "picked", "release", "record", "wait",
                  "legacy", "seed"},
            op : Ops \cup {"none"}, seq : 0..MaxSequence, conn : Nat, step : 1..Steps,
            tried : BOOLEAN, sent : BOOLEAN]
Managers == [up : BOOLEAN, conn : Nat, session : Nat, seq : 0..MaxSequence, event : Codes,
             latched : BOOLEAN, telemetry : {"none", "idle", "busy"}]
Programs == [pc : {"idle", "starting", "moving", "reporting", "leaving", "off"}, up : BOOLEAN,
             session : Nat, last : 0..MaxSequence, event : Codes, fault : Faults,
             latched : BOOLEAN, lost : BOOLEAN, cmd : Commands \cup {NoCommand},
             pending : [seq : 0..MaxSequence, code : Codes, fault : Faults], unsent : BOOLEAN]
Hellos == [kind : {"hello"}, session : Nat, seq : 0..MaxSequence, code : Codes, latched : BOOLEAN]
Reports == [kind : {"event"}, session : Nat, seq : Seqs, code : Codes, fault : Faults,
            last : 0..MaxSequence]

LedgerTyped == lastSeq \in 0..MaxSequence /\ ledger \in [Seqs -> Rows]
MotionTyped == motion \in 0..MaxMotions
               /\ outcome \in [Motions -> {"none", "open", "succeeded", "faulted", "interrupted", "reconciled"}]
AppTyped    == manager \in Managers
               /\ events \in [Seqs -> [code : Codes, fault : Faults, session : Nat]]
RobotTyped  == robot \in Programs /\ (robot.unsent => robot.pending.seq \in Seqs)
NetTyped    == /\ wire \in BOOLEAN /\ joined \in BOOLEAN
               /\ toRobot \in Seq(Commands) /\ toApp \in Seq(Hellos \cup Reports)
ArmTyped    == ran \in [Moves -> Nat] /\ done \in SUBSET Moves

LinkTyped ==
  /\ LedgerTyped /\ MotionTyped /\ caller \in [Callers -> Threads]
  /\ AppTyped /\ RobotTyped /\ NetTyped /\ ArmTyped /\ faults \in Nat

\* The connection: bytes are carried only to a program that runs and listens, and
\* what it was sent stays until the program read it or gave the link up.
WireOK ==
  /\ robot.up => Running
  /\ wire => robot.up
  /\ joined => wire /\ \A i \in 1..Len(toApp) : toApp[i].kind # "hello"
  /\ Len(toRobot) > 0 => robot.up
  /\ robot.pc = "idle" /\ Busy => robot.up
  /\ ~Running => ~Busy
  /\ robot.pc \in {"starting", "moving"} => Busy /\ robot.last = robot.cmd.seq /\ robot.event = "running"

\* Threads that hold a sequence; those of the first three states have sent nothing.
Unsent(c) == caller[c].pc \in {"dispatch", "picked", "release"}
Holds(c)  == caller[c].pc \in {"dispatch", "picked", "release", "record", "wait"}
Keeps(c)  == Holds(c) \/ caller[c].pc = "seed"

\* A thread's sequence is its own and its row describes its command; the thread
\* of a movement lives while the movement is open.
CallersOK ==
  /\ \A s \in Seqs : ledger[s].op = "step" <=> ledger[s].move \in Moves
  /\ \A c \in Callers : Keeps(c) => caller[c].seq <= lastSeq
  /\ \A c \in Callers : Holds(c) =>
       /\ caller[c].seq > 0
       /\ ledger[caller[c].seq].status # "absent"
       /\ ledger[caller[c].seq].op = caller[c].op
       /\ caller[c].op = "step" => ledger[caller[c].seq].move = <<motion, caller[c].step>>
  /\ Keeps("worker") /\ Keeps("request") => caller["worker"].seq # caller["request"].seq
  /\ caller["worker"].pc # "free" => Active
  /\ caller["worker"].pc # "seed" /\ caller["request"].pc \notin {"check", "legacy"}
  /\ caller["worker"].pc \in {"reserve", "dispatch", "picked", "release", "record", "wait"} =>
       caller["worker"].op \in {"step", "clear"}
  /\ caller["request"].op # "step"
  /\ caller["request"].pc = "reserve" \/ Holds("request") => caller["request"].op # "none"

\* A sequence that may have left: it is never given back.
Sent(s) == s <= lastSeq /\ \A c \in Callers : Unsent(c) => caller[c].seq # s
Recorded(f) ==
  /\ Sent(f.seq)
  /\ ledger[f.seq].status # "absent" /\ ledger[f.seq].op = f.op /\ ledger[f.seq].move = f.move

FramesOK ==
  /\ \A i \in 1..Len(toRobot) : Recorded(toRobot[i])
  /\ Busy => Recorded(robot.cmd)
  /\ Sent(robot.last)

\* A step waits to be begun: its command is on the way or not yet taken up.
Awaited(x) ==
  \/ \E i \in 1..Len(toRobot) : toRobot[i].op = "step" /\ toRobot[i].move = x
  \/ robot.cmd.op = "step" /\ robot.pc \in {"idle", "starting"} /\ robot.cmd.move = x
Unbegun(x) == ran[x] = 0 /\ ~Awaited(x)

\* The step that the worker has yet to send, or the one after it.
Frontier(w) ==
  IF w.pc \in {"check", "legacy"} \/ (w.pc \in {"reserve", "dispatch", "picked", "release"} /\ w.op = "step")
  THEN w.step ELSE w.step + 1

StepsOK ==
  /\ \A x \in Moves : ran[x] <= 1
  /\ \A x \in Moves : x[1] > motion => Unbegun(x)
  /\ LET w == caller["worker"]
     IN  w.pc # "free" =>
           /\ \A j \in Frontier(w)..Steps : Unbegun(<<motion, j>>)
           /\ ~w.tried /\ w.pc # "legacy" => w.step = 1 /\ Frontier(w) = 1
           /\ w.pc \in {"record", "wait"} => w.tried
  /\ \A i \in 1..Len(toRobot) : toRobot[i].op = "step" =>
       /\ ran[toRobot[i].move] = 0
       /\ \A j \in 1..Len(toRobot) : j # i /\ toRobot[j].op = "step" => toRobot[j].move # toRobot[i].move
  /\ robot.cmd.op = "step" /\ robot.pc \in {"idle", "starting"} =>
       /\ ran[robot.cmd.move] = 0
       /\ \A i \in 1..Len(toRobot) : toRobot[i].op = "step" => toRobot[i].move # robot.cmd.move
  /\ robot.cmd.op = "step" /\ robot.pc = "moving" => ran[robot.cmd.move] = 1

\* What a report says of the step of its sequence.
Finished(s) == s > 0 /\ ledger[s].op = "step" => ledger[s].move \in done
SaysDone(e) == e.code = "completed" \/ (e.code = "latched" /\ e.fault = "link lost")

ReportsOK ==
  /\ robot.event \in Terminal => Finished(robot.last)
  /\ robot.unsent => Sent(robot.pending.seq) /\ (SaysDone(robot.pending) => Finished(robot.pending.seq))
  /\ robot.unsent /\ robot.pending.code = "completed" => robot.pending.seq = robot.last
  /\ \A i \in 1..Len(toApp) :
       LET f == toApp[i]
       IN  /\ Sent(f.seq)
           /\ f.kind = "hello" /\ f.code \in Terminal => Finished(f.seq)
           /\ f.kind = "event" /\ SaysDone(f) => Finished(f.seq)
           /\ f.kind = "event" /\ f.code = "completed" => f.last = f.seq
  /\ \A s \in Seqs : events[s].code # "none" => Sent(s) /\ (SaysDone(events[s]) => Finished(s))

\* A step is commanded when the one before it was finished.
OrderOK ==
  /\ \A s \in Seqs : ledger[s].op = "step" => \A j \in 1..(ledger[s].move[2] - 1) : <<ledger[s].move[1], j>> \in done
  /\ LET w == caller["worker"]
     IN  w.pc # "free" =>
           /\ \A j \in 1..(w.step - 1) : <<motion, j>> \in done
           /\ w.op = "clear" /\ w.pc \in {"reserve", "dispatch", "picked", "release", "record", "wait"} =>
                <<motion, w.step>> \in done

\* After a restart nobody sends the steps of the interrupted movement any more:
\* a step that is still to be taken up is on a connection that broke, and what
\* the manager hears on a new one pairs the last sequence with its own event.
Interrupted(s) ==
  /\ motion > 0 /\ outcome[motion] = "interrupted"
  /\ s > 0 /\ ledger[s].op = "step" /\ ledger[s].move[1] = motion

InterruptedOK ==
  /\ \A m \in Motions : outcome[m] = "none" <=> m > motion
  /\ \A i \in 1..Len(toRobot) : Interrupted(toRobot[i].seq) => ~wire
  /\ robot.pc = "idle" /\ Busy /\ Interrupted(robot.cmd.seq) => ~wire
  /\ wire /\ Interrupted(robot.last) =>
       /\ \A i \in 1..Len(toApp) :
            toApp[i].code = "completed" /\ (\A j \in (i + 1)..Len(toApp) : toApp[j].kind # "hello") =>
              toApp[i].seq = robot.last
       /\ joined /\ manager.event = "completed" => Finished(robot.last)
  /\ manager.event = "completed" /\ Interrupted(manager.seq) => Finished(manager.seq)

\* Without a fault nothing replaces the program but the legacy script.
UndisturbedOK ==
  faults = 0 =>
    /\ caller["request"].op # "maintenance" /\ caller["request"].pc # "seed"
    /\ \A i \in 1..Len(toRobot) : toRobot[i].op # "maintenance"
    /\ robot.cmd.op # "maintenance" /\ robot.pc # "leaving"
    /\ Running => \A x \in Moves : ran[x] > 0 /\ x \notin done =>
         robot.pc = "moving" /\ robot.cmd.op = "step" /\ robot.cmd.move = x

LinkInv ==
  /\ LinkTyped /\ WireOK /\ CallersOK /\ FramesOK /\ StepsOK
  /\ ReportsOK /\ OrderOK /\ InterruptedOK /\ UndisturbedOK /\ SuccessMeansDone

-----------------------------------------------------------------------------
(* What a comment or a text of the page says and the code does not keep.   *)

\* What robot_supervisor_status says of the rows it completes: "A backend
\* restart can occur after Mongo physically completed a command. Apply that
\* matching terminal result once" (service.py:5711-5712).
CompletedMeansFinished ==
  \A s \in Seqs : ledger[s].status = "completed" /\ ledger[s].op = "step" =>
    ledger[s].move \in done
=============================================================================
