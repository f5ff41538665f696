----------------------------- MODULE LinkSafety -----------------------------
(***************************************************************************)
(* The safety of a movement over SupervisorLink, for every value of the    *)
(* constants: no step runs twice, success means that every step was        *)
(* finished, a step in progress is not overwritten, and the protocol       *)
(* implements AtomicSteps.  The invariant LinkInv is built in layers; each *)
(* one is kept by every step given the ones below it.                      *)
(***************************************************************************)
EXTENDS LinkProofs

-----------------------------------------------------------------------------
(* No step runs twice.                                                     *)

\* Facts of the types that the arguments below keep using.
LEMMA LinkFacts ==
  ASSUME LinkTyped
  PROVE  /\ caller \in [Callers -> Threads] /\ Callers = {"worker", "request"}
         /\ \A c \in Callers : caller[c].step \in 1..Steps /\ caller[c].seq \in 0..MaxSequence
         /\ motion \in 0..MaxMotions /\ Motions = 1..MaxMotions /\ Steps \in Nat /\ MaxMotions \in Nat
         /\ lastSeq \in 0..MaxSequence /\ MaxSequence \in Nat /\ Seqs = 1..MaxSequence
         /\ robot \in Programs /\ robot.cmd \in Commands \cup {NoCommand} /\ robot.last \in 0..MaxSequence
         /\ toRobot \in Seq(Commands) /\ toApp \in Seq(Hellos \cup Reports)
         /\ ran \in [Moves -> Nat] /\ done \in SUBSET Moves
         /\ NoCommand.op = "none" /\ NoCommand.seq = 0 /\ Idle.pc = "free"
BY Numbers DEF LinkTyped, LedgerTyped, MotionTyped, RobotTyped, NetTyped, ArmTyped, Callers, Threads,
   Programs, NoCommand, Idle, Motions, Seqs

\* What no step of a dispatching thread touches.
LEMMA ThreadLeaves ==
  ASSUME LinkTyped, CallersOK, NEW c \in Callers, Thread(c)
  PROVE  /\ OthersStay(c)
         /\ UNCHANGED <<motion, manager, events, robot, toApp, ran, done>>
         /\ toRobot' = toRobot \/ Transmit(c)
<1>1. CASE Reserve(c)
  BY <1>1, ReserveFields DEF motionVars, appVars, netVars, armVars
<1>2. CASE ReserveFails(c) \/ ReleaseLost(c)
  BY <1>2, FailsFields DEF ReserveFails, ReleaseLost, appVars, netVars, armVars
<1>3. CASE Dispatch(c)
  BY <1>3, DispatchFields DEF motionVars, appVars, netVars, armVars
<1>4. CASE Transmit(c)
  BY <1>4, TransmitFields DEF motionVars, appVars, armVars
<1>5. CASE Release(c)
  BY <1>5, ReleaseFields DEF appVars, netVars, armVars
<1>6. CASE Record(c)
  BY <1>6, RecordFields DEF appVars, netVars, armVars
<1>7. CASE Verdict(c)
  BY <1>7, VerdictFields DEF appVars, netVars, armVars
<1>8. CASE WaitExpires(c)
  BY <1>8, WaitExpiresFields DEF appVars, netVars, armVars
<1>. QED
  BY <1>1, <1>2, <1>3, <1>4, <1>5, <1>6, <1>7, <1>8 DEF Thread

\* Moves are pairs of a movement and a step.
LEMMA MovesArePairs ==
  /\ \A m, i : <<m, i>> \in Moves <=> m \in Motions /\ i \in 1..Steps
  /\ \A x \in Moves : x = <<x[1], x[2]>> /\ x[1] \in Motions /\ x[2] \in 1..Steps
  /\ \A m, i, n, j : <<m, i>> = <<n, j>> => m = n /\ i = j
BY DEF Moves

\* A command of an atomic step carries a step's move.
LEMMA StepCommandsMove ==
  ASSUME LinkTyped, CallersOK, FramesOK
  PROVE  /\ \A i \in 1..Len(toRobot) : toRobot[i].op = "step" => toRobot[i].move \in Moves
         /\ robot.cmd.op = "step" => Busy /\ robot.cmd.move \in Moves
<1>1. \A f \in Commands : Recorded(f) /\ f.op = "step" => f.move \in Moves
  BY DEF Recorded, CallersOK, Commands
<1>2. robot.cmd.op = "step" => Busy /\ robot.cmd \in Commands
  BY LinkFacts DEF Busy, Commands, Seqs
<1>3. \A i \in 1..Len(toRobot) : toRobot[i] \in Commands
  BY LinkFacts
<1>. QED
  BY <1>1, <1>2, <1>3 DEF FramesOK

\* The parts of StepsOK: what the arm did and what is on its way to it, the
\* movements to come, and what the worker has yet to send.
ArmOK ==
  /\ \A x \in Moves : ran[x] <= 1
  /\ \A i \in 1..Len(toRobot) : toRobot[i].op = "step" =>
       /\ ran[toRobot[i].move] = 0
       /\ \A j \in 1..Len(toRobot) : j # i /\ toRobot[j].op = "step" => toRobot[j].move # toRobot[i].move
  /\ robot.cmd.op = "step" /\ robot.pc \in {"idle", "starting"} =>
       /\ ran[robot.cmd.move] = 0
       /\ \A i \in 1..Len(toRobot) : toRobot[i].op = "step" => toRobot[i].move # robot.cmd.move
  /\ robot.cmd.op = "step" /\ robot.pc = "moving" => ran[robot.cmd.move] = 1
FutureOK == \A x \in Moves : x[1] > motion => Unbegun(x)
WorkerOK ==
  LET w == caller["worker"]
  IN  w.pc # "free" =>
        /\ \A j \in Frontier(w)..Steps : Unbegun(<<motion, j>>)
        /\ ~w.tried /\ w.pc # "legacy" => w.step = 1 /\ Frontier(w) = 1
        /\ w.pc \in {"record", "wait"} => w.tried

\* The steps that the worker has yet to send are steps of the movement.
LEMMA FrontierTyped ==
  ASSUME LinkTyped, CallersOK, caller["worker"].pc # "free"
  PROVE  /\ motion \in Motions
         /\ Frontier(caller["worker"]) \in {caller["worker"].step, caller["worker"].step + 1}
         /\ Frontier(caller["worker"]) \in Nat /\ Frontier(caller["worker"]) >= 1
         /\ \A j \in Frontier(caller["worker"])..Steps : <<motion, j>> \in Moves
<1>1. motion \in Motions /\ caller["worker"].step \in 1..Steps
  BY LinkFacts DEF CallersOK, Active
<1>2. Frontier(caller["worker"]) \in {caller["worker"].step, caller["worker"].step + 1}
  BY DEF Frontier
<1>3. Frontier(caller["worker"]) \in Nat /\ Frontier(caller["worker"]) >= 1
  BY <1>1, <1>2, LinkFacts
<1>. QED
  BY <1>1, <1>2, <1>3, LinkFacts, MovesArePairs

\* While nothing new is on its way and nothing is begun, a worker that does not
\* go back keeps the invariant.
LEMMA NothingBegins ==
  ASSUME LinkTyped, CallersOK, StepsOK, ran' = ran, motion' = motion,
         \A x \in Moves : Awaited(x)' => Awaited(x),
         ArmOK',
         \/ caller'["worker"] = caller["worker"]
         \/ caller'["worker"].pc = "free"
         \/ /\ caller["worker"].pc # "free"
            /\ Frontier(caller'["worker"]) \in Nat
            /\ Frontier(caller'["worker"]) >= Frontier(caller["worker"])
            /\ \/ caller'["worker"].tried
               \/ /\ caller'["worker"].step = 1 /\ Frontier(caller'["worker"]) = 1
                  /\ caller'["worker"].pc \notin {"record", "wait"}
               \/ caller'["worker"].pc = "legacy"
  PROVE  StepsOK'
<1>1. \A x \in Moves : Unbegun(x) => Unbegun(x)'
  BY DEF Unbegun, Awaited
<1>2. FutureOK'
  BY <1>1 DEF StepsOK, FutureOK
<1>3. WorkerOK'
  <2>. SUFFICES ASSUME caller'["worker"].pc # "free"
                PROVE  WorkerOK'
    BY DEF WorkerOK
  <2>1. caller["worker"].pc # "free" /\ Frontier(caller'["worker"]) >= Frontier(caller["worker"])
        /\ Frontier(caller'["worker"]) \in Nat /\ Frontier(caller["worker"]) \in Nat
    BY FrontierTyped
  <2>2. \A j \in Frontier(caller["worker"])..Steps : <<motion, j>> \in Moves /\ Unbegun(<<motion, j>>)
    BY <2>1, FrontierTyped DEF StepsOK
  <2>3. \A j \in Frontier(caller'["worker"])..Steps : Unbegun(<<motion, j>>)'
    BY <1>1, <2>1, <2>2, LinkFacts
  <2>. QED
    BY <2>1, <2>3 DEF WorkerOK, StepsOK
<1>. QED
  BY <1>2, <1>3 DEF StepsOK, ArmOK, FutureOK, WorkerOK

\* The worker does not go back while it dispatches.
LEMMA WorkerGoesOn ==
  ASSUME LinkTyped, CallersOK, StepsOK, Thread("worker") \/ CheckLink
  PROVE  \/ caller'["worker"] = caller["worker"]
         \/ caller'["worker"].pc = "free"
         \/ /\ caller["worker"].pc # "free"
            /\ Frontier(caller'["worker"]) \in Nat
            /\ Frontier(caller'["worker"]) >= Frontier(caller["worker"])
            /\ \/ caller'["worker"].tried
               \/ /\ caller'["worker"].step = 1 /\ Frontier(caller'["worker"]) = 1
                  /\ caller'["worker"].pc \notin {"record", "wait"}
               \/ caller'["worker"].pc = "legacy"
<1>. DEFINE w == caller["worker"]
            v == caller'["worker"]
<1>1. "worker" \in Callers /\ w.step \in 1..Steps /\ w.step \in Nat /\ Idle.pc = "free"
      /\ w.op \in Ops \cup {"none"}
  BY LinkFacts DEF Threads
<1>2. w.pc # "free" => /\ ~w.tried /\ w.pc # "legacy" => w.step = 1 /\ Frontier(w) = 1
                       /\ w.pc \in {"record", "wait"} => w.tried
                       /\ Frontier(w) >= 1
  BY FrontierTyped DEF StepsOK
<1>3. CASE Reserve("worker")
  <2>1. /\ w.pc = "reserve" /\ v.pc = "dispatch" /\ v.op = w.op /\ v.step = w.step /\ v.tried = w.tried
    BY <1>1, <1>3, ReserveFields
  <2>. QED
    BY <1>1, <1>2, <2>1 DEF Frontier
<1>4. CASE ReserveFails("worker") \/ ReleaseLost("worker") \/ WaitExpires("worker")
  BY <1>1, <1>4, FailsFields DEF ReserveFails, ReleaseLost, WaitExpires, GivesUp
<1>5. CASE Dispatch("worker")
  <2>1. /\ w.pc = "dispatch" /\ v.pc \in {"picked", "release"}
        /\ v.op = w.op /\ v.step = w.step /\ v.tried = w.tried
    BY <1>1, <1>5, DispatchFields DEF Goes
  <2>. QED
    BY <1>1, <1>2, <2>1 DEF Frontier
<1>6. CASE Transmit("worker")
  <2>1. CASE Goes("worker", "release")
    <3>1. /\ w.pc = "picked" /\ v.pc = "release" /\ v.op = w.op /\ v.step = w.step /\ v.tried = w.tried
      BY <1>1, <1>6, <2>1, TransmitFields DEF Goes
    <3>. QED
      BY <1>1, <1>2, <3>1 DEF Frontier
  <2>2. CASE ~Goes("worker", "release")
    <3>1. w.pc = "picked" /\ v.pc = "record" /\ v.tried /\ v.op = w.op /\ v.step = w.step
      BY <1>1, <1>6, <2>2, TransmitFields
    <3>. QED
      BY <1>1, <3>1 DEF Frontier
  <2>. QED
    BY <2>1, <2>2
<1>7. CASE Release("worker")
  <2>1. CASE GivesUp("worker")
    BY <1>1, <2>1 DEF GivesUp
  <2>2. CASE TurnsToLegacy("worker")
    <3>1. w.pc = "release" /\ ~w.tried /\ v.pc = "legacy" /\ v.step = 1
      BY <1>1, <1>7, <2>2, ReleaseFields DEF TurnsToLegacy
    <3>. QED
      BY <1>1, <1>2, <3>1 DEF Frontier
  <2>. QED
    BY <1>1, <1>7, <2>1, <2>2, ReleaseFields
<1>8. CASE Record("worker")
  <2>1. CASE GivesUp("worker")
    BY <1>1, <2>1 DEF GivesUp
  <2>2. CASE Goes("worker", "wait")
    <3>1. /\ w.pc = "record" /\ v.pc = "wait" /\ v.op = w.op /\ v.step = w.step /\ v.tried = w.tried
      BY <1>1, <1>8, <2>2, RecordFields DEF Goes
    <3>. QED
      BY <1>1, <1>2, <3>1 DEF Frontier
  <2>. QED
    BY <1>1, <1>8, <2>1, <2>2, RecordFields
<1>9. CASE Verdict("worker")
  <2>1. w.pc = "wait" /\ w.tried
    BY <1>1, <1>2, <1>9, VerdictFields
  <2>2. CASE v.pc = "free"
    BY <2>2
  <2>3. CASE v.pc = "check" /\ v.step = w.step + 1 /\ v.tried = w.tried
    BY <1>1, <2>1, <2>3 DEF Frontier
  <2>4. CASE v.pc = "reserve" /\ v.op = "clear" /\ v.step = w.step /\ v.tried = w.tried
    BY <1>1, <2>1, <2>4 DEF Frontier
  <2>. QED
    BY <1>1, <1>9, <2>2, <2>3, <2>4, VerdictFields DEF GivesUp, GetsThere, Advances
<1>10. CASE CheckLink
  <2>1. w.pc = "check"
    BY <1>10, CheckLinkFields
  <2>2. CASE GivesUp("worker")
    BY <1>1, <2>2 DEF GivesUp
  <2>3. CASE v.pc = "reserve" /\ v.op = "step" /\ v.step = w.step /\ v.tried = w.tried
    BY <1>1, <1>2, <2>1, <2>3 DEF Frontier
  <2>4. CASE v.pc = "legacy" /\ v.step = 1 /\ ~w.tried
    BY <1>1, <1>2, <2>1, <2>4 DEF Frontier
  <2>. QED
    BY <1>10, <2>2, <2>3, <2>4, CheckLinkFields
<1>. QED
  BY <1>3, <1>4, <1>5, <1>6, <1>7, <1>8, <1>9, <1>10 DEF Thread

\* A step that is sent was not begun and is not on its way yet.
LEMMA SentStepIsNew ==
  ASSUME LinkTyped, CallersOK, FramesOK, StepsOK, NEW c \in Callers,
         caller[c].pc = "picked", toRobot' = Append(toRobot, Frame(c)),
         UNCHANGED <<ran, robot>>
  PROVE  /\ ArmOK'
         /\ Frame(c).op = "step" => c = "worker" /\ Frame(c).move = <<motion, caller[c].step>>
                                    /\ Frame(c).move \in Moves
         /\ \A x \in Moves : Awaited(x)' => Awaited(x) \/ (Frame(c).op = "step" /\ x = Frame(c).move)
<1>. DEFINE f == Frame(c)
<1>1. f.op = caller[c].op /\ f.move = ledger[caller[c].seq].move
  BY DEF Frame
<1>2. Len(toRobot') = Len(toRobot) + 1 /\ toRobot'[Len(toRobot) + 1] = f
      /\ \A i \in 1..Len(toRobot) : toRobot'[i] = toRobot[i]
  BY LinkFacts
<1>3. f.op = "step" => c = "worker" /\ f.move = <<motion, caller[c].step>> /\ f.move \in Moves
      /\ Unbegun(f.move)
  <2>. SUFFICES ASSUME f.op = "step"
                PROVE  c = "worker" /\ f.move = <<motion, caller[c].step>> /\ f.move \in Moves
                       /\ Unbegun(f.move)
    OBVIOUS
  <2>1. c = "worker" /\ f.move = <<motion, caller[c].step>>
    BY <1>1, LinkFacts DEF CallersOK, Holds
  <2>2. Frontier(caller["worker"]) = caller["worker"].step
    BY <1>1, <2>1 DEF Frontier
  <2>3. caller["worker"].step \in Frontier(caller["worker"])..Steps
    BY <2>1, <2>2, LinkFacts
  <2>. QED
    BY <2>1, <2>3, FrontierTyped DEF StepsOK
<1>4. \A x \in Moves : Awaited(x)' => Awaited(x) \/ (f.op = "step" /\ x = f.move)
  BY <1>2, LinkFacts DEF Awaited
<1>5. ArmOK'
  <2>1. f.op = "step" => /\ ran[f.move] = 0
                         /\ \A i \in 1..Len(toRobot) : toRobot[i].op = "step" => toRobot[i].move # f.move
                         /\ robot.cmd.op = "step" /\ robot.pc \in {"idle", "starting"} => robot.cmd.move # f.move
    BY <1>3 DEF Unbegun, Awaited
  <2>2. \A i \in 1..Len(toRobot') : i \in 1..Len(toRobot) \/ (i = Len(toRobot) + 1 /\ toRobot'[i] = f)
    BY <1>2, LinkFacts
  <2>. QED
    BY <1>2, <2>1, <2>2 DEF StepsOK, ArmOK
<1>. QED
  BY <1>3, <1>4, <1>5

\* Frames that are read or lost, and commands that are given up, leave fewer
\* steps on their way.
LEMMA FewerAwaited ==
  ASSUME LinkTyped, WireOK, CallersOK, FramesOK, StepsOK, ran' = ran,
         \/ toRobot' = toRobot \/ toRobot' = <<>>
         \/ toRobot # <<>> /\ toRobot' = Tail(toRobot),
         \/ robot'.cmd = robot.cmd
            /\ (robot'.pc \in {"idle", "starting"} => robot.pc \in {"idle", "starting"})
            /\ (robot'.pc = "moving" => robot.pc = "moving")
         \/ robot'.cmd = NoCommand
         \/ /\ ~Busy /\ toRobot # <<>> /\ toRobot' = Tail(toRobot) /\ robot'.cmd = Head(toRobot)
            /\ robot'.pc = robot.pc
  PROVE  ArmOK' /\ \A x \in Moves : Awaited(x)' => Awaited(x)
<1>1. toRobot # <<>> => /\ Head(toRobot) = toRobot[1] /\ 1 \in 1..Len(toRobot)
                        /\ Len(Tail(toRobot)) = Len(toRobot) - 1
                        /\ \A i \in 1..Len(Tail(toRobot)) : Tail(toRobot)[i] = toRobot[i + 1]
                                                            /\ i + 1 \in 1..Len(toRobot)
  BY LinkFacts
<1>2. \A i \in 1..Len(toRobot') : \E j \in 1..Len(toRobot) : toRobot'[i] = toRobot[j]
  BY <1>1
<1>3. \A i, j \in 1..Len(toRobot') : i # j => \E k, l \in 1..Len(toRobot) :
         k # l /\ toRobot'[i] = toRobot[k] /\ toRobot'[j] = toRobot[l]
  <2>1. CASE toRobot' = toRobot
    BY <2>1
  <2>2. CASE toRobot' = <<>>
    BY <2>2
  <2>3. CASE toRobot # <<>> /\ toRobot' = Tail(toRobot)
    BY <1>1, <2>3, LinkFacts
  <2>. QED
    BY <2>1, <2>2, <2>3
<1>4. /\ \A x \in Moves : ran'[x] <= 1
      /\ \A i \in 1..Len(toRobot') : toRobot'[i].op = "step" =>
           /\ ran'[toRobot'[i].move] = 0
           /\ \A j \in 1..Len(toRobot') : j # i /\ toRobot'[j].op = "step" => toRobot'[j].move # toRobot'[i].move
  <2>1. \A x \in Moves : ran'[x] <= 1
    BY DEF StepsOK
  <2>2. \A i \in 1..Len(toRobot) : toRobot[i].op = "step" =>
           /\ ran[toRobot[i].move] = 0
           /\ \A j \in 1..Len(toRobot) : j # i /\ toRobot[j].op = "step" => toRobot[j].move # toRobot[i].move
    BY DEF StepsOK
  <2>3. ASSUME NEW i \in 1..Len(toRobot'), toRobot'[i].op = "step"
        PROVE  /\ ran'[toRobot'[i].move] = 0
               /\ \A j \in 1..Len(toRobot') : j # i /\ toRobot'[j].op = "step" => toRobot'[j].move # toRobot'[i].move
    <3>1. ran'[toRobot'[i].move] = 0
      BY <1>2, <2>2, <2>3
    <3>2. ASSUME NEW j \in 1..Len(toRobot'), j # i, toRobot'[j].op = "step"
          PROVE  toRobot'[j].move # toRobot'[i].move
      <4>1. PICK k \in 1..Len(toRobot), l \in 1..Len(toRobot) :
               k # l /\ toRobot'[i] = toRobot[k] /\ toRobot'[j] = toRobot[l]
        BY <1>3, <3>2
      <4>. QED
        BY <2>2, <2>3, <3>2, <4>1
    <3>. QED
      BY <3>1, <3>2
  <2>. QED
    BY <2>1, <2>3
<1>5. CASE /\ robot'.cmd = robot.cmd
           /\ robot'.pc \in {"idle", "starting"} => robot.pc \in {"idle", "starting"}
           /\ robot'.pc = "moving" => robot.pc = "moving"
  <2>1. \A x \in Moves : Awaited(x)' => Awaited(x)
    BY <1>2, <1>5 DEF Awaited
  <2>2. ArmOK'
    BY <1>2, <1>4, <1>5 DEF StepsOK, ArmOK
  <2>. QED
    BY <2>1, <2>2
<1>6. CASE robot'.cmd = NoCommand
  <2>1. robot'.cmd.op # "step"
    BY <1>6, LinkFacts
  <2>2. \A x \in Moves : Awaited(x)' => Awaited(x)
    BY <1>2, <2>1 DEF Awaited
  <2>3. ArmOK'
    BY <1>2, <1>4, <2>1 DEF StepsOK, ArmOK
  <2>. QED
    BY <2>2, <2>3
<1>7. CASE /\ ~Busy /\ toRobot # <<>> /\ toRobot' = Tail(toRobot) /\ robot'.cmd = Head(toRobot)
           /\ robot'.pc = robot.pc
  <2>1. robot'.cmd = toRobot[1] /\ 1 \in 1..Len(toRobot)
        /\ robot'.pc \notin {"starting", "moving"}
        /\ \A i \in 1..Len(toRobot') : toRobot'[i] = toRobot[i + 1] /\ i + 1 \in 1..Len(toRobot) /\ i + 1 # 1
    BY <1>1, <1>7, LinkFacts DEF WireOK
  <2>2. \A x \in Moves : Awaited(x)' => Awaited(x)
    BY <1>2, <2>1 DEF Awaited
  <2>3. ArmOK'
    BY <1>2, <1>4, <2>1 DEF StepsOK, ArmOK
  <2>. QED
    BY <2>2, <2>3
<1>. QED
  BY <1>5, <1>6, <1>7

\* A step of the legacy script, or of the robot's program, begins.
LEMMA OneBegins ==
  ASSUME LinkTyped, CallersOK, FramesOK, StepsOK, NEW x \in Moves, ran[x] = 0,
         ran' = [ran EXCEPT ![x] = @ + 1]
  PROVE  /\ ran'[x] = 1 /\ \A y \in Moves \ {x} : ran'[y] = ran[y]
         /\ \A y \in Moves : ran'[y] <= 1
BY LinkFacts DEF StepsOK

\* The movements to come and the worker's steps are still unbegun when none of
\* them is the step that begins.
LEMMA StepsStep ==
  ASSUME LinkTyped, WireOK, CallersOK, FramesOK, StepsOK, Next
  PROVE  StepsOK'
<1>1. "worker" \in Callers /\ \A x \in Moves : Awaited(x) => ~Unbegun(x)
  BY LinkFacts DEF Unbegun
<1>2. ASSUME UNCHANGED <<ran, robot, toRobot>>
      PROVE  ArmOK' /\ \A x \in Moves : Awaited(x)' => Awaited(x)
  BY <1>2 DEF StepsOK, ArmOK, Awaited
<1>3. ASSUME NEW c \in Callers, Thread(c), toRobot' = toRobot
      PROVE  StepsOK'
  <2>1. UNCHANGED <<ran, robot, toRobot, motion>>
    BY <1>3, ThreadLeaves
  <2>2. c # "worker" => caller'["worker"] = caller["worker"]
    BY <1>1, <1>3, ThreadLeaves DEF OthersStay
  <2>. QED
    BY <1>1, <1>2, <1>3, <2>1, <2>2, NothingBegins, WorkerGoesOn
<1>4. ASSUME NEW c \in Callers, Thread(c), toRobot' # toRobot
      PROVE  StepsOK'
  <2>1. Transmit(c) /\ caller[c].pc = "picked" /\ toRobot' = Append(toRobot, Frame(c))
    BY <1>4, ThreadLeaves, SendsFrame
  <2>2. UNCHANGED <<ran, robot, motion>>
    BY <1>4, ThreadLeaves
  <2>3. /\ ArmOK'
        /\ Frame(c).op = "step" => c = "worker" /\ Frame(c).move = <<motion, caller[c].step>>
                                   /\ Frame(c).move \in Moves
        /\ \A x \in Moves : Awaited(x)' => Awaited(x) \/ (Frame(c).op = "step" /\ x = Frame(c).move)
    BY <2>1, <2>2, SentStepIsNew
  <2>4. CASE Frame(c).op # "step"
    <3>1. c # "worker" => caller'["worker"] = caller["worker"]
      BY <1>1, <1>4, ThreadLeaves DEF OthersStay
    <3>2. \A x \in Moves : Awaited(x)' => Awaited(x)
      BY <2>3, <2>4
    <3>. QED
      BY <1>1, <1>4, <2>2, <2>3, <3>1, <3>2, NothingBegins, WorkerGoesOn
  <2>5. CASE Frame(c).op = "step"
    <3>. DEFINE w == caller["worker"]
                v == caller'["worker"]
    <3>1. c = "worker" /\ w.pc = "picked" /\ w.op = "step" /\ Frontier(w) = w.step
      BY <2>1, <2>3, <2>5 DEF Frame, Frontier
    <3>2. v.pc = "record" /\ v.tried /\ v.op = w.op /\ v.step = w.step
      BY <1>1, <1>4, <2>1, <3>1, TransmitFields DEF Goes
    <3>3. Frontier(v) = w.step + 1
      BY <3>2 DEF Frontier
    <3>4. \A x \in Moves : Unbegun(x) /\ x # <<motion, w.step>> => Unbegun(x)'
      BY <2>2, <2>3, <3>1 DEF Unbegun
    <3>5. \A j \in Frontier(v)..Steps : <<motion, j>> \in Moves /\ Unbegun(<<motion, j>>) /\ j # w.step
      BY <3>1, <3>3, FrontierTyped, LinkFacts DEF StepsOK
    <3>6. \A j \in Frontier(v)..Steps : Unbegun(<<motion, j>>)'
      BY <2>2, <3>4, <3>5, MovesArePairs
    <3>7. WorkerOK'
      BY <2>2, <3>2, <3>6 DEF WorkerOK
    <3>8. FutureOK'
      BY <2>2, <3>4, LinkFacts, MovesArePairs DEF FutureOK, StepsOK
    <3>. QED
      BY <2>3, <3>7, <3>8 DEF StepsOK, ArmOK, FutureOK, WorkerOK
  <2>. QED
    BY <2>4, <2>5
<1>5. CASE CheckLink
  <2>1. UNCHANGED <<ran, robot, toRobot, motion>>
    BY <1>5, CheckLinkFields DEF armVars, netVars
  <2>. QED
    BY <1>2, <1>5, <2>1, NothingBegins, WorkerGoesOn
<1>6. CASE LegacyStep
  <2>. DEFINE w == caller["worker"]
              v == caller'["worker"]
              x == <<motion, w.step>>
  <2>1. /\ w.pc = "legacy" /\ motion' = motion /\ toRobot' = <<>> /\ robot'.cmd.op # "step"
        /\ ran' = [ran EXCEPT ![x] = @ + 1]
        /\ v.pc = "free" \/ (v.pc = "legacy" /\ v.step = w.step + 1)
    BY <1>6, LegacyStepFields, LinkFacts DEF GivesUp, Programs
  <2>2. Frontier(w) = w.step /\ w.step \in Frontier(w)..Steps /\ w.step \in Nat
    BY <2>1, LinkFacts DEF Frontier
  <2>3. x \in Moves /\ ran[x] = 0
    BY <2>1, <2>2, FrontierTyped DEF StepsOK, Unbegun
  <2>4. /\ ran'[x] = 1 /\ \A y \in Moves \ {x} : ran'[y] = ran[y]
        /\ \A y \in Moves : ran'[y] <= 1
    BY <2>1, <2>3, OneBegins
  <2>5. ArmOK'
    BY <2>1, <2>4 DEF ArmOK
  <2>6. \A y \in Moves : Unbegun(y) /\ y # x => Unbegun(y)'
    BY <2>1, <2>4 DEF Unbegun, Awaited
  <2>7. FutureOK'
    BY <2>1, <2>6, LinkFacts, MovesArePairs DEF FutureOK, StepsOK
  <2>8. WorkerOK'
    <3>1. CASE v.pc = "free"
      BY <3>1 DEF WorkerOK
    <3>2. CASE v.pc = "legacy" /\ v.step = w.step + 1
      <4>1. Frontier(v) = w.step + 1
        BY <3>2 DEF Frontier
      <4>2. \A j \in Frontier(v)..Steps : <<motion, j>> \in Moves /\ Unbegun(<<motion, j>>) /\ j # w.step
        BY <2>1, <2>2, <4>1, FrontierTyped, LinkFacts DEF StepsOK
      <4>3. \A j \in Frontier(v)..Steps : Unbegun(<<motion, j>>)'
        BY <2>1, <2>6, <4>2, MovesArePairs
      <4>. QED
        BY <2>1, <3>2, <4>3 DEF WorkerOK
    <3>. QED
      BY <2>1, <3>1, <3>2
  <2>. QED
    BY <2>5, <2>7, <2>8 DEF StepsOK, ArmOK, FutureOK, WorkerOK
<1>7. CASE StartMotion
  <2>. DEFINE v == caller'["worker"]
  <2>1. /\ motion' = motion + 1 /\ motion' \in Motions /\ UNCHANGED <<ran, robot, toRobot>>
        /\ v.pc = "check" /\ v.step = 1
    BY <1>7, StartMotionFields DEF armVars, netVars
  <2>2. \A x \in Moves : Unbegun(x) => Unbegun(x)'
    BY <1>2, <2>1 DEF Unbegun
  <2>3. Frontier(v) = 1
    BY <2>1 DEF Frontier
  <2>4. \A j \in 1..Steps : <<motion', j>> \in Moves /\ <<motion', j>>[1] = motion'
    BY <2>1, LinkFacts, MovesArePairs
  <2>5. \A y \in Moves : y[1] = motion' => Unbegun(y)'
    BY <2>1, <2>2, LinkFacts DEF StepsOK
  <2>6. (\A j \in 1..Steps : Unbegun(<<motion, j>>))'
    BY <2>4, <2>5
  <2>7. WorkerOK'
    BY <2>1, <2>3, <2>6 DEF WorkerOK
  <2>8. FutureOK'
    BY <2>1, <2>2, LinkFacts, MovesArePairs DEF FutureOK, StepsOK
  <2>9. ArmOK'
    BY <1>2, <2>1
  <2>. QED
    BY <2>7, <2>8, <2>9 DEF StepsOK, ArmOK, FutureOK, WorkerOK
<1>8. ASSUME UNCHANGED <<ran, robot, motion>>, toRobot' = toRobot \/ toRobot' = <<>>,
             caller'["worker"] = caller["worker"] \/ caller'["worker"].pc = "free"
      PROVE  StepsOK'
  BY <1>8, FewerAwaited, NothingBegins
<1>9. CASE ToggleOutput \/ RecoverMotion \/ (\E s \in Seqs : ReconcileCommand(s)) \/ ClearLatch
           \/ Bootstrap \/ ApplyCompletion
  <2>1. UNCHANGED <<ran, robot, motion, toRobot>>
    BY <1>9 DEF ToggleOutput, RecoverMotion, ReconcileCommand, ClearLatch, Bootstrap, ApplyCompletion,
       motionVars, netVars, armVars
  <2>2. \A op : Request(op) => caller'["worker"] = caller["worker"]
    BY LinkFacts DEF Request
  <2>3. caller'["worker"] = caller["worker"]
    BY <1>9, <2>2, LinkFacts DEF ToggleOutput, RecoverMotion, ReconcileCommand, ClearLatch, Bootstrap,
       ApplyCompletion
  <2>. QED
    BY <1>8, <2>1, <2>3
<1>10. CASE Connection \/ Telemetry
  <2>1. UNCHANGED <<ran, robot, motion>> /\ (toRobot' = toRobot \/ toRobot' = <<>>)
    BY <1>10 DEF Connection, AppHears, AppDisconnects, Break, Restart, Telemetry, motionVars, netVars, armVars
  <2>2. caller'["worker"] = caller["worker"] \/ caller'["worker"].pc = "free"
    BY <1>10, LinkFacts DEF Connection, AppHears, AppDisconnects, Break, Restart, Telemetry
  <2>. QED
    BY <1>8, <2>1, <2>2
<1>11. ASSUME UNCHANGED <<ran, motion>>, caller'["worker"] = caller["worker"],
              \/ toRobot' = toRobot \/ toRobot' = <<>>
              \/ toRobot # <<>> /\ toRobot' = Tail(toRobot),
              \/ robot'.cmd = robot.cmd
                 /\ (robot'.pc \in {"idle", "starting"} => robot.pc \in {"idle", "starting"})
                 /\ (robot'.pc = "moving" => robot.pc = "moving")
              \/ robot'.cmd = NoCommand
              \/ /\ ~Busy /\ toRobot # <<>> /\ toRobot' = Tail(toRobot) /\ robot'.cmd = Head(toRobot)
                 /\ robot'.pc = robot.pc
       PROVE  StepsOK'
  BY <1>11, FewerAwaited, NothingBegins
<1>12. CASE SeedProgram
  <2>1. /\ UNCHANGED <<ran, motion>> /\ caller'["worker"] = caller["worker"] /\ toRobot' = <<>>
        /\ robot'.cmd = NoCommand
    BY <1>12, LinkFacts DEF SeedProgram, Program, motionVars, armVars
  <2>. QED
    BY <1>11, <2>1
<1>13. CASE RobotHears
  <2>1. UNCHANGED <<ran, motion, caller>> /\ toRobot # <<>> /\ toRobot' = Tail(toRobot)
    BY <1>13 DEF RobotHears, motionVars, armVars
  <2>2. robot'.pc = robot.pc /\ (Busy => robot'.cmd = robot.cmd) /\ (~Busy => robot'.cmd = Head(toRobot))
    BY <1>13, HeardFields
  <2>. QED
    BY <1>11, <2>1, <2>2
<1>14. CASE RobotTakes
  <2>1. UNCHANGED <<ran, motion, caller, toRobot>>
    BY <1>14 DEF RobotTakes, motionVars, netVars, armVars
  <2>2. robot'.cmd = robot.cmd /\ robot.pc = "idle" /\ robot'.pc \in {"starting", "reporting", "leaving"}
    BY <1>14, TakenFields DEF Repeats, Clears, Leaves, Refuses, Accepts
  <2>. QED
    BY <1>11, <2>1, <2>2
<1>15. CASE RobotProceeds /\ ~(Begins /\ robot.cmd.op = "step")
  <2>1. UNCHANGED <<motion, caller>>
    BY <1>15 DEF RobotProceeds, motionVars
  <2>2. CASE Begins /\ UNCHANGED netVars
    <3>1. ran' = ran /\ toRobot' = toRobot /\ robot'.cmd = robot.cmd /\ robot'.pc = "moving"
      BY <1>15, <2>2 DEF Begins, RobotProceeds, netVars
    <3>2. robot'.cmd.op # "step"
      BY <1>15, <2>2, <3>1
    <3>3. ArmOK' /\ \A x \in Moves : Awaited(x)' => Awaited(x)
      BY <3>1, <3>2 DEF StepsOK, ArmOK, Awaited
    <3>. QED
      BY <2>1, <3>1, <3>3, NothingBegins
  <2>3. CASE Settles /\ UNCHANGED <<ran, netVars>>
    BY <1>11, <2>1, <2>3 DEF Settles, netVars
  <2>4. CASE Ends /\ toRobot' = <<>> /\ ran' = ran
    BY <1>11, <2>1, <2>4 DEF Ends
  <2>. QED
    BY <1>15, <2>2, <2>3, <2>4, ProceedsFields
<1>16. CASE RobotProceeds /\ Begins /\ robot.cmd.op = "step"
  <2>. DEFINE x == robot.cmd.move
  <2>1. /\ UNCHANGED <<motion, caller, toRobot>> /\ ran' = [ran EXCEPT ![x] = @ + 1]
        /\ robot'.cmd = robot.cmd /\ robot'.pc = "moving" /\ robot.pc = "starting"
    BY <1>16 DEF RobotProceeds, Begins, motionVars, netVars
  <2>2. x \in Moves /\ ran[x] = 0 /\ Awaited(x)
    BY <1>16, <2>1, StepCommandsMove DEF StepsOK, Awaited
  <2>3. /\ ran'[x] = 1 /\ \A y \in Moves \ {x} : ran'[y] = ran[y]
        /\ \A y \in Moves : ran'[y] <= 1
    BY <2>1, <2>2, OneBegins
  <2>4. \A y \in Moves : Unbegun(y) => Unbegun(y)'
    BY <2>1, <2>2, <2>3 DEF Unbegun, Awaited
  <2>5. ArmOK'
    <3>1. \A i \in 1..Len(toRobot) : toRobot[i].op = "step" => toRobot[i].move # x /\ toRobot[i].move \in Moves
      BY <1>16, <2>1, StepCommandsMove DEF StepsOK
    <3>. QED
      BY <2>1, <2>3, <3>1 DEF StepsOK, ArmOK
  <2>6. FutureOK'
    BY <2>1, <2>4 DEF FutureOK, StepsOK
  <2>7. WorkerOK'
    BY <2>1, <2>4, FrontierTyped DEF WorkerOK, StepsOK
  <2>. QED
    BY <2>5, <2>6, <2>7 DEF StepsOK, ArmOK, FutureOK, WorkerOK
<1>17. CASE RobotConnects \/ RobotSendsEvent \/ RobotLosesLink
  <2>1. UNCHANGED <<ran, motion, caller>> /\ (toRobot' = toRobot \/ toRobot' = <<>>)
    BY <1>17 DEF RobotConnects, RobotSendsEvent, RobotLosesLink, motionVars, armVars
  <2>2. robot'.cmd = robot.cmd /\ robot'.pc = robot.pc
    BY <1>17, LinkFacts DEF RobotConnects, RobotSendsEvent, RobotLosesLink, Programs
  <2>. QED
    BY <1>11, <2>1, <2>2
<1>18. CASE RobotFinishes
  <2>1. UNCHANGED <<ran, motion, caller, toRobot>>
    BY <1>18 DEF RobotFinishes, motionVars, netVars
  <2>. QED
    BY <1>11, <1>18, <2>1, FinishesFields
<1>19. CASE RobotStops
  <2>1. UNCHANGED <<ran, motion, caller>> /\ toRobot' = <<>>
    BY <1>19 DEF RobotStops, motionVars, armVars
  <2>2. robot'.cmd = NoCommand
    BY <1>19, LinkFacts DEF RobotStops, Programs
  <2>. QED
    BY <1>11, <2>1, <2>2
<1>. QED
  BY <1>3, <1>4, <1>5, <1>6, <1>7, <1>9, <1>10, <1>12, <1>13, <1>14, <1>15, <1>16, <1>17, <1>18, <1>19
     DEF Next, Worker, Operator, Robot, Callers

-----------------------------------------------------------------------------
(* What a report says of its step.                                         *)

\* A finished step stays finished.
LEMMA DoneGrows ==
  ASSUME LinkTyped, Next
  PROVE  done \subseteq done'
<1>1. ASSUME NEW c \in Callers, Thread(c)
      PROVE  done' = done
  BY <1>1 DEF Thread, Reserve, ReserveFails, Dispatch, Transmit, Release, ReleaseLost, Record, Verdict,
     WaitExpires, armVars
<1>2. CASE LegacyStep
  BY <1>2, LegacyStepFields
<1>3. CASE CheckLink \/ SeedProgram \/ Operator \/ Connection
  BY <1>3 DEF CheckLink, SeedProgram, Operator, StartMotion, ToggleOutput, RecoverMotion, ReconcileCommand,
     ClearLatch, Bootstrap, ApplyCompletion, Connection, AppHears, AppDisconnects, Break, Restart, armVars
<1>4. CASE Robot
  BY <1>4 DEF Robot, RobotConnects, RobotHears, RobotSendsEvent, Telemetry, RobotLosesLink, RobotTakes,
     RobotProceeds, RobotFinishes, RobotStops, armVars
<1>. QED
  BY <1>1, <1>2, <1>3, <1>4 DEF Next, Worker, Callers

\* What was said of a sequence that may have left stays true.
LEMMA FinishedIsKept ==
  ASSUME LinkTyped, CallersOK, Next, NEW s \in 0..MaxSequence, Sent(s)
  PROVE  Sent(s)' /\ (Finished(s) => Finished(s)')
<1>1. Sent(s)'
  BY SentIsKept
<1>2. s > 0 => s \in Seqs
  BY LinkFacts
<1>3. Finished(s) => Finished(s)'
  BY <1>2, SentRowIsKept, DoneGrows DEF Finished
<1>. QED
  BY <1>1, <1>3

\* The parts of ReportsOK: what the program holds, what is on its way, and what
\* the manager remembers.
HeldOK ==
  /\ robot.event \in Terminal => Finished(robot.last)
  /\ robot.unsent => Sent(robot.pending.seq) /\ (SaysDone(robot.pending) => Finished(robot.pending.seq))
  /\ robot.unsent /\ robot.pending.code = "completed" => robot.pending.seq = robot.last
FrameOK(f) ==
  /\ Sent(f.seq)
  /\ f.kind = "hello" /\ f.code \in Terminal => Finished(f.seq)
  /\ f.kind = "event" /\ SaysDone(f) => Finished(f.seq)
  /\ f.kind = "event" /\ f.code = "completed" => f.last = f.seq
CarriedOK == \A i \in 1..Len(toApp) : FrameOK(toApp[i])
HeardOK == \A s \in Seqs : events[s].code # "none" => Sent(s) /\ (SaysDone(events[s]) => Finished(s))

\* The invariant of the reports is the sum of its parts.
LEMMA ReportsParts ==
  /\ ReportsOK <=> HeldOK /\ CarriedOK /\ HeardOK
  /\ HeldOK' /\ CarriedOK' /\ HeardOK' => ReportsOK'
BY DEF ReportsOK, HeldOK, CarriedOK, FrameOK, HeardOK

\* Types of the frames that go to the application.
LEMMA FrameTypes ==
  ASSUME LinkTyped
  PROVE  /\ robot.event \in Codes /\ robot.fault \in Faults
         /\ robot.pending.seq \in 0..MaxSequence /\ (robot.unsent => robot.pending.seq \in Seqs)
         /\ \A i \in 1..Len(toApp) : toApp[i].seq \in 0..MaxSequence /\ toApp[i].kind \in {"hello", "event"}
         /\ \A i \in 1..Len(toApp) : toApp[i].kind = "event" => toApp[i] \in Reports
         /\ \A i \in 1..Len(toApp) : toApp[i].kind = "hello" => toApp[i] \in Hellos
         /\ \A s \in Seqs : s \in 0..MaxSequence /\ s > 0
<1>1. \A f \in Hellos \cup Reports :
        /\ f.seq \in 0..MaxSequence /\ f.kind \in {"hello", "event"}
        /\ f.kind = "event" => f \in Reports
        /\ f.kind = "hello" => f \in Hellos
  BY Numbers DEF Hellos, Reports, Seqs
<1>2. \A i \in 1..Len(toApp) : toApp[i] \in Hellos \cup Reports
  BY LinkFacts
<1>3. \A s \in Seqs : s \in 0..MaxSequence /\ s > 0
  BY LinkFacts
<1>. QED
  BY <1>1, <1>2, <1>3 DEF LinkTyped, RobotTyped, Programs

\* Frames that were recorded as honest stay so.
LEMMA FrameIsKept ==
  ASSUME LinkTyped, CallersOK, Next, NEW f \in Hellos \cup Reports, FrameOK(f)
  PROVE  FrameOK(f)'
<1>1. f.seq \in 0..MaxSequence
  BY Numbers DEF Hellos, Reports, Seqs
<1>2. Sent(f.seq)' /\ (Finished(f.seq) => Finished(f.seq)')
  BY <1>1, FinishedIsKept DEF FrameOK
<1>. QED
  BY <1>2 DEF FrameOK, SaysDone

\* The program's own report is kept while it neither counts on nor reports anew.
LEMMA HeldStays ==
  ASSUME LinkTyped, CallersOK, FramesOK, HeldOK, Next,
         robot'.last = robot.last, robot'.event = robot.event,
         robot'.unsent => robot.unsent /\ robot'.pending = robot.pending
  PROVE  HeldOK'
<1>1. robot.last \in 0..MaxSequence /\ Sent(robot.last) /\ robot.pending.seq \in 0..MaxSequence
  BY LinkFacts, FrameTypes DEF FramesOK
<1>2. /\ Finished(robot.last) => Finished(robot.last)'
  <2>1. \A n \in 0..MaxSequence : Sent(n) /\ Finished(n) => Finished(n)'
    BY FinishedIsKept
  <2>. QED
    BY <1>1, <2>1
<1>3. robot'.unsent => Sent(robot.pending.seq)' /\ (SaysDone(robot.pending)' => Finished(robot.pending.seq)')
  <2>1. \A n \in 0..MaxSequence : Sent(n) => Sent(n)' /\ (Finished(n) => Finished(n)')
    BY FinishedIsKept
  <2>. QED
    BY <1>1, <2>1 DEF HeldOK, SaysDone
<1>. QED
  BY <1>2, <1>3 DEF HeldOK

\* ... and when it reports anew, what it says is true.
LEMMA HeldStep ==
  ASSUME LinkTyped, WireOK, CallersOK, FramesOK, HeldOK, Next
  PROVE  HeldOK'
<1>1. /\ robot \in Programs /\ robot.last \in 0..MaxSequence /\ Sent(robot.last)
      /\ \A n \in 0..MaxSequence : Sent(n) => Sent(n)' /\ (Finished(n) => Finished(n)')
  BY LinkFacts, FinishedIsKept DEF FramesOK
<1>2. CASE robot' = robot
  BY <1>2, HeldStays
<1>3. CASE RobotConnects \/ RobotLosesLink \/ RobotStops \/ LegacyStep \/ RobotSendsEvent
  <2>1. /\ robot'.last = robot.last /\ robot'.event = robot.event
        /\ robot'.unsent => robot.unsent /\ robot'.pending = robot.pending
    BY <1>1, <1>3 DEF RobotConnects, RobotLosesLink, RobotStops, LegacyStep, RobotSendsEvent, Programs
  <2>. QED
    BY <2>1, HeldStays
<1>4. CASE SeedProgram
  <2>1. robot'.event = "idle" /\ ~robot'.unsent
    BY <1>4 DEF SeedProgram, Program
  <2>. QED
    BY <2>1 DEF HeldOK, Terminal
<1>5. ASSUME robot'.last = robot.last, robot'.event = robot.event,
             robot'.pending = [seq |-> robot.last, code |-> robot.event, fault |-> robot.fault]
      PROVE  HeldOK'
  <2>1. robot'.pending.code = robot.event /\ robot'.pending.seq = robot.last
    BY <1>5
  <2>2. SaysDone(robot.pending)' => robot.event \in Terminal
    BY <2>1 DEF SaysDone, Terminal
  <2>3. robot.event \in Terminal => Finished(robot.last)'
    BY <1>1, <1>5 DEF HeldOK
  <2>. QED
    BY <1>1, <1>5, <2>1, <2>2, <2>3 DEF HeldOK
<1>6. CASE RobotHears
  <2>1. CASE Busy /\ Head(toRobot).seq = robot.last
    BY <1>5, <1>6, <2>1, HeardFields
  <2>2. CASE ~(Busy /\ Head(toRobot).seq = robot.last)
    BY <1>6, <2>2, HeardFields, HeldStays
  <2>. QED
    BY <2>1, <2>2
<1>7. CASE RobotTakes
  <2>1. /\ robot.cmd.seq \in 0..MaxSequence /\ Recorded(robot.cmd) /\ ledger' = ledger
        /\ robot'.cmd = robot.cmd /\ Sent(robot.cmd.seq)'
    <3>1. robot.cmd.seq \in 0..MaxSequence /\ Recorded(robot.cmd) /\ robot'.cmd = robot.cmd
      BY <1>7, TakenFields, Numbers DEF FramesOK, Commands, Seqs
    <3>2. Sent(robot.cmd.seq)'
      BY <1>1, <3>1 DEF Recorded
    <3>. QED
      BY <1>7, <3>1, <3>2 DEF RobotTakes, dbVars
  <2>2. CASE Repeats
    BY <1>5, <2>2 DEF Repeats
  <2>3. CASE Clears \/ Leaves
    <3>1. Finished(robot.cmd.seq)'
      BY <2>1, <2>3 DEF Clears, Leaves, Recorded, Finished
    <3>2. robot'.last = robot.cmd.seq /\ robot'.pending.seq = robot.cmd.seq
      BY <2>3 DEF Clears, Leaves
    <3>. QED
      BY <2>1, <3>1, <3>2 DEF HeldOK
  <2>4. CASE Refuses
    <3>1. /\ robot'.pending.seq = robot.cmd.seq /\ robot'.pending.code = "latched"
          /\ robot'.pending.fault = "sequence" /\ robot'.last = robot.last /\ robot'.event = robot.event
      BY <2>4 DEF Refuses
    <3>2. robot.event \in Terminal => Finished(robot.last)'
      BY <1>1, <3>1 DEF HeldOK
    <3>. QED
      BY <2>1, <3>1, <3>2 DEF HeldOK, SaysDone
  <2>5. CASE Accepts
    <3>1. robot'.pending.seq = robot.cmd.seq /\ robot'.pending.code = "running" /\ robot'.event = "running"
      BY <2>5 DEF Accepts
    <3>. QED
      BY <2>1, <3>1 DEF HeldOK, SaysDone, Terminal
  <2>. QED
    BY <1>7, <2>2, <2>3, <2>4, <2>5, TakenFields
<1>8. CASE RobotProceeds
  BY <1>8, ProceedsFields, HeldStays
<1>9. CASE RobotFinishes
  <2>1. robot.cmd \in Commands /\ Recorded(robot.cmd) /\ robot.last = robot.cmd.seq /\ ledger' = ledger
    <3>1. robot.pc = "moving" /\ ledger' = ledger
      BY <1>9 DEF RobotFinishes, dbVars
    <3>. QED
      BY <3>1, LinkFacts DEF WireOK, FramesOK, Busy
  <2>2. done' = (IF robot.cmd.op = "step" THEN done \cup {robot.cmd.move} ELSE done)
    BY <1>9 DEF RobotFinishes
  <2>3. Finished(robot.last)'
    BY <1>9, <2>1, <2>2, FinishesFields DEF Recorded, Finished
  <2>4. Sent(robot.last)'
    BY <1>1, <1>9, FinishesFields
  <2>. QED
    BY <1>9, <2>3, <2>4, FinishesFields DEF HeldOK
<1>10. ASSUME NEW c \in Callers, Thread(c)
      PROVE  robot' = robot
  BY <1>10, ThreadLeaves
<1>11. CASE CheckLink \/ Operator \/ Connection \/ Telemetry
  <2>1. robot' = robot
    BY <1>11 DEF CheckLink, Operator, StartMotion, ToggleOutput, RecoverMotion, ReconcileCommand,
       ClearLatch, Bootstrap, ApplyCompletion, Connection, AppHears, AppDisconnects, Break, Restart, Telemetry
  <2>. QED
    BY <1>2, <2>1
<1>. QED
  BY <1>2, <1>3, <1>4, <1>6, <1>7, <1>8, <1>9, <1>10, <1>11 DEF Next, Worker, Robot, Callers

\* What is on its way to the application is true.
LEMMA CarriedStep ==
  ASSUME LinkTyped, WireOK, CallersOK, FramesOK, HeldOK, CarriedOK, Next
  PROVE  CarriedOK'
<1>1. /\ toApp \in Seq(Hellos \cup Reports)
      /\ \A i \in 1..Len(toApp) : toApp[i] \in Hellos \cup Reports /\ FrameOK(toApp[i])
      /\ \A f \in Hellos \cup Reports : FrameOK(f) => FrameOK(f)'
      /\ \A n \in 0..MaxSequence : Sent(n) => Sent(n)' /\ (Finished(n) => Finished(n)')
      /\ robot \in Programs /\ robot.last \in 0..MaxSequence /\ Sent(robot.last)
  BY LinkFacts, FrameIsKept, FinishedIsKept DEF CarriedOK, FramesOK
<1>2. ASSUME \A i \in 1..Len(toApp') : \E j \in 1..Len(toApp) : toApp'[i] = toApp[j]
      PROVE  CarriedOK'
  BY <1>1, <1>2 DEF CarriedOK
<1>3. CASE toApp' = toApp \/ toApp' = <<>>
  BY <1>2, <1>3
<1>4. ASSUME NEW f, toApp' = Append(toApp, f), \A g : g = f => FrameOK(g)'
      PROVE  CarriedOK'
  <2>1. \A i \in 1..Len(toApp') : (i \in 1..Len(toApp) /\ toApp'[i] = toApp[i]) \/ toApp'[i] = f
    BY <1>1, <1>4
  <2>. QED
    BY <1>1, <1>4, <2>1 DEF CarriedOK
<1>5. CASE RobotConnects
  <2>. DEFINE f == [kind |-> "hello", session |-> robot.session, seq |-> robot.last,
                    code |-> robot.event, latched |-> robot.latched]
  <2>1. toApp' = Append(toApp, f)
    BY <1>5 DEF RobotConnects
  <2>2. Sent(robot.last)' /\ (robot.event \in Terminal => Finished(robot.last)')
        /\ robot'.last = robot.last
    BY <1>1, <1>5 DEF HeldOK, RobotConnects, Programs
  <2>3. \A g : g = f => FrameOK(g)'
    BY <2>2 DEF FrameOK
  <2>. QED
    BY <1>4, <2>1, <2>3
<1>6. CASE RobotSendsEvent
  <2>. DEFINE p == robot.pending
              f == [kind |-> "event", session |-> robot.session, seq |-> p.seq, code |-> p.code,
                    fault |-> p.fault, last |-> robot.last]
  <2>1. robot.unsent /\ (toApp' = toApp \/ toApp' = Append(toApp, f))
    BY <1>6 DEF RobotSendsEvent, RobotSays
  <2>2. /\ p.seq \in 0..MaxSequence /\ Sent(p.seq) /\ (SaysDone(p) => Finished(p.seq))
        /\ p.code = "completed" => p.seq = robot.last
    BY <2>1, FrameTypes DEF HeldOK
  <2>3. \A n : n = p.seq => Sent(n)' /\ (SaysDone(p) => Finished(n)')
    BY <1>1, <2>2
  <2>4. ASSUME NEW g, g = f
        PROVE  FrameOK(g)'
    <3>1. /\ g.kind = "event" /\ g.seq = p.seq /\ g.code = p.code /\ g.fault = p.fault
          /\ g.last = robot.last
      BY <2>4
    <3>2. Sent(g.seq)' /\ (SaysDone(g) => Finished(g.seq)')
      BY <2>3, <3>1 DEF SaysDone
    <3>. QED
      BY <2>2, <3>1, <3>2 DEF FrameOK, SaysDone
  <2>. QED
    BY <1>3, <1>4, <2>1, <2>4
<1>7. CASE AppHears
  <2>1. toApp # <<>> /\ toApp' = Tail(toApp)
    BY <1>7 DEF AppHears
  <2>. QED
    BY <1>1, <1>2, <2>1
<1>8. CASE AppDisconnects \/ Break \/ Restart
  BY <1>3, <1>8 DEF AppDisconnects, Break, Restart, netVars
<1>9. ASSUME NEW c \in Callers, Thread(c)
      PROVE  CarriedOK'
  BY <1>3, <1>9, ThreadLeaves
<1>10. CASE CheckLink \/ LegacyStep \/ SeedProgram \/ Operator
  BY <1>3, <1>10 DEF CheckLink, LegacyStep, SeedProgram, Operator, StartMotion, ToggleOutput,
     RecoverMotion, ReconcileCommand, ClearLatch, Bootstrap, ApplyCompletion, netVars
<1>11. CASE RobotHears \/ Telemetry \/ RobotLosesLink \/ RobotTakes \/ RobotProceeds \/ RobotFinishes \/ RobotStops
  BY <1>3, <1>11 DEF RobotHears, Telemetry, RobotLosesLink, RobotTakes, RobotProceeds, RobotFinishes,
     RobotStops, netVars
<1>. QED
  BY <1>5, <1>6, <1>7, <1>8, <1>9, <1>10, <1>11 DEF Next, Worker, Robot, Connection, Callers

\* What the manager remembers is true.
LEMMA HeardStep ==
  ASSUME LinkTyped, CallersOK, CarriedOK, HeardOK, Next
  PROVE  HeardOK'
<1>1. \A n \in Seqs : Sent(n) => Sent(n)' /\ (Finished(n) => Finished(n)')
  BY FinishedIsKept, FrameTypes
<1>2. ASSUME \A s \in Seqs : events'[s] = events[s] \/ events'[s] = NoReport
      PROVE  HeardOK'
  <2>1. NoReport.code = "none"
    BY DEF NoReport
  <2>. QED
    BY <1>1, <1>2, <2>1 DEF HeardOK, SaysDone
<1>3. CASE AppHears
  <2>1. toApp # <<>> /\ Head(toApp) = toApp[1] /\ 1 \in 1..Len(toApp) /\ FrameOK(Head(toApp))
    BY <1>3, LinkFacts DEF AppHears, CarriedOK
  <2>2. CASE HeardHello(Head(toApp))
    BY <1>2, <2>2 DEF HeardHello
  <2>3. CASE Head(toApp).kind = "event" /\ HeardEvent(Head(toApp)) /\ Acceptable(Head(toApp))
    <3>. DEFINE f == Head(toApp)
    <3>1. /\ f.seq \in Seqs /\ events \in [Seqs -> [code : Codes, fault : Faults, session : Nat]]
      BY <2>1, <2>3, FrameTypes DEF LinkTyped, AppTyped, Reports
    <3>2. /\ events'[f.seq].code = f.code /\ events'[f.seq].fault = f.fault
          /\ \A s \in Seqs \ {f.seq} : events'[s] = events[s]
      BY <2>3, <3>1 DEF HeardEvent
    <3>3. Sent(f.seq) /\ (SaysDone(f) => Finished(f.seq))
      BY <2>1, <2>3 DEF FrameOK
    <3>4. \A s \in Seqs : s = f.seq => Sent(s)' /\ (SaysDone(f) => Finished(s)')
      BY <1>1, <3>3
    <3>5. \A s \in Seqs \ {f.seq} : (events[s].code # "none" => Sent(s) /\ (SaysDone(events[s]) => Finished(s)))'
      BY <1>1, <3>2 DEF HeardOK, SaysDone
    <3>6. \A s \in Seqs : s = f.seq => (events[s].code # "none" => Sent(s) /\ (SaysDone(events[s]) => Finished(s)))'
      BY <3>2, <3>4 DEF SaysDone
    <3>. QED
      BY <3>5, <3>6 DEF HeardOK
  <2>4. CASE HeardEvent(Head(toApp)) /\ ~Acceptable(Head(toApp))
    BY <1>2, <2>4 DEF HeardEvent
  <2>5. CASE UNCHANGED appVars
    BY <1>2, <2>5 DEF appVars
  <2>. QED
    BY <1>3, <2>2, <2>3, <2>4, <2>5 DEF AppHears
<1>4. CASE AppDisconnects \/ Break \/ Restart
  <2>1. events' = events \/ events' = [s \in Seqs |-> NoReport]
    BY <1>4 DEF AppDisconnects, Break, Restart, appVars
  <2>. QED
    BY <1>2, <2>1
<1>5. ASSUME NEW c \in Callers, Thread(c)
      PROVE  HeardOK'
  BY <1>2, <1>5, ThreadLeaves
<1>6. CASE CheckLink \/ LegacyStep \/ SeedProgram \/ Operator \/ Robot
  <2>1. events' = events
    BY <1>6 DEF CheckLink, LegacyStep, SeedProgram, Operator, StartMotion, ToggleOutput,
     RecoverMotion, ReconcileCommand, ClearLatch, Bootstrap, ApplyCompletion, appVars,
     Robot, RobotConnects, RobotHears, RobotSendsEvent, Telemetry, RobotLosesLink, RobotTakes,
     RobotProceeds, RobotFinishes, RobotStops
  <2>. QED
    BY <1>2, <2>1
<1>. QED
  BY <1>3, <1>4, <1>5, <1>6 DEF Next, Worker, Connection, Callers

\* Every report in the system stays true.
LEMMA ReportsStep ==
  ASSUME LinkTyped, WireOK, CallersOK, FramesOK, ReportsOK, Next
  PROVE  ReportsOK'
<1>1. HeldOK /\ CarriedOK /\ HeardOK
  BY ReportsParts
<1>. QED
  BY <1>1, HeldStep, CarriedStep, HeardStep, ReportsParts

-----------------------------------------------------------------------------
(* What becomes of a movement.                                             *)

\* Rows of steps are written by the worker only.
LEMMA RowsStep ==
  ASSUME LinkTyped, CallersOK, Next, NEW s \in Seqs, ledger'[s].op = "step"
  PROVE  \/ ledger[s].op = "step" /\ ledger'[s].move = ledger[s].move
         \/ /\ Reserve("worker") /\ s = lastSeq'
            /\ ledger'[s].move = <<motion, caller["worker"].step>>
<1>1. LedgerTyped /\ NoRow.op = "none" /\ "worker" \in Callers
  BY LinkFacts DEF LinkTyped, NoRow
<1>2. ASSUME NEW n, NEW st, Marks(n, st)
      PROVE  ledger[s].op = "step" /\ ledger'[s].move = ledger[s].move
  BY <1>2 DEF Marks
<1>3. ASSUME NEW c \in Callers, Thread(c)
      PROVE  \/ ledger[s].op = "step" /\ ledger'[s].move = ledger[s].move
             \/ /\ Reserve("worker") /\ s = lastSeq'
                /\ ledger'[s].move = <<motion, caller["worker"].step>>
  <2>1. CASE Reserve(c)
    <3>1. CASE s = lastSeq'
      <4>1. caller[c].op = "step"
        BY <2>1, <3>1, ReserveFields
      <4>2. c = "worker"
        BY <1>3, <4>1 DEF CallersOK, Callers
      <4>. QED
        BY <1>1, <2>1, <3>1, <4>1, <4>2, ReserveFields
    <3>. QED
      BY <2>1, <3>1, ReserveFields
  <2>2. CASE ReserveFails(c) \/ ReleaseLost(c) \/ Dispatch(c) \/ Transmit(c)
    BY <2>2 DEF ReserveFails, ReleaseLost, Dispatch, Transmit, dbVars
  <2>3. CASE Release(c)
    BY <1>1, <2>3, ReleaseFields
  <2>4. CASE Record(c) \/ Verdict(c) \/ WaitExpires(c)
    BY <1>2, <2>4, RecordFields, VerdictFields, WaitExpiresFields
  <2>. QED
    BY <1>3, <2>1, <2>2, <2>3, <2>4 DEF Thread
<1>4. CASE ApplyCompletion
  BY <1>1, <1>2, <1>4, MarksRow DEF ApplyCompletion
<1>5. ASSUME NEW n \in Seqs, ReconcileCommand(n)
      PROVE  ledger[s].op = "step" /\ ledger'[s].move = ledger[s].move
  BY <1>1, <1>2, <1>5, MarksRow DEF ReconcileCommand
<1>6. CASE CheckLink \/ LegacyStep \/ StartMotion \/ ToggleOutput \/ ClearLatch \/ RecoverMotion \/ Bootstrap
           \/ SeedProgram \/ Connection \/ Robot
  <2>1. ledger' = ledger
    BY <1>6 DEF CheckLink, LegacyStep, StartMotion, ToggleOutput, ClearLatch, RecoverMotion, Bootstrap,
     SeedProgram, Connection, AppHears, AppDisconnects, Break, Restart, Robot, RobotConnects,
     RobotHears, RobotSendsEvent, Telemetry, RobotLosesLink, RobotTakes, RobotProceeds, RobotFinishes,
     RobotStops, dbVars
  <2>. QED
    BY <2>1
<1>. QED
  BY <1>3, <1>4, <1>5, <1>6 DEF Next, Worker, Operator, Callers

\* How the verdict of a movement changes.
Becomes(verdict) == motion' = motion /\ outcome' = [outcome EXCEPT ![motion] = verdict]
Reported == /\ Becomes("succeeded") /\ Verdict("worker") /\ caller["worker"].step = Steps
            /\ events[caller["worker"].seq].code = "completed"
RunByLegacy == /\ Becomes("succeeded") /\ LegacyStep /\ caller["worker"].step = Steps
               /\ done' = done \cup {<<motion, Steps>>}
Pieced == Becomes("succeeded") /\ ApplyCompletion /\ Confirmed(ledger[lastSeq])

\* A verdict is written in one of these ways or becomes no success.
LEMMA OutcomeStep ==
  ASSUME LinkTyped, CallersOK, Next
  PROVE  \/ UNCHANGED <<motion, outcome>>
         \/ StartMotion
         \/ Becomes("faulted") /\ caller["worker"].pc # "free"
         \/ Reported \/ RunByLegacy \/ Pieced
         \/ Becomes("reconciled") /\ RecoverMotion
         \/ Restart /\ Active /\ Becomes("interrupted")
<1>1. "worker" \in Callers
  BY LinkFacts
<1>2. ASSUME NEW c \in Callers, GivesUp(c), motion' = motion, caller[c].pc # "free"
      PROVE  UNCHANGED <<motion, outcome>> \/ (Becomes("faulted") /\ caller["worker"].pc # "free")
  BY <1>2 DEF GivesUp, Becomes, LeftWith
<1>3. ASSUME NEW c \in Callers, Thread(c)
      PROVE  \/ UNCHANGED <<motion, outcome>>
             \/ Becomes("faulted") /\ caller["worker"].pc # "free"
             \/ Reported
  <2>1. CASE Reserve(c) \/ Dispatch(c) \/ Transmit(c)
    BY <2>1 DEF Reserve, Dispatch, Transmit, motionVars
  <2>2. CASE ReserveFails(c) \/ ReleaseLost(c)
    BY <1>2, <2>2, FailsFields DEF ReserveFails, ReleaseLost
  <2>3. CASE Release(c)
    BY <1>2, <2>3, ReleaseFields DEF TurnsToLegacy
  <2>4. CASE Record(c)
    BY <1>2, <2>4, RecordFields
  <2>5. CASE Verdict(c)
    <3>1. CASE GivesUp(c)
      BY <1>2, <2>5, <3>1, VerdictFields
    <3>2. CASE GetsThere(c) /\ events[caller[c].seq].code = "completed"
      BY <2>5, <3>2, VerdictFields DEF GetsThere, Advances, Reported, Becomes, LeftWith
    <3>3. CASE outcome' = outcome
      BY <2>5, <3>3, VerdictFields
    <3>. QED
      BY <2>5, <3>1, <3>2, <3>3, VerdictFields
  <2>6. CASE WaitExpires(c)
    BY <1>2, <2>6, WaitExpiresFields
  <2>. QED
    BY <1>3, <2>1, <2>2, <2>3, <2>4, <2>5, <2>6 DEF Thread
<1>4. CASE CheckLink
  BY <1>1, <1>2, <1>4, CheckLinkFields
<1>5. CASE LegacyStep
  BY <1>1, <1>2, <1>5, LegacyStepFields DEF RunByLegacy, Becomes, LeftWith
<1>6. CASE RecoverMotion
  BY <1>6 DEF RecoverMotion, Becomes
<1>7. CASE ApplyCompletion
  BY <1>7 DEF ApplyCompletion, Pieced, Becomes
<1>8. CASE Restart
  BY <1>8 DEF Restart, Becomes
<1>9. CASE ToggleOutput \/ ClearLatch \/ Bootstrap \/ SeedProgram \/ Robot \/ AppHears \/ AppDisconnects \/ Break
           \/ \E s \in Seqs : ReconcileCommand(s)
  BY <1>9 DEF ToggleOutput, ClearLatch, Bootstrap, SeedProgram, ReconcileCommand, AppHears, AppDisconnects, Break,
     Robot, RobotConnects, RobotHears, RobotSendsEvent, Telemetry, RobotLosesLink, RobotTakes, RobotProceeds,
     RobotFinishes, RobotStops, motionVars
<1>. QED
  BY <1>3, <1>4, <1>5, <1>6, <1>7, <1>8, <1>9 DEF Next, Worker, Operator, Connection, Callers

\* The parts of OrderOK: the rows of the ledger and the worker.
RowsInOrder ==
  \A s \in Seqs : ledger[s].op = "step" => \A j \in 1..(ledger[s].move[2] - 1) : <<ledger[s].move[1], j>> \in done
WorkerInOrder ==
  LET w == caller["worker"]
  IN  w.pc # "free" =>
        /\ \A j \in 1..(w.step - 1) : <<motion, j>> \in done
        /\ w.op = "clear" /\ w.pc \in {"reserve", "dispatch", "picked", "release", "record", "wait"} =>
             <<motion, w.step>> \in done

\* The worker's own step was finished when its report says so.
LEMMA StepIsDone ==
  ASSUME LinkTyped, CallersOK, ReportsOK, OrderOK, caller["worker"].pc = "wait",
         SaysDone(events[caller["worker"].seq])
  PROVE  <<motion, caller["worker"].step>> \in done
<1>1. /\ caller["worker"].seq \in Seqs /\ ledger[caller["worker"].seq].op = caller["worker"].op
      /\ caller["worker"].op = "step" => ledger[caller["worker"].seq].move = <<motion, caller["worker"].step>>
  <2>1. "worker" \in Callers /\ Holds("worker") /\ caller["worker"].seq \in 0..MaxSequence
    BY LinkFacts DEF Holds
  <2>. QED
    BY <2>1, LinkFacts DEF CallersOK
<1>2. caller["worker"].op \in {"step", "clear"}
  BY DEF CallersOK
<1>3. CASE caller["worker"].op = "step"
  <2>1. Finished(caller["worker"].seq)
    BY <1>1 DEF ReportsOK, SaysDone
  <2>2. caller["worker"].seq > 0
    BY <1>1, LinkFacts
  <2>. QED
    BY <1>1, <1>3, <2>1, <2>2 DEF Finished
<1>4. CASE caller["worker"].op = "clear"
  BY <1>4 DEF OrderOK
<1>. QED
  BY <1>2, <1>3, <1>4

\* The rows of steps stay in order.
LEMMA RowsOrderStep ==
  ASSUME LinkTyped, CallersOK, OrderOK, Next
  PROVE  RowsInOrder'
<1>. DEFINE w == caller["worker"]
<1>1. done \subseteq done' /\ "worker" \in Callers
  BY DoneGrows, LinkFacts
<1>2. ASSUME NEW s \in Seqs, ledger'[s].op = "step"
      PROVE  \A j \in 1..(ledger'[s].move[2] - 1) : <<ledger'[s].move[1], j>> \in done'
  <2>1. CASE ledger[s].op = "step" /\ ledger'[s].move = ledger[s].move
    BY <1>1, <2>1 DEF OrderOK
  <2>2. CASE Reserve("worker") /\ ledger'[s].move = <<motion, w.step>>
    <3>1. w.pc = "reserve"
      BY <1>1, <2>2, ReserveFields
    <3>2. \A j \in 1..(w.step - 1) : <<motion, j>> \in done
      BY <3>1 DEF OrderOK
    <3>3. ledger'[s].move[1] = motion /\ ledger'[s].move[2] = w.step
      BY <2>2
    <3>. QED
      BY <1>1, <3>2, <3>3
  <2>. QED
    BY <1>2, <2>1, <2>2, RowsStep
<1>. QED
  BY <1>2 DEF RowsInOrder

\* The worker goes on only from a step that was finished.
LEMMA WorkerOrderStep ==
  ASSUME LinkTyped, CallersOK, ReportsOK, OrderOK, Next
  PROVE  WorkerInOrder'
<1>. DEFINE w == caller["worker"]
            v == caller'["worker"]
<1>1. /\ done \subseteq done' /\ "worker" \in Callers /\ w.step \in 1..Steps /\ w.step \in Nat
      /\ Idle.pc = "free" /\ motion \in Nat
  BY DoneGrows, LinkFacts
<1>2. CASE v.pc = "free"
  BY <1>2 DEF WorkerInOrder
<1>3. ASSUME v.step = 1, v.op # "clear" \/ v.pc \in {"legacy", "check"}
      PROVE  WorkerInOrder'
  BY <1>3 DEF WorkerInOrder
<1>4. ASSUME w.pc # "free", motion' = motion, v.step = w.step,
             v.op = "clear" /\ v.pc \in {"reserve", "dispatch", "picked", "release", "record", "wait"} =>
               \/ w.op = "clear" /\ w.pc \in {"reserve", "dispatch", "picked", "release", "record", "wait"}
               \/ <<motion, w.step>> \in done
      PROVE  WorkerInOrder'
  BY <1>1, <1>4 DEF WorkerInOrder, OrderOK
<1>5. ASSUME v = w, motion' = motion
      PROVE  WorkerInOrder'
  BY <1>1, <1>5 DEF WorkerInOrder, OrderOK
<1>6. ASSUME w.pc # "free", motion' = motion, v.step = w.step + 1, v.pc \in {"check", "legacy"},
             <<motion, w.step>> \in done'
      PROVE  WorkerInOrder'
  <2>1. \A j \in 1..(v.step - 1) : j \in 1..(w.step - 1) \/ j = w.step
    BY <1>1, <1>6
  <2>. QED
    BY <1>1, <1>6, <2>1 DEF WorkerInOrder, OrderOK
<1>7. CASE Thread("worker")
  <2>1. motion' = motion
    BY <1>1, <1>7, ThreadLeaves
  <2>2. CASE Reserve("worker")
    <3>1. w.pc = "reserve" /\ v.pc = "dispatch" /\ v.op = w.op /\ v.step = w.step
      BY <1>1, <2>2, ReserveFields
    <3>. QED
      BY <1>4, <2>1, <3>1
  <2>3. CASE ReserveFails("worker") \/ ReleaseLost("worker") \/ WaitExpires("worker")
    BY <1>1, <1>2, <2>3, FailsFields DEF ReserveFails, ReleaseLost, WaitExpires, GivesUp
  <2>4. CASE Dispatch("worker")
    <3>1. w.pc = "dispatch" /\ v.op = w.op /\ v.step = w.step
      BY <1>1, <2>4, DispatchFields DEF Goes
    <3>. QED
      BY <1>4, <2>1, <3>1
  <2>5. CASE Transmit("worker")
    <3>1. w.pc = "picked" /\ v.op = w.op /\ v.step = w.step
      BY <1>1, <2>5, TransmitFields DEF Goes
    <3>. QED
      BY <1>4, <2>1, <3>1
  <2>6. CASE Release("worker")
    <3>1. v.pc = "free" \/ (v.pc = "legacy" /\ v.step = 1)
      BY <1>1, <2>6, ReleaseFields DEF GivesUp, TurnsToLegacy
    <3>. QED
      BY <1>2, <1>3, <3>1
  <2>7. CASE Record("worker")
    <3>1. w.pc = "record" /\ (v.pc = "free" \/ (v.op = w.op /\ v.step = w.step))
      BY <1>1, <2>7, RecordFields DEF GivesUp, Goes
    <3>. QED
      BY <1>2, <1>4, <2>1, <3>1
  <2>8. CASE Verdict("worker")
    <3>1. w.pc = "wait"
      BY <1>1, <2>8, VerdictFields
    <3>2. CASE v.pc = "free"
      BY <1>2, <3>2
    <3>3. CASE events[w.seq].code = "completed" /\ Advances("worker")
      <4>1. <<motion, w.step>> \in done
        BY <3>1, <3>3, StepIsDone DEF SaysDone
      <4>. QED
        BY <1>1, <1>6, <2>1, <3>1, <3>3, <4>1 DEF Advances
    <3>4. CASE /\ events[w.seq].code = "latched" /\ events[w.seq].fault = "link lost"
               /\ v.step = w.step
      <4>1. <<motion, w.step>> \in done
        BY <3>1, <3>4, StepIsDone DEF SaysDone
      <4>. QED
        BY <1>4, <2>1, <3>1, <3>4, <4>1
    <3>. QED
      BY <1>1, <2>8, <3>2, <3>3, <3>4, VerdictFields DEF GivesUp, GetsThere
  <2>. QED
    BY <1>7, <2>2, <2>3, <2>4, <2>5, <2>6, <2>7, <2>8 DEF Thread
<1>8. CASE CheckLink
  <2>1. /\ w.pc = "check" /\ motion' = motion
        /\ \/ v.pc = "free"
           \/ v.pc = "legacy" /\ v.step = 1
           \/ v.op = "step" /\ v.step = w.step
    BY <1>1, <1>8, CheckLinkFields DEF GivesUp
  <2>. QED
    BY <1>2, <1>3, <1>4, <2>1
<1>9. CASE LegacyStep
  <2>1. /\ w.pc = "legacy" /\ motion' = motion
        /\ \/ v.pc = "free"
           \/ v.pc = "legacy" /\ v.step = w.step + 1 /\ <<motion, w.step>> \in done'
    BY <1>1, <1>9, LegacyStepFields DEF GivesUp
  <2>. QED
    BY <1>2, <1>6, <2>1
<1>10. CASE StartMotion
  BY <1>3, <1>10, StartMotionFields
<1>11. ASSUME NEW c \in Callers, c # "worker", Thread(c)
       PROVE  WorkerInOrder'
  BY <1>1, <1>5, <1>11, ThreadLeaves DEF OthersStay
<1>12. CASE ToggleOutput \/ RecoverMotion \/ (\E s \in Seqs : ReconcileCommand(s)) \/ ClearLatch
            \/ Bootstrap \/ ApplyCompletion \/ SeedProgram
  <2>1. \A op : Request(op) => v = w
    BY LinkFacts DEF Request
  <2>2. v = w /\ motion' = motion
    BY <1>12, <2>1, LinkFacts DEF ToggleOutput, RecoverMotion, ReconcileCommand, ClearLatch, Bootstrap,
       ApplyCompletion, SeedProgram, motionVars
  <2>. QED
    BY <1>5, <2>2
<1>13. CASE AppHears \/ AppDisconnects \/ Break \/ Robot
  <2>1. v = w /\ motion' = motion
    BY <1>13 DEF AppHears, AppDisconnects, Break, motionVars, Robot, RobotConnects, RobotHears,
       RobotSendsEvent, Telemetry, RobotLosesLink, RobotTakes, RobotProceeds, RobotFinishes, RobotStops
  <2>. QED
    BY <1>5, <2>1
<1>14. CASE Restart
  BY <1>1, <1>2, <1>14 DEF Restart
<1>. QED
  BY <1>7, <1>8, <1>9, <1>10, <1>11, <1>12, <1>13, <1>14 DEF Next, Worker, Operator, Connection, Callers

\* The order of the rows and of the worker is kept.
LEMMA OrderStep ==
  ASSUME LinkTyped, CallersOK, ReportsOK, OrderOK, Next
  PROVE  OrderOK'
BY RowsOrderStep, WorkerOrderStep DEF OrderOK, RowsInOrder, WorkerInOrder

\* A movement becomes successful only when all of its steps are finished.
LEMMA SuccessIsEarned ==
  ASSUME LinkTyped, CallersOK, ReportsOK, OrderOK, InterruptedOK, Next,
         Reported \/ RunByLegacy \/ Pieced
  PROVE  \A i \in 1..Steps : <<motion, i>> \in done'
<1>1. /\ done \subseteq done' /\ "worker" \in Callers /\ Steps \in Nat
      /\ \A i \in 1..Steps : i \in 1..(Steps - 1) \/ i = Steps
  BY DoneGrows, LinkFacts
<1>2. CASE Reported
  <2>1. caller["worker"].pc = "wait" /\ caller["worker"].step = Steps
    BY <1>1, <1>2, VerdictFields DEF Reported
  <2>2. <<motion, Steps>> \in done
    BY <1>2, <2>1, StepIsDone DEF Reported, SaysDone
  <2>3. \A j \in 1..(Steps - 1) : <<motion, j>> \in done
    BY <2>1 DEF OrderOK
  <2>. QED
    BY <1>1, <2>2, <2>3
<1>3. CASE RunByLegacy
  <2>1. caller["worker"].pc = "legacy" /\ caller["worker"].step = Steps
    BY <1>3, LegacyStepFields DEF RunByLegacy
  <2>2. \A j \in 1..(Steps - 1) : <<motion, j>> \in done
    BY <2>1 DEF OrderOK
  <2>. QED
    BY <1>1, <1>3, <2>2 DEF RunByLegacy
<1>4. CASE Pieced
  <2>1. /\ lastSeq \in Seqs /\ manager.seq = lastSeq /\ manager.event = "completed"
        /\ ledger[lastSeq].move = <<motion, Steps>> /\ motion > 0 /\ outcome[motion] = "interrupted"
    BY <1>4, LinkFacts DEF Pieced, ApplyCompletion, Polled, Confirmed
  <2>2. <<motion, Steps>> \in Moves
    BY <2>1, LinkFacts, MovesArePairs, Numbers
  <2>3. ledger[lastSeq].op = "step" /\ lastSeq > 0
    <3>1. ledger[lastSeq].move \in Moves
      BY <2>1, <2>2
    <3>2. \A s \in Seqs : ledger[s].move \in Moves => ledger[s].op = "step"
      BY Zenon DEF CallersOK
    <3>3. ledger[lastSeq].op = "step"
      BY <2>1, <3>1, <3>2, Zenon
    <3>4. lastSeq > 0
      BY <2>1, LinkFacts
    <3>. QED
      BY <3>3, <3>4
  <2>4. ledger[lastSeq].move[1] = motion /\ ledger[lastSeq].move[2] = Steps
    BY <2>1
  <2>5. <<motion, Steps>> \in done
    BY <2>1, <2>3, <2>4 DEF InterruptedOK, Interrupted, Finished
  <2>6. \A j \in 1..(Steps - 1) : <<motion, j>> \in done
    BY <2>1, <2>3, <2>4 DEF OrderOK
  <2>. QED
    BY <1>1, <2>5, <2>6
<1>. QED
  BY <1>2, <1>3, <1>4

\* A verdict of success stays true.
LEMMA SuccessStep ==
  ASSUME LinkTyped, CallersOK, ReportsOK, OrderOK, InterruptedOK, SuccessMeansDone, Next
  PROVE  SuccessMeansDone'
<1>1. done \subseteq done' /\ outcome \in [Motions -> {"none", "open", "succeeded", "faulted", "interrupted", "reconciled"}]
  BY DoneGrows DEF LinkTyped, MotionTyped
<1>2. ASSUME \A m \in Motions : outcome'[m] = "succeeded" => outcome[m] = "succeeded"
      PROVE  SuccessMeansDone'
  BY <1>1, <1>2 DEF SuccessMeansDone
<1>3. ASSUME NEW verdict, Becomes(verdict), verdict # "succeeded"
      PROVE  SuccessMeansDone'
  BY <1>1, <1>2, <1>3 DEF Becomes
<1>4. CASE StartMotion
  BY <1>1, <1>2, <1>4, StartMotionFields
<1>5. CASE Reported \/ RunByLegacy \/ Pieced
  <2>1. \A i \in 1..Steps : <<motion, i>> \in done'
    BY <1>5, SuccessIsEarned
  <2>2. Becomes("succeeded")
    BY <1>5 DEF Reported, RunByLegacy, Pieced
  <2>3. \A m \in Motions : outcome'[m] = "succeeded" => m = motion \/ outcome[m] = "succeeded"
    BY <1>1, <2>2 DEF Becomes
  <2>. QED
    BY <1>1, <2>1, <2>3 DEF SuccessMeansDone
<1>. QED
  BY <1>2, <1>3, <1>4, <1>5, OutcomeStep

-----------------------------------------------------------------------------
(* After a restart.                                                        *)

\* A movement is interrupted by a restart only, and while it is nobody writes a
\* row of one of its steps: what is a row of an interrupted movement was one
\* before.
LEMMA InterruptedBefore ==
  ASSUME LinkTyped, CallersOK, Next, ~Restart, NEW s \in 0..MaxSequence, Interrupted(s)'
  PROVE  /\ Interrupted(s) /\ motion' = motion /\ ledger'[s].move = ledger[s].move
         /\ ~Active /\ caller["worker"].pc = "free"
         /\ Finished(s) => Finished(s)'
<1>1. motion' > 0 /\ outcome'[motion'] = "interrupted" /\ s > 0 /\ s \in Seqs
      /\ ledger'[s].op = "step" /\ ledger'[s].move[1] = motion'
  BY LinkFacts DEF Interrupted
<1>2. motion' = motion /\ outcome[motion] = "interrupted"
  <2>1. outcome \in [Motions -> {"none", "open", "succeeded", "faulted", "interrupted", "reconciled"}]
    BY DEF LinkTyped, MotionTyped
  <2>2. ~StartMotion
    BY <1>1, StartMotionFields
  <2>3. ASSUME NEW verdict, Becomes(verdict), verdict # "interrupted"
        PROVE  FALSE
    <3>1. motion \in Motions
      BY <1>1, <2>3, LinkFacts DEF Becomes
    <3>. QED
      BY <1>1, <2>1, <2>3, <3>1 DEF Becomes
  <2>. QED
    BY <1>1, <2>2, <2>3, OutcomeStep DEF Reported, RunByLegacy, Pieced
<1>3. ~Active /\ caller["worker"].pc = "free"
  BY <1>2 DEF Active, CallersOK
<1>4. ledger[s].op = "step" /\ ledger'[s].move = ledger[s].move
  <2>1. ~Reserve("worker")
    BY <1>3 DEF Reserve
  <2>. QED
    BY <1>1, <2>1, RowsStep
<1>5. Interrupted(s)
  BY <1>1, <1>2, <1>4 DEF Interrupted
<1>6. Finished(s) => Finished(s)'
  BY <1>1, <1>4, DoneGrows DEF Finished
<1>. QED
  BY <1>2, <1>3, <1>4, <1>5, <1>6

\* What the manager says after it read a frame.
HearsHello(f) ==
  /\ f.kind = "hello" /\ manager'.seq = f.seq /\ manager'.event = f.code /\ wire' = wire
  /\ joined' => wire /\ \A i \in 2..Len(toApp) : toApp[i].kind # "hello"
HearsEvent(f) ==
  /\ f.kind = "event" /\ manager'.seq = (IF f.last > f.seq THEN f.last ELSE f.seq)
  /\ manager'.event = f.code /\ UNCHANGED <<wire, joined>>
HearsNothing ==
  /\ manager'.seq = manager.seq /\ manager'.event = manager.event
  /\ wire' => wire
  /\ joined' => joined

\* Reading a frame is one of the three.
LEMMA AppHearsFields ==
  ASSUME LinkTyped, AppHears
  PROVE  /\ toApp # <<>> /\ toApp' = Tail(toApp) /\ Head(toApp) = toApp[1] /\ 1 \in 1..Len(toApp)
         /\ UNCHANGED <<robot, toRobot, done, ledger>>
         /\ wire' => wire
         /\ HearsHello(Head(toApp)) \/ HearsEvent(Head(toApp)) \/ HearsNothing
<1>. DEFINE f == Head(toApp)
<1>1. toApp # <<>> /\ toApp' = Tail(toApp) /\ UNCHANGED <<robot, toRobot, done, ledger>>
  BY DEF AppHears, armVars, dbVars
<1>2. Head(toApp) = toApp[1] /\ 1 \in 1..Len(toApp) /\ manager \in Managers
  BY <1>1, LinkFacts DEF LinkTyped, AppTyped
<1>3. HearsHello(f) \/ HearsEvent(f) \/ HearsNothing
  <2>1. CASE f.kind = "hello" /\ HeardHello(f)
    <3>1. manager'.seq = f.seq /\ manager'.event = f.code /\ wire' = wire
      BY <2>1 DEF HeardHello
    <3>2. joined' = (wire /\ \A i \in 2..Len(toApp) : toApp[i].kind # "hello")
      BY <2>1, Zenon DEF HeardHello
    <3>. QED
      BY <2>1, <3>1, <3>2, Zenon DEF HearsHello
  <2>2. CASE f.kind = "event" /\ HeardEvent(f) /\ Acceptable(f)
    BY <1>2, <2>2 DEF HeardEvent, HearsEvent, Managers
  <2>3. CASE HeardEvent(f) /\ ~Acceptable(f)
    <3>1. /\ manager' = [manager EXCEPT !.up = FALSE] /\ joined' = FALSE
          /\ wire' = (wire /\ ~joined)
      BY <2>3, Zenon DEF HeardEvent
    <3>2. manager'.seq = manager.seq /\ manager'.event = manager.event
      BY <1>2, <3>1 DEF Managers
    <3>. QED
      BY <3>1, <3>2, Zenon DEF HearsNothing
  <2>4. CASE UNCHANGED <<appVars, wire, joined>>
    BY <2>4 DEF HearsNothing, appVars
  <2>. QED
    BY <2>1, <2>2, <2>3, <2>4 DEF AppHears
<1>4. wire' => wire
  BY <1>3 DEF HearsHello, HearsEvent, HearsNothing
<1>. QED
  BY <1>1, <1>2, <1>3, <1>4

\* The parts of InterruptedOK.
VerdictsOK == \A m \in Motions : outcome[m] = "none" <=> m > motion
NothingTakenUp ==
  /\ \A i \in 1..Len(toRobot) : Interrupted(toRobot[i].seq) => ~wire
  /\ robot.pc = "idle" /\ Busy /\ Interrupted(robot.cmd.seq) => ~wire
NoLaterHello(i) == \A j \in (i + 1)..Len(toApp) : toApp[j].kind # "hello"
OwnEvents ==
  wire /\ Interrupted(robot.last) =>
    /\ \A i \in 1..Len(toApp) :
         toApp[i].code = "completed" /\ NoLaterHello(i) => toApp[i].seq = robot.last
    /\ joined /\ manager.event = "completed" => Finished(robot.last)
ManagerOK == manager.event = "completed" /\ Interrupted(manager.seq) => Finished(manager.seq)

\* The invariant of the interrupted movements is the sum of its parts.
LEMMA InterruptedParts ==
  /\ InterruptedOK => VerdictsOK /\ NothingTakenUp /\ OwnEvents /\ ManagerOK
  /\ VerdictsOK' /\ NothingTakenUp' /\ OwnEvents' /\ ManagerOK' => InterruptedOK'
BY DEF InterruptedOK, VerdictsOK, NothingTakenUp, OwnEvents, NoLaterHello, ManagerOK

\* A movement has a verdict from the moment it is commanded.
LEMMA VerdictsStep ==
  ASSUME LinkTyped, CallersOK, VerdictsOK, Next
  PROVE  VerdictsOK'
<1>1. outcome \in [Motions -> {"none", "open", "succeeded", "faulted", "interrupted", "reconciled"}]
      /\ motion \in Nat /\ Motions \subseteq Nat
  BY LinkFacts DEF LinkTyped, MotionTyped
<1>2. CASE UNCHANGED <<motion, outcome>>
  BY <1>2 DEF VerdictsOK
<1>3. CASE StartMotion
  <2>1. /\ motion' = motion + 1 /\ motion' \in Motions
        /\ outcome' = [outcome EXCEPT ![motion'] = "open"]
    BY <1>3, StartMotionFields
  <2>2. \A m \in Motions : m # motion' => outcome'[m] = outcome[m]
    BY <1>1, <2>1
  <2>3. outcome'[motion'] = "open"
    BY <1>1, <2>1
  <2>4. \A m \in Motions : m # motion' => (m > motion' <=> m > motion)
    BY <1>1, <2>1
  <2>. QED
    BY <1>1, <2>1, <2>2, <2>3, <2>4 DEF VerdictsOK
<1>4. ASSUME NEW verdict \in {"faulted", "succeeded", "reconciled", "interrupted"}, Becomes(verdict)
      PROVE  VerdictsOK'
  <2>1. \A m \in Motions : m = motion => outcome[m] # "none" /\ outcome'[m] # "none"
    BY <1>1, <1>4 DEF VerdictsOK, Becomes
  <2>2. \A m \in Motions : m # motion => outcome'[m] = outcome[m]
    BY <1>1, <1>4 DEF Becomes
  <2>. QED
    BY <1>1, <1>4, <2>1, <2>2 DEF VerdictsOK, Becomes
<1>. QED
  BY <1>2, <1>3, <1>4, OutcomeStep DEF Reported, RunByLegacy, Pieced

\* No command of an interrupted movement is taken up over a connection that was
\* made after the restart.
LEMMA TakenUpStep ==
  ASSUME LinkTyped, WireOK, CallersOK, FramesOK, NothingTakenUp, Next
  PROVE  NothingTakenUp'
<1>1. /\ \A s \in 0..MaxSequence : ~Restart /\ Interrupted(s)' => Interrupted(s) /\ caller["worker"].pc = "free"
      /\ robot \in Programs /\ robot.cmd.seq \in 0..MaxSequence /\ toRobot \in Seq(Commands)
      /\ \A i \in 1..Len(toRobot) : toRobot[i].seq \in 0..MaxSequence
      /\ \A f \in Commands : f.seq \in 0..MaxSequence
  <2>1. \A f \in Commands : f.seq \in 0..MaxSequence
    BY LinkFacts DEF Commands
  <2>. QED
    BY <2>1, InterruptedBefore, LinkFacts
<1>2. CASE wire' = FALSE
  BY <1>2 DEF NothingTakenUp
<1>3. ASSUME ~Restart, wire' => wire,
             \A i \in 1..Len(toRobot') : \E j \in 1..Len(toRobot) : toRobot'[i] = toRobot[j],
             robot'.pc = "idle" /\ robot'.cmd.seq > 0 =>
               \/ robot.pc = "idle" /\ Busy /\ robot'.cmd = robot.cmd
               \/ \E j \in 1..Len(toRobot) : robot'.cmd = toRobot[j]
      PROVE  NothingTakenUp'
  <2>1. \A i \in 1..Len(toRobot') : Interrupted(toRobot[i].seq)' => ~wire'
    <3>1. ASSUME NEW i \in 1..Len(toRobot'), Interrupted(toRobot[i].seq)'
          PROVE  ~wire'
      <4>1. PICK j \in 1..Len(toRobot) : toRobot'[i] = toRobot[j]
        BY <1>3
      <4>2. \A n : n = toRobot[j].seq => Interrupted(n)'
        BY <3>1, <4>1
      <4>3. Interrupted(toRobot[j].seq)
        BY <1>1, <1>3, <4>2
      <4>. QED
        BY <1>3, <4>3 DEF NothingTakenUp
    <3>. QED
      BY <3>1
  <2>2. ASSUME robot'.pc = "idle", robot'.cmd.seq > 0, Interrupted(robot.cmd.seq)'
        PROVE  ~wire'
    <3>1. CASE robot.pc = "idle" /\ Busy /\ robot'.cmd = robot.cmd
      <4>1. \A n : n = robot.cmd.seq => Interrupted(n)'
        BY <2>2, <3>1
      <4>2. Interrupted(robot.cmd.seq)
        BY <1>1, <1>3, <4>1
      <4>. QED
        BY <1>3, <3>1, <4>2 DEF NothingTakenUp
    <3>2. ASSUME NEW j \in 1..Len(toRobot), robot'.cmd = toRobot[j]
          PROVE  ~wire'
      <4>1. \A n : n = toRobot[j].seq => Interrupted(n)'
        BY <2>2, <3>2
      <4>2. Interrupted(toRobot[j].seq)
        BY <1>1, <1>3, <4>1
      <4>. QED
        BY <1>3, <4>2 DEF NothingTakenUp
    <3>. QED
      BY <1>3, <2>2, <3>1, <3>2
  <2>. QED
    BY <2>1, <2>2 DEF NothingTakenUp, Busy
<1>4. ASSUME ~Restart, wire' => wire, toRobot' = toRobot \/ toRobot' = <<>>,
             robot'.pc = "idle" /\ robot'.cmd.seq > 0 => robot.pc = "idle" /\ Busy /\ robot'.cmd = robot.cmd
      PROVE  NothingTakenUp'
  BY <1>3, <1>4
<1>5. ASSUME NEW c \in Callers, Thread(c), ~Restart
      PROVE  NothingTakenUp'
  <2>1. robot' = robot
    BY <1>5, ThreadLeaves
  <2>2. CASE toRobot' = toRobot
    <3>1. wire' => wire
      BY <1>5, SendsFrame DEF Thread, Reserve, ReserveFails, Dispatch, Release, ReleaseLost, Record,
         Verdict, WaitExpires, netVars
    <3>. QED
      BY <1>4, <1>5, <2>1, <2>2, <3>1 DEF Busy
  <2>3. CASE toRobot' # toRobot
    <3>1. Transmit(c)
      BY <1>5, <2>3, ThreadLeaves
    <3>2. /\ caller[c].pc = "picked" /\ toRobot' = Append(toRobot, Frame(c)) /\ (wire' => wire)
      BY <2>3, <3>1, SendsFrame
    <3>3. caller[c].seq \in 0..MaxSequence /\ ledger[caller[c].seq].op = caller[c].op
      BY <3>2, LinkFacts DEF CallersOK, Holds
    <3>4. \A n : n = caller[c].seq => ~Interrupted(n)'
      <4>1. SUFFICES ASSUME NEW n, n = caller[c].seq, Interrupted(n)' PROVE FALSE
        OBVIOUS
      <4>2. Interrupted(caller[c].seq) /\ caller["worker"].pc = "free"
        BY <1>1, <1>5, <3>3, <4>1
      <4>3. c = "request"
        BY <3>2, <4>2 DEF Callers
      <4>. QED
        BY <3>3, <4>2, <4>3 DEF CallersOK, Interrupted
    <3>5. \A i \in 1..Len(toRobot') :
            toRobot'[i].seq = caller[c].seq \/ (i \in 1..Len(toRobot) /\ toRobot'[i] = toRobot[i])
      BY <1>1, <3>2 DEF Frame
    <3>6. \A i \in 1..Len(toRobot') : Interrupted(toRobot[i].seq)' => ~wire'
      <4>1. ASSUME NEW i \in 1..Len(toRobot'), Interrupted(toRobot[i].seq)'
            PROVE  ~wire'
        <5>1. i \in 1..Len(toRobot) /\ toRobot'[i] = toRobot[i]
          BY <3>4, <3>5, <4>1
        <5>2. \A n : n = toRobot[i].seq => Interrupted(n)'
          BY <4>1, <5>1
        <5>3. Interrupted(toRobot[i].seq)
          BY <1>1, <1>5, <5>1, <5>2
        <5>. QED
          BY <3>2, <5>1, <5>3 DEF NothingTakenUp
      <4>. QED
        BY <4>1
    <3>7. robot'.pc = "idle" /\ robot'.cmd.seq > 0 /\ Interrupted(robot.cmd.seq)' => ~wire'
      <4>1. robot'.cmd.seq = robot.cmd.seq
        BY <2>1
      <4>2. Interrupted(robot.cmd.seq)' => Interrupted(robot.cmd.seq)
        BY <1>1, <1>5, <4>1
      <4>. QED
        BY <2>1, <3>2, <4>2 DEF NothingTakenUp, Busy
    <3>. QED
      BY <3>6, <3>7 DEF NothingTakenUp, Busy
  <2>. QED
    BY <2>2, <2>3
<1>6. CASE CheckLink \/ Operator \/ AppDisconnects \/ Telemetry
  <2>1. UNCHANGED <<robot, wire, toRobot>>
    BY <1>6 DEF CheckLink, Operator, StartMotion, ToggleOutput, RecoverMotion, ReconcileCommand,
       ClearLatch, Bootstrap, ApplyCompletion, AppDisconnects, Telemetry, netVars
  <2>2. ~Restart \/ wire' = FALSE
    BY DEF Restart
  <2>. QED
    BY <1>2, <1>4, <2>1, <2>2, Zenon DEF Busy
<1>7. CASE LegacyStep \/ SeedProgram \/ Break \/ Restart \/ RobotStops
  BY <1>2, <1>7 DEF LegacyStep, SeedProgram, Break, Restart, RobotStops
<1>8. CASE AppHears
  <2>1. robot' = robot /\ toRobot' = toRobot /\ (wire' => wire)
    BY <1>8, AppHearsFields
  <2>. QED
    BY <1>4, <1>7, <1>8, <2>1 DEF Busy
<1>9. CASE RobotConnects
  <2>1. robot'.pc = robot.pc /\ robot'.cmd = robot.cmd /\ ~robot.up /\ toRobot' = <<>>
    BY <1>1, <1>9 DEF RobotConnects, Programs
  <2>2. ~(robot'.pc = "idle" /\ robot'.cmd.seq > 0)
    BY <2>1 DEF WireOK, Busy
  <2>. QED
    BY <2>1, <2>2 DEF NothingTakenUp, Busy
<1>10. CASE RobotHears
  <2>1. wire' = wire /\ toRobot # <<>> /\ toRobot' = Tail(toRobot)
    BY <1>10 DEF RobotHears
  <2>2. /\ Head(toRobot) = toRobot[1] /\ 1 \in 1..Len(toRobot)
        /\ \A i \in 1..Len(toRobot') : toRobot'[i] = toRobot[i + 1] /\ i + 1 \in 1..Len(toRobot)
    BY <1>1, <2>1
  <2>3. robot'.pc = robot.pc /\ (Busy => robot'.cmd = robot.cmd) /\ (~Busy => robot'.cmd = Head(toRobot))
    BY <1>10, HeardFields
  <2>. QED
    BY <1>3, <1>7, <2>1, <2>2, <2>3
<1>11. CASE RobotSendsEvent \/ RobotLosesLink
  <2>1. wire' = wire /\ (toRobot' = toRobot \/ toRobot' = <<>>) /\ robot'.pc = robot.pc /\ robot'.cmd = robot.cmd
    BY <1>1, <1>11 DEF RobotSendsEvent, RobotLosesLink, Programs
  <2>. QED
    BY <1>4, <1>7, <2>1 DEF Busy
<1>12. CASE RobotTakes
  <2>1. wire' = wire /\ toRobot' = toRobot
    BY <1>12 DEF RobotTakes, netVars
  <2>2. robot'.pc # "idle"
    BY <1>12, TakenFields DEF Repeats, Clears, Leaves, Refuses, Accepts
  <2>. QED
    BY <1>4, <1>7, <2>1, <2>2
<1>13. CASE RobotProceeds
  <2>1. CASE Begins /\ UNCHANGED netVars
    BY <1>4, <1>7, <2>1 DEF Begins, netVars
  <2>2. CASE Settles /\ UNCHANGED netVars
    <3>1. robot'.cmd.seq = 0
      BY <2>2, LinkFacts DEF Settles
    <3>. QED
      BY <1>4, <1>7, <2>2, <3>1 DEF netVars
  <2>3. CASE wire' = FALSE
    BY <1>2, <2>3
  <2>. QED
    BY <1>13, <2>1, <2>2, <2>3, ProceedsFields
<1>14. CASE RobotFinishes
  <2>1. wire' = wire /\ toRobot' = toRobot /\ robot'.pc # "idle"
    BY <1>14, FinishesFields DEF RobotFinishes, netVars
  <2>. QED
    BY <1>4, <1>7, <2>1
<1>. QED
  BY <1>5, <1>6, <1>7, <1>8, <1>9, <1>10, <1>11, <1>12, <1>13, <1>14
     DEF Next, Worker, Connection, Robot, Callers

\* Over a connection made after the restart, what is on its way pairs the last
\* sequence with its own event.
LEMMA OwnEventsStep ==
  ASSUME LinkTyped, WireOK, CallersOK, FramesOK, ReportsOK, NothingTakenUp, OwnEvents, Next
  PROVE  OwnEvents'
<1>. SUFFICES ASSUME wire', Interrupted(robot.last)'
              PROVE  /\ (\A i \in 1..Len(toApp) :
                          toApp[i].code = "completed" /\ NoLaterHello(i) => toApp[i].seq = robot.last)'
                     /\ (joined /\ manager.event = "completed" => Finished(robot.last))'
  BY DEF OwnEvents
<1>. DEFINE Own == \A i \in 1..Len(toApp) :
                     toApp[i].code = "completed" /\ NoLaterHello(i) => toApp[i].seq = robot.last
<1>1. /\ robot \in Programs /\ robot.last \in 0..MaxSequence /\ robot.cmd.seq \in 0..MaxSequence
      /\ toApp \in Seq(Hellos \cup Reports)
  <2>1. robot.cmd.seq \in 0..MaxSequence
    BY LinkFacts DEF Commands
  <2>. QED
    BY <2>1, LinkFacts
<1>2. ~Restart /\ ~Break /\ ~LegacyStep /\ ~SeedProgram /\ ~RobotStops
  BY DEF Restart, Break, LegacyStep, SeedProgram, RobotStops
<1>3. \A s \in 0..MaxSequence : Interrupted(s)' => Interrupted(s) /\ (Finished(s) => Finished(s)')
  BY <1>2, InterruptedBefore
<1>4. ASSUME robot'.last = robot.last
      PROVE  Interrupted(robot.last) /\ (Finished(robot.last) => Finished(robot.last)')
  <2>1. \A n : n = robot.last => Interrupted(n)'
    BY <1>4
  <2>2. \A n : n = robot.last /\ Finished(n) => Finished(n)'
    BY <1>1, <1>3, <2>1
  <2>. QED
    BY <1>1, <1>3, <1>4, <2>1, <2>2
<1>5. ASSUME wire, robot'.last = robot.last, toApp' = toApp, joined' => joined,
             manager'.event = manager.event
      PROVE  Own' /\ (joined /\ manager.event = "completed" => Finished(robot.last))'
  <2>1. Own /\ (joined /\ manager.event = "completed" => Finished(robot.last))
    BY <1>4, <1>5 DEF OwnEvents
  <2>. QED
    BY <1>4, <1>5, <2>1 DEF NoLaterHello
<1>6. CASE RobotConnects
  <2>1. /\ robot'.last = robot.last /\ joined' = FALSE
        /\ toApp' = Append(toApp, [kind |-> "hello", session |-> robot.session, seq |-> robot.last,
                                   code |-> robot.event, latched |-> robot.latched])
    BY <1>1, <1>6 DEF RobotConnects, Programs
  <2>2. /\ Len(toApp') = Len(toApp) + 1 /\ toApp'[Len(toApp) + 1].kind = "hello"
        /\ toApp'[Len(toApp) + 1].seq = robot.last
    BY <1>1, <2>1
  <2>3. \A i \in 1..Len(toApp') : i = Len(toApp) + 1 \/ Len(toApp) + 1 \in (i + 1)..Len(toApp')
    BY <1>1, <2>2
  <2>4. Own'
    BY <2>1, <2>2, <2>3 DEF NoLaterHello
  <2>. QED
    BY <2>1, <2>4
<1>7. CASE RobotSendsEvent
  <2>. DEFINE p == robot.pending
              f == [kind |-> "event", session |-> robot.session, seq |-> p.seq, code |-> p.code,
                    fault |-> p.fault, last |-> robot.last]
  <2>1. /\ robot'.last = robot.last /\ joined' = joined /\ wire /\ manager' = manager /\ robot.unsent
        /\ toApp' = Append(toApp, f)
    BY <1>1, <1>7 DEF RobotSendsEvent, RobotSays, appVars, Programs
  <2>2. /\ Len(toApp') = Len(toApp) + 1 /\ toApp'[Len(toApp) + 1] = f
        /\ \A i \in 1..Len(toApp) : toApp'[i] = toApp[i]
    BY <1>1, <2>1
  <2>3. Own /\ (joined /\ manager.event = "completed" => Finished(robot.last))
    BY <1>4, <2>1 DEF OwnEvents
  <2>4. f.code = "completed" => f.seq = robot.last
    BY <2>1 DEF ReportsOK
  <2>5. \A i \in 1..Len(toApp) : NoLaterHello(i)' => NoLaterHello(i)
    BY <1>1, <2>2 DEF NoLaterHello
  <2>6. \A i \in 1..Len(toApp') : i \in 1..Len(toApp) \/ toApp'[i] = f
    BY <1>1, <2>2
  <2>7. Own'
    BY <2>1, <2>2, <2>3, <2>4, <2>5, <2>6
  <2>. QED
    BY <1>4, <2>1, <2>3, <2>7
<1>8. CASE AppHears
  <2>. DEFINE f == Head(toApp)
  <2>1. /\ robot' = robot /\ wire /\ toApp # <<>> /\ toApp' = Tail(toApp) /\ f = toApp[1] /\ 1 \in 1..Len(toApp)
        /\ HearsHello(f) \/ HearsEvent(f) \/ HearsNothing
    BY <1>8, AppHearsFields
  <2>2. Len(toApp') = Len(toApp) - 1
        /\ \A i \in 1..Len(toApp') : toApp'[i] = toApp[i + 1] /\ i + 1 \in 1..Len(toApp)
    BY <1>1, <2>1
  <2>3. Own /\ (joined /\ manager.event = "completed" => Finished(robot.last))
    BY <1>4, <2>1 DEF OwnEvents
  <2>4. ASSUME NEW i \in 1..Len(toApp'), NoLaterHello(i)'
        PROVE  NoLaterHello(i + 1)
    <3>1. ASSUME NEW j \in (i + 2)..Len(toApp)
          PROVE  toApp[j].kind # "hello"
      <4>1. j - 1 \in (i + 1)..Len(toApp') /\ toApp'[j - 1] = toApp[(j - 1) + 1] /\ (j - 1) + 1 = j
        BY <1>1, <2>2
      <4>. QED
        BY <2>4, <4>1 DEF NoLaterHello
    <3>. QED
      BY <3>1 DEF NoLaterHello
  <2>5. Own'
    BY <2>1, <2>2, <2>3, <2>4
  <2>6. ASSUME joined', manager'.event = "completed"
        PROVE  Finished(robot.last)
    <3>1. CASE HearsHello(f)
      <4>1. f.kind = "hello" /\ f.code = "completed" /\ NoLaterHello(1)
        BY <2>6, <3>1 DEF HearsHello, NoLaterHello
      <4>2. f.seq = robot.last
        BY <2>1, <2>3, <4>1
      <4>3. Finished(f.seq)
        BY <2>1, <4>1 DEF ReportsOK, Terminal
      <4>. QED
        BY <4>2, <4>3
    <3>2. CASE HearsEvent(f)
      <4>1. f.kind = "event" /\ f.code = "completed" /\ joined
        BY <2>6, <3>2 DEF HearsEvent
      <4>2. NoLaterHello(1)
        BY <1>1, <4>1 DEF WireOK, NoLaterHello
      <4>3. f.seq = robot.last
        BY <2>1, <2>3, <4>1, <4>2
      <4>4. Finished(f.seq)
        BY <2>1, <4>1 DEF ReportsOK, SaysDone
      <4>. QED
        BY <4>3, <4>4
    <3>3. CASE HearsNothing
      BY <2>3, <2>6, <3>3 DEF HearsNothing
    <3>. QED
      BY <2>1, <3>1, <3>2, <3>3
  <2>. QED
    BY <1>4, <2>1, <2>5, <2>6
<1>9. CASE RobotTakes
  <2>1. wire /\ UNCHANGED <<toApp, joined, manager>>
    BY <1>9 DEF RobotTakes, netVars, appVars
  <2>2. CASE robot'.last = robot.last
    BY <1>5, <2>1, <2>2
  <2>3. CASE robot'.last = robot.cmd.seq
    <3>1. \A n : n = robot.cmd.seq => Interrupted(n)'
      BY <2>3
    <3>2. Interrupted(robot.cmd.seq)
      BY <1>1, <1>3, <3>1
    <3>. QED
      BY <1>9, <2>1, <3>2, TakenFields DEF NothingTakenUp
  <2>. QED
    BY <1>9, <2>2, <2>3, TakenFields DEF Repeats, Clears, Leaves, Refuses, Accepts
<1>10. CASE RobotHears \/ RobotProceeds \/ RobotFinishes \/ RobotLosesLink
  <2>1. robot'.last = robot.last
    BY <1>1, <1>10, HeardFields, ProceedsFields, FinishesFields DEF RobotLosesLink, Programs
  <2>2. wire /\ UNCHANGED <<toApp, joined, manager>>
    BY <1>10 DEF RobotHears, RobotProceeds, RobotFinishes, RobotLosesLink, netVars, appVars
  <2>. QED
    BY <1>5, <2>1, <2>2
<1>11. CASE Telemetry \/ AppDisconnects
  <2>1. robot'.last = robot.last /\ wire /\ UNCHANGED <<toApp, joined>>
    BY <1>11 DEF Telemetry, AppDisconnects, netVars
  <2>2. manager'.event = manager.event
    BY <1>11 DEF Telemetry, AppDisconnects, LinkTyped, AppTyped, Managers
  <2>. QED
    BY <1>5, <2>1, <2>2
<1>12. ASSUME NEW c \in Callers, Thread(c)
       PROVE  Own' /\ (joined /\ manager.event = "completed" => Finished(robot.last))'
  <2>1. robot' = robot /\ toApp' = toApp /\ manager' = manager
    BY <1>12, ThreadLeaves
  <2>2. wire /\ (joined' => joined)
    <3>1. CASE Transmit(c)
      BY <3>1, SendsFrame, Zenon
    <3>2. CASE ~Transmit(c)
      <4>1. wire' = wire /\ joined' = joined
        BY <1>12, <3>2 DEF Thread, Reserve, ReserveFails, Dispatch, Release, ReleaseLost, Record,
           Verdict, WaitExpires, netVars
      <4>. QED
        BY <4>1, Zenon
    <3>. QED
      BY <3>1, <3>2
  <2>. QED
    BY <1>5, <2>1, <2>2
<1>13. CASE CheckLink \/ Operator
  <2>1. wire /\ UNCHANGED <<robot, toApp, joined, manager>>
    BY <1>13 DEF CheckLink, Operator, StartMotion, ToggleOutput, RecoverMotion, ReconcileCommand,
       ClearLatch, Bootstrap, ApplyCompletion, netVars, appVars
  <2>. QED
    BY <1>5, <2>1
<1>. QED
  BY <1>2, <1>6, <1>7, <1>8, <1>9, <1>10, <1>11, <1>12, <1>13
     DEF Next, Worker, Connection, Robot, Callers

\* What the manager says of an interrupted movement's command is true.
LEMMA ManagerStep ==
  ASSUME LinkTyped, WireOK, CallersOK, ReportsOK, OwnEvents, ManagerOK, Next
  PROVE  ManagerOK'
<1>. SUFFICES ASSUME manager'.event = "completed", Interrupted(manager.seq)'
              PROVE  Finished(manager.seq)'
  BY DEF ManagerOK
<1>1. /\ manager \in Managers /\ manager.seq \in 0..MaxSequence /\ robot.last \in 0..MaxSequence
  BY LinkFacts DEF LinkTyped, AppTyped, Managers
<1>2. ~Restart
  BY DEF Restart, NoManager
<1>3. \A s \in 0..MaxSequence : Interrupted(s)' => Interrupted(s) /\ (Finished(s) => Finished(s)')
  BY <1>2, InterruptedBefore
<1>4. ASSUME NEW s \in 0..MaxSequence, manager'.seq = s, Interrupted(s) => Finished(s)
      PROVE  Finished(manager.seq)'
  <2>1. Interrupted(s)'
    BY <1>4
  <2>2. Finished(s)'
    BY <1>3, <1>4, <2>1
  <2>. QED
    BY <1>4, <2>2
<1>5. CASE manager'.seq = manager.seq /\ manager'.event = manager.event
  BY <1>1, <1>4, <1>5 DEF ManagerOK
<1>6. CASE AppHears
  <2>. DEFINE f == Head(toApp)
  <2>1. /\ f = toApp[1] /\ 1 \in 1..Len(toApp) /\ f.seq \in 0..MaxSequence
        /\ HearsHello(f) \/ HearsEvent(f) \/ HearsNothing
    BY <1>6, AppHearsFields, FrameTypes
  <2>2. CASE HearsHello(f)
    <3>1. f.kind = "hello" /\ f.code = "completed" /\ manager'.seq = f.seq
      BY <2>2 DEF HearsHello
    <3>2. Finished(f.seq)
      BY <2>1, <3>1 DEF ReportsOK, Terminal
    <3>. QED
      BY <1>4, <2>1, <3>1, <3>2
  <2>3. CASE HearsEvent(f)
    <3>1. f.kind = "event" /\ f.code = "completed" /\ manager'.seq = (IF f.last > f.seq THEN f.last ELSE f.seq)
      BY <2>3 DEF HearsEvent
    <3>2. Finished(f.seq) /\ f.last = f.seq
      BY <2>1, <3>1 DEF ReportsOK, SaysDone
    <3>3. manager'.seq = f.seq
      BY <3>1, <3>2
    <3>. QED
      BY <1>4, <2>1, <3>2, <3>3
  <2>4. CASE HearsNothing
    BY <1>5, <2>4 DEF HearsNothing
  <2>. QED
    BY <2>1, <2>2, <2>3, <2>4
<1>7. CASE Telemetry
  <2>1. manager'.seq = robot.last /\ manager.event = "completed" /\ joined
    BY <1>1, <1>7 DEF Telemetry, Managers
  <2>2. Interrupted(robot.last) => Finished(robot.last)
    BY <2>1 DEF WireOK, OwnEvents
  <2>. QED
    BY <1>1, <1>4, <2>1, <2>2
<1>8. CASE AppDisconnects
  BY <1>1, <1>5, <1>8 DEF AppDisconnects, Managers
<1>9. ASSUME NEW c \in Callers, Thread(c)
      PROVE  Finished(manager.seq)'
  BY <1>5, <1>9, ThreadLeaves
<1>10. CASE CheckLink \/ LegacyStep \/ SeedProgram \/ Operator \/ Break
  <2>1. manager' = manager
    BY <1>10 DEF CheckLink, LegacyStep, SeedProgram, Operator, StartMotion, ToggleOutput, RecoverMotion,
       ReconcileCommand, ClearLatch, Bootstrap, ApplyCompletion, Break, appVars
  <2>. QED
    BY <1>5, <2>1
<1>11. CASE Robot /\ ~Telemetry
  <2>1. manager' = manager
    BY <1>11 DEF Robot, RobotConnects, RobotHears, RobotSendsEvent, RobotLosesLink, RobotTakes,
       RobotProceeds, RobotFinishes, RobotStops, appVars
  <2>. QED
    BY <1>5, <2>1
<1>. QED
  BY <1>2, <1>6, <1>7, <1>8, <1>9, <1>10, <1>11 DEF Next, Worker, Connection, Callers

\* The interrupted movements' invariant is kept.
LEMMA InterruptedStep ==
  ASSUME LinkTyped, WireOK, CallersOK, FramesOK, ReportsOK, InterruptedOK, Next
  PROVE  InterruptedOK'
BY InterruptedParts, VerdictsStep, TakenUpStep, OwnEventsStep, ManagerStep

-----------------------------------------------------------------------------
(* Without a fault.                                                        *)

\* The parts of UndisturbedOK: nobody asks for maintenance, and a step that is
\* begun and not finished is the command in progress.
NoMaintenance ==
  /\ caller["request"].op # "maintenance" /\ caller["request"].pc # "seed"
  /\ \A i \in 1..Len(toRobot) : toRobot[i].op # "maintenance"
  /\ robot.cmd.op # "maintenance" /\ robot.pc # "leaving"
InProgress ==
  Running => \A x \in Moves : ran[x] > 0 /\ x \notin done =>
    robot.pc = "moving" /\ robot.cmd.op = "step" /\ robot.cmd.move = x

\* The operator's thread asks for maintenance only after a fault.
LEMMA MaintenanceStep ==
  ASSUME LinkTyped, CallersOK, faults' = 0, faults = 0, NoMaintenance, Next
  PROVE  NoMaintenance'
<1>1. /\ "worker" \in Callers /\ "request" \in Callers /\ Idle.pc = "free" /\ Idle.op = "none"
      /\ robot \in Programs /\ toRobot \in Seq(Commands) /\ NoCommand.op = "none"
  BY LinkFacts DEF Idle
<1>2. ~Restart /\ ~Break /\ ~Bootstrap /\ ~RobotStops /\ ~SeedProgram
  BY DEF Restart, Break, Bootstrap, RobotStops, SeedProgram, NoMaintenance
<1>3. ASSUME caller'["request"].op # "maintenance", caller'["request"].pc # "seed",
             toRobot' = toRobot \/ toRobot' = <<>>,
             robot'.cmd = robot.cmd \/ robot'.cmd = NoCommand, robot'.pc # "leaving"
      PROVE  NoMaintenance'
  BY <1>1, <1>3 DEF NoMaintenance
<1>4. ASSUME NEW c \in Callers, Thread(c)
      PROVE  NoMaintenance'
  <2>1. robot' = robot /\ OthersStay(c)
    BY <1>4, ThreadLeaves
  <2>2. ASSUME c = "request"
        PROVE  caller'["request"].op # "maintenance" /\ caller'["request"].pc # "seed"
    <3>1. CASE GivesUp(c)
      BY <1>1, <2>2, <3>1 DEF GivesUp
    <3>2. CASE Reserve(c)
      BY <1>1, <2>2, <3>2, ReserveFields DEF NoMaintenance
    <3>3. CASE ReserveFails(c) \/ ReleaseLost(c) \/ WaitExpires(c)
      BY <1>1, <2>2, <3>1, <3>3, FailsFields DEF ReserveFails, ReleaseLost, WaitExpires
    <3>4. CASE Dispatch(c)
      BY <1>1, <2>2, <3>4, DispatchFields DEF NoMaintenance, Goes
    <3>5. CASE Transmit(c)
      BY <1>1, <2>2, <3>5, TransmitFields DEF NoMaintenance, Goes
    <3>6. CASE Release(c)
      BY <1>1, <2>2, <3>1, <3>6, ReleaseFields DEF TurnsToLegacy
    <3>7. CASE Record(c)
      BY <1>1, <2>2, <3>1, <3>7, RecordFields DEF NoMaintenance, Goes
    <3>8. CASE Verdict(c)
      <4>1. \/ GivesUp(c) \/ caller'[c] = Idle
            \/ caller'[c].pc = "reserve" /\ caller'[c].op = "clear"
        BY <1>1, <2>2, <3>8, VerdictFields DEF NoMaintenance, GetsThere, Advances
      <4>. QED
        BY <1>1, <2>2, <3>1, <4>1
    <3>. QED
      BY <1>4, <3>2, <3>3, <3>4, <3>5, <3>6, <3>7, <3>8 DEF Thread
  <2>3. caller'["request"].op # "maintenance" /\ caller'["request"].pc # "seed"
    <3>1. CASE c = "request"
      BY <2>2, <3>1
    <3>2. CASE c # "request"
      BY <1>1, <2>1, <3>2 DEF OthersStay, NoMaintenance
    <3>. QED
      BY <3>1, <3>2
  <2>4. CASE toRobot' = toRobot
    BY <1>3, <2>1, <2>3, <2>4 DEF NoMaintenance
  <2>5. CASE toRobot' # toRobot
    <3>1. Transmit(c)
      BY <1>4, <2>5, ThreadLeaves
    <3>2. caller[c].pc = "picked" /\ toRobot' = Append(toRobot, Frame(c))
      BY <2>5, <3>1, SendsFrame
    <3>3. Frame(c).op # "maintenance"
      BY <3>2 DEF Frame, NoMaintenance, CallersOK, Callers
    <3>4. \A i \in 1..Len(toRobot') : toRobot'[i] = Frame(c) \/ (i \in 1..Len(toRobot) /\ toRobot'[i] = toRobot[i])
      BY <1>1, <3>2
    <3>5. \A i \in 1..Len(toRobot') : toRobot'[i].op # "maintenance"
      BY <3>3, <3>4 DEF NoMaintenance
    <3>. QED
      BY <2>1, <2>3, <3>5 DEF NoMaintenance
  <2>. QED
    BY <2>4, <2>5
<1>5. CASE CheckLink \/ LegacyStep \/ StartMotion
  <2>1. caller'["request"] = caller["request"]
    BY <1>1, <1>5, CheckLinkFields, LegacyStepFields, StartMotionFields DEF OthersStay
  <2>2. toRobot' = toRobot \/ toRobot' = <<>>
    BY <1>5 DEF CheckLink, LegacyStep, StartMotion, netVars
  <2>3. (robot'.cmd = robot.cmd /\ robot'.pc = robot.pc) \/ (robot'.cmd = NoCommand /\ robot'.pc = "off")
    BY <1>1, <1>5 DEF CheckLink, LegacyStep, StartMotion, Programs
  <2>. QED
    BY <1>3, <2>1, <2>2, <2>3 DEF NoMaintenance
<1>6. CASE ToggleOutput \/ ClearLatch \/ RecoverMotion \/ (\E s \in Seqs : ReconcileCommand(s)) \/ ApplyCompletion
  <2>1. caller' = caller \/ (\E op \in {"output", "clear"} : Request(op))
    BY <1>6 DEF ToggleOutput, ClearLatch, RecoverMotion, ReconcileCommand, ApplyCompletion
  <2>2. caller'["request"].op # "maintenance" /\ caller'["request"].pc # "seed"
    BY <2>1, RequestFields DEF NoMaintenance
  <2>3. UNCHANGED <<robot, toRobot>>
    BY <1>6 DEF ToggleOutput, ClearLatch, RecoverMotion, ReconcileCommand, ApplyCompletion, netVars
  <2>. QED
    BY <1>3, <2>2, <2>3 DEF NoMaintenance
<1>7. CASE AppHears \/ AppDisconnects
  <2>1. UNCHANGED <<caller, robot, toRobot>>
    BY <1>7 DEF AppHears, AppDisconnects, netVars
  <2>. QED
    BY <1>3, <2>1 DEF NoMaintenance
<1>8. CASE Robot
  <2>1. caller' = caller
    BY <1>8 DEF Robot, RobotConnects, RobotHears, RobotSendsEvent, Telemetry, RobotLosesLink, RobotTakes,
       RobotProceeds, RobotFinishes, RobotStops
  <2>2. CASE RobotConnects \/ RobotSendsEvent \/ Telemetry \/ RobotLosesLink
    <3>1. (toRobot' = toRobot \/ toRobot' = <<>>) /\ robot'.cmd = robot.cmd /\ robot'.pc = robot.pc
      BY <1>1, <2>2 DEF RobotConnects, RobotSendsEvent, Telemetry, RobotLosesLink, netVars, Programs
    <3>. QED
      BY <1>3, <2>1, <3>1 DEF NoMaintenance
  <2>3. CASE RobotHears
    <3>1. toRobot # <<>> /\ toRobot' = Tail(toRobot) /\ robot'.pc = robot.pc
          /\ (robot'.cmd = robot.cmd \/ robot'.cmd = Head(toRobot))
      BY <2>3, HeardFields DEF RobotHears
    <3>2. /\ Head(toRobot) = toRobot[1] /\ 1 \in 1..Len(toRobot)
          /\ \A i \in 1..Len(toRobot') : toRobot'[i] = toRobot[i + 1] /\ i + 1 \in 1..Len(toRobot)
      BY <1>1, <3>1
    <3>. QED
      BY <2>1, <3>1, <3>2 DEF NoMaintenance
  <2>4. CASE RobotTakes
    <3>1. toRobot' = toRobot /\ robot'.cmd = robot.cmd /\ ~Leaves
      BY <2>4, TakenFields DEF RobotTakes, netVars, NoMaintenance, Leaves
    <3>2. robot'.pc # "leaving"
      BY <2>4, <3>1, TakenFields DEF Repeats, Clears, Refuses, Accepts
    <3>. QED
      BY <1>3, <2>1, <3>1, <3>2 DEF NoMaintenance
  <2>5. CASE RobotProceeds \/ RobotFinishes
    <3>1. toRobot' = toRobot \/ toRobot' = <<>>
      BY <2>5 DEF RobotProceeds, RobotFinishes, netVars
    <3>2. (robot'.cmd = robot.cmd \/ robot'.cmd = NoCommand) /\ robot'.pc # "leaving"
      BY <2>5, ProceedsFields, FinishesFields DEF Begins, Settles, Ends
    <3>. QED
      BY <1>3, <2>1, <3>1, <3>2 DEF NoMaintenance
  <2>. QED
    BY <1>2, <1>8, <2>2, <2>3, <2>4, <2>5 DEF Robot
<1>. QED
  BY <1>2, <1>4, <1>5, <1>6, <1>7, <1>8 DEF Next, Worker, Operator, Connection, Callers

\* A step that is begun stays the command in progress until it is finished.
LEMMA InProgressStep ==
  ASSUME LinkTyped, WireOK, CallersOK, FramesOK, faults' = 0, faults = 0, NoMaintenance, InProgress, Next
  PROVE  InProgress'
<1>1. /\ "worker" \in Callers /\ robot \in Programs /\ done \subseteq done' /\ ran \in [Moves -> Nat]
  BY LinkFacts, DoneGrows
<1>2. ~Restart /\ ~Break /\ ~Bootstrap /\ ~RobotStops /\ ~SeedProgram
  BY DEF Restart, Break, Bootstrap, RobotStops, SeedProgram, NoMaintenance
<1>3. ASSUME ran' = ran, robot'.pc = robot.pc, robot'.cmd = robot.cmd \/ ~Busy
      PROVE  InProgress'
  BY <1>1, <1>3 DEF InProgress, Running, WireOK, Busy
<1>4. ASSUME ran' = ran, Running, robot.pc # "moving"
      PROVE  InProgress'
  BY <1>1, <1>4 DEF InProgress, Running
<1>5. ASSUME NEW c \in Callers, Thread(c)
      PROVE  InProgress'
  BY <1>3, <1>5, ThreadLeaves
<1>6. CASE CheckLink \/ Operator \/ AppHears \/ AppDisconnects \/ Telemetry
  <2>1. UNCHANGED <<ran, robot>>
    BY <1>6 DEF CheckLink, Operator, StartMotion, ToggleOutput, RecoverMotion, ReconcileCommand,
       ClearLatch, Bootstrap, ApplyCompletion, AppHears, AppDisconnects, Telemetry, armVars
  <2>. QED
    BY <1>3, <2>1
<1>7. CASE LegacyStep
  <2>1. robot'.pc = "off"
    BY <1>1, <1>7, LegacyStepFields DEF Programs
  <2>. QED
    BY <2>1 DEF InProgress, Running
<1>8. CASE RobotConnects \/ RobotSendsEvent \/ RobotLosesLink
  <2>1. ran' = ran /\ robot'.pc = robot.pc /\ robot'.cmd = robot.cmd
    BY <1>1, <1>8 DEF RobotConnects, RobotSendsEvent, RobotLosesLink, armVars, Programs
  <2>. QED
    BY <1>3, <2>1
<1>9. CASE RobotHears
  <2>1. ran' = ran
    BY <1>9 DEF RobotHears, armVars
  <2>. QED
    BY <1>3, <1>9, <2>1, HeardFields
<1>10. CASE RobotTakes
  <2>1. ran' = ran
    BY <1>10 DEF RobotTakes, armVars
  <2>. QED
    BY <1>4, <1>10, <2>1, TakenFields DEF Running
<1>11. CASE RobotProceeds
  <2>1. CASE Begins
    <3>1. /\ robot.pc = "starting" /\ robot'.pc = "moving" /\ robot'.cmd = robot.cmd
          /\ ran' = IF robot.cmd.op = "step" THEN [ran EXCEPT ![robot.cmd.move] = @ + 1] ELSE ran
      BY <1>11, <2>1 DEF Begins, RobotProceeds
    <3>2. \A x \in Moves : ran[x] > 0 => x \in done
      BY <3>1 DEF InProgress, Running
    <3>3. \A x \in Moves : ran'[x] > 0 => x \in done \/ (robot.cmd.op = "step" /\ robot.cmd.move = x)
      BY <1>1, <3>1, <3>2
    <3>. QED
      BY <1>1, <3>1, <3>3 DEF InProgress
  <2>2. CASE Settles /\ ran' = ran
    BY <1>4, <2>2 DEF Settles, Running
  <2>3. CASE Ends
    BY <2>3 DEF Ends, NoMaintenance
  <2>. QED
    BY <1>11, <2>1, <2>2, <2>3, ProceedsFields
<1>12. CASE RobotFinishes
  <2>1. /\ ran' = ran /\ robot.pc = "moving"
        /\ done' = IF robot.cmd.op = "step" THEN done \cup {robot.cmd.move} ELSE done
    BY <1>12 DEF RobotFinishes
  <2>. QED
    BY <2>1 DEF InProgress, Running
<1>. QED
  BY <1>2, <1>5, <1>6, <1>7, <1>8, <1>9, <1>10, <1>11, <1>12
     DEF Next, Worker, Operator, Connection, Robot, Callers

\* Faults are only counted up.
LEMMA FaultsGrow ==
  ASSUME LinkTyped, Next, faults' = 0
  PROVE  faults = 0
<1>1. faults \in Nat
  BY DEF LinkTyped
<1>2. faults' = faults \/ faults' = faults + 1
  <2>1. ASSUME NEW c \in Callers, Thread(c)
        PROVE  faults' = faults \/ faults' = faults + 1
    BY <2>1 DEF Thread, Reserve, ReserveFails, Dispatch, Transmit, Release, ReleaseLost, Record, Verdict,
       WaitExpires
  <2>2. CASE CheckLink \/ LegacyStep \/ SeedProgram \/ Operator
    BY <2>2 DEF CheckLink, LegacyStep, SeedProgram, Operator, StartMotion, ToggleOutput, RecoverMotion,
       ReconcileCommand, ClearLatch, Bootstrap, ApplyCompletion
  <2>3. CASE Connection \/ Robot
    BY <2>3 DEF Connection, AppHears, AppDisconnects, Break, Restart, Robot, RobotConnects, RobotHears,
       RobotSendsEvent, Telemetry, RobotLosesLink, RobotTakes, RobotProceeds, RobotFinishes, RobotStops
  <2>. QED
    BY <2>1, <2>2, <2>3 DEF Next, Worker, Callers
<1>. QED
  BY <1>1, <1>2

\* The invariant of the undisturbed runs is kept.
LEMMA UndisturbedStep ==
  ASSUME LinkTyped, WireOK, CallersOK, FramesOK, UndisturbedOK, Next
  PROVE  UndisturbedOK'
<1>. SUFFICES ASSUME faults' = 0
              PROVE  NoMaintenance' /\ InProgress'
  BY DEF UndisturbedOK, NoMaintenance, InProgress
<1>1. faults = 0
  BY FaultsGrow
<1>2. NoMaintenance /\ InProgress
  BY <1>1 DEF UndisturbedOK, NoMaintenance, InProgress
<1>. QED
  BY <1>1, <1>2, MaintenanceStep, InProgressStep

-----------------------------------------------------------------------------
(* The theorems.                                                           *)

\* The whole invariant holds as the system starts.
LEMMA LinkInvInit == Init => LinkInv
<1>. SUFFICES ASSUME Init PROVE LinkInv
  OBVIOUS
<1>1. LinkTyped /\ WireOK /\ CallersOK /\ FramesOK
  BY BasicsInit DEF LinkBasics
<1>2. /\ motion = 0 /\ toRobot = <<>> /\ toApp = <<>> /\ wire = FALSE /\ faults = 0
      /\ ran = [x \in Moves |-> 0] /\ done = {}
      /\ outcome = [m \in Motions |-> "none"]
      /\ \A s \in Seqs : ledger[s].op = "none" /\ events[s].code = "none"
      /\ \A c \in Callers : caller[c].pc = "free" /\ caller[c].op = "none"
      /\ robot.cmd = NoCommand /\ robot.pc = "idle" /\ robot.event = "idle" /\ ~robot.unsent
      /\ manager.event = "none" /\ NoCommand.op = "none" /\ NoCommand.seq = 0
  BY DEF Init, NoRow, NoReport, Idle, Program, NoManager, NoCommand
<1>3. StepsOK
  <2>1. \A x \in Moves : ran[x] = 0 /\ Unbegun(x)
    BY <1>2 DEF Unbegun, Awaited
  <2>. QED
    BY <1>2, <2>1 DEF StepsOK, Callers
<1>4. ReportsOK
  BY <1>2 DEF ReportsOK, Terminal
<1>5. OrderOK
  BY <1>2 DEF OrderOK, Callers
<1>6. InterruptedOK
  <2>1. \A m \in Motions : outcome[m] = "none" /\ m > motion
    BY <1>2, Numbers DEF Motions
  <2>. QED
    BY <1>2, <2>1 DEF InterruptedOK, Interrupted
<1>7. UndisturbedOK
  BY <1>2 DEF UndisturbedOK, Callers
<1>8. SuccessMeansDone
  BY <1>2 DEF SuccessMeansDone
<1>. QED
  BY <1>1, <1>3, <1>4, <1>5, <1>6, <1>7, <1>8 DEF LinkInv

\* Every step of the system keeps it, layer by layer.
LEMMA LinkInvStep == LinkInv /\ [Next]_vars => LinkInv'
<1>. SUFFICES ASSUME LinkInv, [Next]_vars PROVE LinkInv'
  OBVIOUS
<1>1. LinkBasics'
  BY BasicsStep DEF LinkInv, LinkBasics
<1>2. CASE UNCHANGED vars
  <2>1. UNCHANGED <<lastSeq, ledger, motion, outcome, caller, manager, events, robot, wire, joined,
                    toRobot, toApp, ran, done, faults>>
    BY <1>2 DEF vars, dbVars, motionVars, appVars, netVars, armVars
  <2>2. StepsOK'
    BY <2>1 DEF LinkInv, StepsOK, Frontier, Unbegun, Awaited
  <2>3. ReportsOK'
    BY <2>1 DEF LinkInv, ReportsOK, Sent, Unsent, Finished, SaysDone
  <2>4. OrderOK' /\ SuccessMeansDone'
    BY <2>1 DEF LinkInv, OrderOK, SuccessMeansDone
  <2>5. InterruptedOK'
    BY <2>1 DEF LinkInv, InterruptedOK, Interrupted, Busy, Finished
  <2>6. UndisturbedOK'
    BY <2>1 DEF LinkInv, UndisturbedOK, Running
  <2>. QED
    BY <1>1, <2>2, <2>3, <2>4, <2>5, <2>6 DEF LinkInv, LinkBasics
<1>3. CASE Next
  <2>1. StepsOK'
    BY <1>3, StepsStep DEF LinkInv
  <2>2. ReportsOK'
    BY <1>3, ReportsStep DEF LinkInv
  <2>3. OrderOK'
    BY <1>3, OrderStep DEF LinkInv
  <2>4. SuccessMeansDone'
    BY <1>3, SuccessStep DEF LinkInv
  <2>5. InterruptedOK'
    BY <1>3, InterruptedStep DEF LinkInv
  <2>6. UndisturbedOK'
    BY <1>3, UndisturbedStep DEF LinkInv
  <2>. QED
    BY <1>1, <2>1, <2>2, <2>3, <2>4, <2>5, <2>6 DEF LinkInv, LinkBasics
<1>. QED
  BY <1>2, <1>3

\* The inductive invariant of the protocol.
THEOREM LinkIsInvariant == Spec => []LinkInv
BY LinkInvInit, LinkInvStep, PTL DEF Spec

\* No step is begun twice, by whichever transport: a frame that may have left is
\* never sent again, the robot takes up one command at a time, and the legacy
\* script runs only a movement of which nothing was sent.
THEOREM NoStepTwice == Spec => []NoStepRunsTwice
<1>1. LinkInv => NoStepRunsTwice
  BY DEF LinkInv, StepsOK, NoStepRunsTwice
<1>. QED
  BY <1>1, LinkIsInvariant, PTL

\* A movement that is reported as successful was finished, step by step; also
\* when the report of an interrupted one was pieced together after a restart.
THEOREM SuccessIsDone == Spec => []SuccessMeansDone
<1>1. LinkInv => SuccessMeansDone
  BY DEF LinkInv
<1>. QED
  BY <1>1, LinkIsInvariant, PTL

\* The command in progress is not overwritten.
THEOREM StepIsKept == Spec => []StepInProgressIsKept
<1>1. LinkInv => StepInProgressIsKept
  BY DEF LinkInv, UndisturbedOK, StepInProgressIsKept
<1>. QED
  BY <1>1, LinkIsInvariant, PTL

-----------------------------------------------------------------------------
(* The protocol implements AtomicSteps.                                    *)

\* Both modules name the same moves.
LEMMA SameMoves == Arm!Moves = Moves
BY DEF Arm!Moves, Moves, Motions

\* Only the robot's program and the legacy script move the arm.
LEMMA ArmRests ==
  ASSUME LinkTyped, Next, ~LegacyStep, ~RobotProceeds, ~RobotFinishes
  PROVE  UNCHANGED <<ran, done>>
<1>1. ASSUME NEW c \in Callers, Thread(c)
      PROVE  UNCHANGED <<ran, done>>
  BY <1>1 DEF Thread, Reserve, ReserveFails, Dispatch, Transmit, Release, ReleaseLost, Record, Verdict,
     WaitExpires, armVars
<1>2. CASE CheckLink \/ SeedProgram \/ Operator
  BY <1>2 DEF CheckLink, SeedProgram, Operator, StartMotion, ToggleOutput, RecoverMotion, ReconcileCommand,
     ClearLatch, Bootstrap, ApplyCompletion, armVars
<1>3. CASE Connection
  BY <1>3 DEF Connection, AppHears, AppDisconnects, Break, Restart, armVars
<1>4. CASE Robot
  BY <1>4 DEF Robot, RobotConnects, RobotHears, RobotSendsEvent, Telemetry, RobotLosesLink, RobotTakes,
     RobotStops, armVars
<1>. QED
  BY <1>1, <1>2, <1>3, <1>4 DEF Next, Worker, Callers

\* A step that is about to begin is one of the movement's, not begun yet, and the
\* one before it was finished.
LEMMA RobotBegins ==
  ASSUME LinkInv, robot.pc = "starting", robot.cmd.op = "step"
  PROVE  robot.cmd.move \in Moves /\ Arm!Begun(robot.cmd.move)
<1>. DEFINE x == robot.cmd.move
<1>1. x \in Moves /\ Busy /\ ran[x] = 0 /\ Awaited(x) /\ Recorded(robot.cmd) /\ robot.cmd.seq \in Seqs
  <2>1. x \in Moves /\ Busy
    BY StepCommandsMove DEF LinkInv
  <2>2. ran[x] = 0 /\ Awaited(x)
    BY DEF LinkInv, StepsOK, Awaited
  <2>3. Recorded(robot.cmd) /\ robot.cmd.seq \in Seqs
    BY <2>1, LinkFacts DEF LinkInv, FramesOK, Busy, Commands
  <2>. QED
    BY <2>1, <2>2, <2>3
<1>2. x = <<x[1], x[2]>> /\ x[1] \in Motions /\ x[2] \in 1..Steps /\ motion \in Nat /\ Motions \subseteq Nat
      /\ Steps \in Nat
  BY <1>1, MovesArePairs, LinkFacts DEF LinkInv
<1>3. x[1] <= motion
  <2>1. \A m \in Moves : m[1] > motion => ran[m] = 0 /\ ~Awaited(m)
    BY DEF LinkInv, StepsOK, Unbegun
  <2>2. ~(x[1] > motion)
    BY <1>1, <2>1
  <2>3. x[1] \in Nat /\ motion \in Nat
    BY <1>2
  <2>. HIDE DEF x
  <2>. QED
    BY <2>2, <2>3
<1>4. x[2] > 1 => <<x[1], x[2] - 1>> \in done
  <2>1. \A j \in 1..(x[2] - 1) : <<x[1], j>> \in done
    BY <1>1 DEF LinkInv, OrderOK, Recorded
  <2>. QED
    BY <1>2, <2>1
<1>. QED
  BY <1>1, <1>3, <1>4 DEF Arm!Begun

\* A legacy step that runs is the next one of the movement.
LEMMA LegacyImplements ==
  ASSUME LinkInv, Next, LegacyStep
  PROVE  Arm!SNext
<1>. DEFINE x == <<motion, caller["worker"].step>>
<1>1. /\ caller["worker"].pc = "legacy" /\ motion' = motion /\ caller["worker"].step \in 1..Steps
      /\ caller["worker"].step \in Nat /\ Active /\ motion \in Motions
      /\ ran' = [ran EXCEPT ![x] = @ + 1] /\ ran \in [Moves -> Nat]
      /\ outcome \in [Motions -> {"none", "open", "succeeded", "faulted", "interrupted", "reconciled"}]
  <2>1. caller["worker"].pc = "legacy" /\ motion' = motion /\ ran' = [ran EXCEPT ![x] = @ + 1]
    BY LegacyStepFields DEF LinkInv
  <2>2. Active
    BY <2>1 DEF LinkInv, CallersOK
  <2>. QED
    BY <2>1, <2>2, LinkFacts DEF LinkInv, Active, LinkTyped, MotionTyped
<1>2. x \in Moves /\ ran[x] = 0 /\ x[1] = motion /\ x[2] = caller["worker"].step
  <2>1. Frontier(caller["worker"]) = caller["worker"].step
    BY <1>1 DEF Frontier
  <2>2. caller["worker"].step \in Frontier(caller["worker"])..Steps
    BY <1>1, <2>1
  <2>. QED
    BY <1>1, <2>2, FrontierTyped DEF LinkInv, StepsOK, Unbegun
<1>3. Arm!Begun(x)
  <2>1. \A j \in 1..(caller["worker"].step - 1) : <<motion, j>> \in done
    BY <1>1 DEF LinkInv, OrderOK
  <2>. QED
    BY <1>1, <1>2, <2>1 DEF Arm!Begun, Motions
<1>4. ran' = [ran EXCEPT ![x] = 1]
  BY <1>1, <1>2
<1>5. done' \in {done, done \cup {x}}
  BY LegacyStepFields DEF LinkInv
<1>6. \/ outcome' = outcome \/ Becomes("faulted")
      \/ RunByLegacy
  BY <1>1, LegacyStepFields DEF LinkInv, GivesUp, Becomes, RunByLegacy, LeftWith
<1>7. outcome' \in {outcome, [outcome EXCEPT ![motion] = "faulted"], [outcome EXCEPT ![motion] = "succeeded"]}
  BY <1>6 DEF Becomes, RunByLegacy
<1>8. outcome'[motion] = "succeeded" =>
        outcome[motion] = "open" /\ \A i \in 1..Steps : <<motion, i>> \in done'
  <2>1. RunByLegacy => \A i \in 1..Steps : <<motion, i>> \in done'
    BY SuccessIsEarned DEF LinkInv
  <2>2. ~RunByLegacy => outcome'[motion] # "succeeded"
    BY <1>1, <1>6 DEF Becomes, Active
  <2>. QED
    BY <1>1, <2>1, <2>2 DEF Active
<1>9. Arm!RunWhole(x)
  BY <1>1, <1>3, <1>4, <1>5, <1>7, <1>8 DEF Arm!RunWhole
<1>. QED
  BY <1>2, <1>9, SameMoves DEF Arm!SNext

\* Every verdict is one that AtomicSteps allows.
LEMMA VerdictImplements ==
  ASSUME LinkInv, Next, UNCHANGED <<ran, done>>
  PROVE  [Arm!SNext]_<<motion, outcome, ran, done>>
<1>1. CASE UNCHANGED <<motion, outcome>>
  BY <1>1
<1>2. CASE StartMotion
  <2>1. /\ motion' = motion + 1 /\ motion' \in Motions /\ motion \in 0..MaxMotions
        /\ outcome' = [outcome EXCEPT ![motion'] = "open"]
        /\ motion > 0 => outcome[motion] \notin {"open", "faulted", "interrupted"}
    BY <1>2, StartMotionFields, LinkFacts DEF LinkInv
  <2>2. motion > 0 => outcome[motion] \in {"succeeded", "reconciled"}
    <3>1. motion > 0 => motion \in Motions
      BY <2>1 DEF Motions
    <3>2. motion > 0 => outcome[motion] # "none"
      BY <2>1, <3>1 DEF LinkInv, InterruptedOK
    <3>. QED
      BY <2>1, <3>1, <3>2 DEF LinkInv, LinkTyped, MotionTyped
  <2>3. Arm!Command
    BY <2>1, <2>2, Numbers DEF Arm!Command, Motions
  <2>. QED
    BY <2>3 DEF Arm!SNext
<1>3. CASE Becomes("faulted") /\ caller["worker"].pc # "free"
  <2>1. motion > 0 /\ outcome[motion] = "open"
    BY <1>3 DEF LinkInv, CallersOK, Active
  <2>2. Arm!Decide("faulted")
    BY <1>3, <2>1 DEF Arm!Decide, Becomes
  <2>. QED
    BY <2>2 DEF Arm!SNext
<1>4. CASE Reported \/ Pieced
  <2>1. Becomes("succeeded") /\ motion > 0 /\ outcome[motion] \in {"open", "interrupted"}
    <3>1. CASE Reported
      <4>1. caller["worker"].pc # "free"
        BY <3>1 DEF Reported, Verdict
      <4>. QED
        BY <3>1, <4>1 DEF LinkInv, CallersOK, Active, Reported
    <3>2. CASE Pieced
      BY <3>2 DEF Pieced, Confirmed
    <3>. QED
      BY <1>4, <3>1, <3>2
  <2>2. \A i \in 1..Steps : <<motion, i>> \in done
    BY <1>4, SuccessIsEarned DEF LinkInv
  <2>3. Arm!Decide("succeeded")
    BY <2>1, <2>2 DEF Arm!Decide, Becomes
  <2>. QED
    BY <2>3 DEF Arm!SNext
<1>5. CASE RunByLegacy
  BY <1>5, LegacyImplements DEF RunByLegacy
<1>6. CASE Becomes("reconciled") /\ RecoverMotion
  <2>1. motion > 0 /\ outcome[motion] \in {"faulted", "interrupted"}
    BY <1>6 DEF RecoverMotion, Locked, Active
  <2>2. Arm!Decide("reconciled")
    BY <1>6, <2>1 DEF Arm!Decide, Becomes
  <2>. QED
    BY <2>2 DEF Arm!SNext
<1>7. CASE Active /\ Becomes("interrupted")
  <2>1. Arm!Decide("interrupted")
    BY <1>7 DEF Arm!Decide, Becomes, Active
  <2>. QED
    BY <2>1 DEF Arm!SNext
<1>. QED
  BY <1>1, <1>2, <1>3, <1>4, <1>5, <1>6, <1>7, OutcomeStep DEF LinkInv

\* Every step of the protocol is a step of AtomicSteps or leaves the arm and the
\* verdicts alone.
LEMMA StepImplements ==
  ASSUME LinkInv, [Next]_vars
  PROVE  [Arm!SNext]_<<motion, outcome, ran, done>>
<1>1. CASE UNCHANGED vars
  BY <1>1 DEF vars, motionVars, armVars
<1>2. CASE Next /\ LegacyStep
  BY <1>2, LegacyImplements
<1>3. CASE RobotProceeds
  <2>1. UNCHANGED <<motion, outcome, done>>
    BY <1>3 DEF RobotProceeds, motionVars
  <2>2. CASE ran' = ran
    BY <2>1, <2>2
  <2>3. CASE ran' # ran
    <3>1. /\ robot.pc = "starting" /\ robot.cmd.op = "step"
          /\ ran' = [ran EXCEPT ![robot.cmd.move] = @ + 1]
      BY <1>3, <2>3 DEF RobotProceeds
    <3>2. robot.cmd.move \in Moves /\ Arm!Begun(robot.cmd.move)
      BY <3>1, RobotBegins
    <3>3. ran' = [ran EXCEPT ![robot.cmd.move] = 1]
      BY <3>1, <3>2, LinkFacts DEF LinkInv, Arm!Begun
    <3>4. Arm!Begin(robot.cmd.move)
      BY <2>1, <3>2, <3>3 DEF Arm!Begin
    <3>. QED
      BY <3>2, <3>4, SameMoves DEF Arm!SNext
  <2>. QED
    BY <2>2, <2>3
<1>4. CASE RobotFinishes
  <2>1. /\ UNCHANGED <<motion, outcome, ran>> /\ robot.pc = "moving"
        /\ done' = IF robot.cmd.op = "step" THEN done \cup {robot.cmd.move} ELSE done
    BY <1>4 DEF RobotFinishes, motionVars
  <2>2. CASE robot.cmd.op # "step"
    BY <2>1, <2>2
  <2>3. CASE robot.cmd.op = "step"
    <3>1. robot.cmd.move \in Moves /\ ran[robot.cmd.move] = 1
      BY <2>1, <2>3, StepCommandsMove DEF LinkInv, StepsOK
    <3>2. Arm!Finish(robot.cmd.move)
      BY <2>1, <2>3, <3>1 DEF Arm!Finish
    <3>. QED
      BY <3>1, <3>2, SameMoves DEF Arm!SNext
  <2>. QED
    BY <2>2, <2>3
<1>5. CASE Next /\ ~LegacyStep /\ ~RobotProceeds /\ ~RobotFinishes
  BY <1>5, ArmRests, VerdictImplements DEF LinkInv
<1>. QED
  BY <1>1, <1>2, <1>3, <1>4, <1>5

\* What the application, the connection and the two programs do together is what
\* a movement promises about the arm: steps in order, once, and no success
\* without all of them.
THEOREM LinkImplementsAtomicSteps == Spec => ImplementsAtomicSteps
<1>1. Init => Arm!SInit
  BY SameMoves DEF Init, Arm!SInit, Motions
<1>2. LinkInv /\ [Next]_vars => [Arm!SNext]_<<motion, outcome, ran, done>>
  BY StepImplements
<1>3. <<motion, outcome, ran, done>> = Arm!svars
  BY DEF Arm!svars
<1>. QED
  BY <1>1, <1>2, LinkIsInvariant, PTL DEF Spec, ImplementsAtomicSteps, Arm!SSpec, Arm!svars
=============================================================================
