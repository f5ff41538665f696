----------------------------- MODULE LinkProofs -----------------------------
(***************************************************************************)
(* Theorems about SupervisorLink, for every size of the sequence space,    *)
(* every number of movements, steps and faults: type correctness, what a   *)
(* connection carries, and that the ledger knows every command the robot   *)
(* was sent.                                                               *)
(***************************************************************************)
EXTENDS SupervisorLink, TLAPS

-----------------------------------------------------------------------------
(* Types of the records the actions write.                                 *)

\* The numbers the constants give.
LEMMA Numbers ==
  /\ MaxSequence \in Nat /\ MaxSequence > 0
  /\ MaxMotions \in Nat /\ MaxMotions > 0
  /\ Steps \in Nat /\ Steps > 0
  /\ 0 \in 0..MaxSequence /\ 1 \in 1..Steps
BY LinkAssumption

\* A thread that is free, or that an operator or a movement just started.
LEMMA ThreadsStart ==
  /\ Idle \in Threads
  /\ [Idle EXCEPT !.pc = "check"] \in Threads
  /\ \A op \in Ops : [Idle EXCEPT !.pc = "reserve", !.op = op] \in Threads
  /\ \A n \in 0..MaxSequence : [Idle EXCEPT !.pc = "seed", !.seq = n] \in Threads
<1>1. Idle \in Threads
  BY Numbers DEF Idle, Threads
<1>2. [Idle EXCEPT !.pc = "check"] \in Threads
  BY <1>1, Zenon DEF Threads
<1>3. \A op \in Ops : [Idle EXCEPT !.pc = "reserve", !.op = op] \in Threads
  BY <1>1, Zenon DEF Threads
<1>4. \A n \in 0..MaxSequence : [Idle EXCEPT !.pc = "seed", !.seq = n] \in Threads
  BY <1>1, Zenon DEF Threads
<1>. QED
  BY <1>1, <1>2, <1>3, <1>4

\* The edits of a thread's record that the actions make.
LEMMA ThreadsMove ==
  ASSUME NEW k \in Threads
  PROVE  /\ \A pc \in {"reserve", "check", "release", "wait", "seed"} : [k EXCEPT !.pc = pc] \in Threads
         /\ \A op \in Ops : [k EXCEPT !.pc = "reserve", !.op = op] \in Threads
         /\ \A i \in 1..Steps : [k EXCEPT !.pc = "check", !.step = i] \in Threads
         /\ \A i \in 1..Steps : [k EXCEPT !.pc = "legacy", !.step = i] \in Threads
         /\ \A i \in 1..Steps : [k EXCEPT !.step = i] \in Threads
         /\ \A n \in 0..MaxSequence : [k EXCEPT !.pc = "dispatch", !.seq = n] \in Threads
         /\ \A n \in Nat : [k EXCEPT !.pc = "picked", !.conn = n] \in Threads
         /\ \A ok \in BOOLEAN : [k EXCEPT !.pc = "record", !.sent = ok, !.tried = TRUE] \in Threads
<1>1. \A pc \in {"reserve", "check", "release", "wait", "seed"} : [k EXCEPT !.pc = pc] \in Threads
  BY Zenon DEF Threads
<1>2. \A op \in Ops : [k EXCEPT !.pc = "reserve", !.op = op] \in Threads
  BY Zenon DEF Threads
<1>3. \A i \in 1..Steps : [k EXCEPT !.pc = "check", !.step = i] \in Threads
  BY Zenon DEF Threads
<1>4. \A i \in 1..Steps : [k EXCEPT !.pc = "legacy", !.step = i] \in Threads
  BY Zenon DEF Threads
<1>5. \A i \in 1..Steps : [k EXCEPT !.step = i] \in Threads
  BY Zenon DEF Threads
<1>6. \A n \in 0..MaxSequence : [k EXCEPT !.pc = "dispatch", !.seq = n] \in Threads
  BY Zenon DEF Threads
<1>7. \A n \in Nat : [k EXCEPT !.pc = "picked", !.conn = n] \in Threads
  BY Zenon DEF Threads
<1>8. \A ok \in BOOLEAN : [k EXCEPT !.pc = "record", !.sent = ok, !.tried = TRUE] \in Threads
  BY Zenon DEF Threads
<1>. QED
  BY <1>1, <1>2, <1>3, <1>4, <1>5, <1>6, <1>7, <1>8

\* Callers, written as the actions write them.
LEMMA CallersStay ==
  ASSUME caller \in [Callers -> Threads], NEW c \in Callers
  PROVE  /\ \A pc \in {"reserve", "check", "release", "wait", "seed"} :
              [caller EXCEPT ![c].pc = pc] \in [Callers -> Threads]
         /\ \A op \in Ops : [caller EXCEPT ![c].pc = "reserve", ![c].op = op] \in [Callers -> Threads]
         /\ \A i \in 1..Steps : [caller EXCEPT ![c].pc = "check", ![c].step = i] \in [Callers -> Threads]
         /\ \A i \in 1..Steps : [caller EXCEPT ![c].pc = "legacy", ![c].step = i] \in [Callers -> Threads]
         /\ \A i \in 1..Steps : [caller EXCEPT ![c].step = i] \in [Callers -> Threads]
         /\ \A n \in 0..MaxSequence :
              [caller EXCEPT ![c].pc = "dispatch", ![c].seq = n] \in [Callers -> Threads]
         /\ \A n \in Nat : [caller EXCEPT ![c].pc = "picked", ![c].conn = n] \in [Callers -> Threads]
         /\ \A ok \in BOOLEAN :
              [caller EXCEPT ![c].pc = "record", ![c].sent = ok, ![c].tried = TRUE] \in [Callers -> Threads]
         /\ [caller EXCEPT ![c] = Idle] \in [Callers -> Threads]
<1>1. caller[c] \in Threads /\ Idle \in Threads
  BY ThreadsStart
<1>2. \A k \in Threads : [caller EXCEPT ![c] = k] \in [Callers -> Threads]
  OBVIOUS
<1>. QED
  BY <1>1, <1>2, ThreadsMove, Zenon

\* How a dispatch reports back.
LEMMA DispatchReports ==
  ASSUME MotionTyped, caller \in [Callers -> Threads], NEW c \in Callers
  PROVE  /\ Fails(c) => MotionTyped' /\ (caller \in [Callers -> Threads])'
         /\ Succeeds(c) => MotionTyped' /\ (caller \in [Callers -> Threads])'
         /\ RunsLegacy => (caller \in [Callers -> Threads])'
<1>1. "worker" \in Callers /\ 1 \in 1..Steps
  BY Numbers DEF Callers
<1>2. ASSUME NEW verdict \in {"succeeded", "faulted"}, EndMotion(verdict)
      PROVE  MotionTyped' /\ (caller \in [Callers -> Threads])'
  <2>1. MotionTyped'
    BY <1>2 DEF EndMotion, MotionTyped
  <2>2. (caller \in [Callers -> Threads])'
    BY <1>1, <1>2, CallersStay DEF EndMotion
  <2>. QED
    BY <2>1, <2>2
<1>3. ASSUME UNCHANGED motionVars
      PROVE  MotionTyped'
  BY <1>3 DEF motionVars, MotionTyped
<1>4. Fails(c) => MotionTyped' /\ (caller \in [Callers -> Threads])'
  <2>1. [caller EXCEPT ![c] = Idle] \in [Callers -> Threads]
    BY CallersStay
  <2>. QED
    BY <1>2, <1>3, <2>1 DEF Fails
<1>5. ASSUME Succeeds(c)
      PROVE  MotionTyped' /\ (caller \in [Callers -> Threads])'
  <2>1. CASE c = "worker" /\ LastStep(caller[c])
    BY <1>2, <1>5, <2>1 DEF Succeeds
  <2>2. CASE c = "worker" /\ ~LastStep(caller[c])
    <3>1. caller[c].step + 1 \in 1..Steps
      BY <2>2, Numbers DEF LastStep, Threads
    <3>2. [caller EXCEPT !["worker"].pc = "check", !["worker"].step = caller["worker"].step + 1]
            \in [Callers -> Threads]
      BY <1>1, <2>2, <3>1, CallersStay
    <3>. QED
      BY <1>3, <1>5, <2>2, <3>2 DEF Succeeds
  <2>3. CASE c # "worker"
    <3>1. [caller EXCEPT ![c].pc = "seed"] \in [Callers -> Threads]
      BY CallersStay
    <3>2. [caller EXCEPT ![c] = Idle] \in [Callers -> Threads]
      BY CallersStay
    <3>. QED
      BY <1>3, <1>5, <2>3, <3>1, <3>2 DEF Succeeds
  <2>. QED
    BY <2>1, <2>2, <2>3
<1>6. RunsLegacy => (caller \in [Callers -> Threads])'
  <2>1. [caller EXCEPT !["worker"].pc = "legacy", !["worker"].step = 1] \in [Callers -> Threads]
    BY <1>1, CallersStay
  <2>. QED
    BY <2>1 DEF RunsLegacy
<1>. QED
  BY <1>4, <1>5, <1>6

\* The edits of a row of the ledger.
LEMMA LedgerStays ==
  ASSUME LedgerTyped, NEW s \in 0..MaxSequence
  PROVE  /\ \A st \in {"created", "completed", "completed_link_lost", "reconciled"} \cup Unresolved :
              [ledger EXCEPT ![s].status = st] \in [Seqs -> Rows]
         /\ \A row \in Rows : [ledger EXCEPT ![s] = row] \in [Seqs -> Rows]
<1>1. \A row \in Rows : [ledger EXCEPT ![s] = row] \in [Seqs -> Rows]
  BY DEF LedgerTyped
<1>2. CASE s \in Seqs
  <2>1. ledger[s] \in Rows
    BY <1>2 DEF LedgerTyped
  <2>2. \A st \in {"created", "completed", "completed_link_lost", "reconciled"} \cup Unresolved :
          [ledger[s] EXCEPT !.status = st] \in Rows
    BY <2>1, Zenon DEF Rows
  <2>. QED
    BY <1>1, <2>2, Zenon
<1>3. CASE s \notin Seqs
  <2>1. \A st : [ledger EXCEPT ![s].status = st] = ledger
    BY <1>3 DEF LedgerTyped
  <2>. QED
    BY <1>1, <2>1 DEF LedgerTyped
<1>. QED
  BY <1>2, <1>3

\* The robot's program, as the actions rewrite it.
LEMMA ProgramsMove ==
  ASSUME NEW r \in Programs
  PROVE  /\ \A pc \in {"idle", "starting", "moving", "reporting", "leaving", "off"},
              cmd \in Commands \cup {NoCommand} :
              [r EXCEPT !.pc = pc, !.up = FALSE, !.cmd = cmd] \in Programs
         /\ [r EXCEPT !.up = TRUE] \in Programs
         /\ [r EXCEPT !.up = FALSE, !.lost = TRUE] \in Programs
         /\ [r EXCEPT !.unsent = FALSE] \in Programs
         /\ [r EXCEPT !.pc = "moving", !.lost = FALSE] \in Programs
         /\ [r EXCEPT !.latched = TRUE, !.fault = "conflict"] \in Programs
         /\ \A cmd \in Commands : [r EXCEPT !.cmd = cmd] \in Programs
         /\ \A p \in [seq : 0..MaxSequence, code : Codes, fault : Faults] :
              [r EXCEPT !.pending = p, !.unsent = TRUE] \in Programs
         /\ \A p \in [seq : 0..MaxSequence, code : Codes, fault : Faults] :
              [r EXCEPT !.pc = "idle", !.cmd = NoCommand, !.pending = p] \in Programs
         /\ \A pc \in {"starting", "reporting", "leaving"},
              code \in Codes, fault \in Faults, seq \in 0..MaxSequence :
              Publish(r, pc, code, fault, seq) \in Programs
<1>1. \A pc \in {"idle", "starting", "moving", "reporting", "leaving", "off"},
         cmd \in Commands \cup {NoCommand} :
         [r EXCEPT !.pc = pc, !.up = FALSE, !.cmd = cmd] \in Programs
  BY Zenon DEF Programs
<1>2. [r EXCEPT !.up = TRUE] \in Programs
  BY Zenon DEF Programs
<1>3. [r EXCEPT !.up = FALSE, !.lost = TRUE] \in Programs
  BY Zenon DEF Programs
<1>4. [r EXCEPT !.unsent = FALSE] \in Programs
  BY Zenon DEF Programs
<1>5. [r EXCEPT !.pc = "moving", !.lost = FALSE] \in Programs
  BY Zenon DEF Programs
<1>6. [r EXCEPT !.latched = TRUE, !.fault = "conflict"] \in Programs
  BY Zenon DEF Programs, Faults
<1>7. \A cmd \in Commands : [r EXCEPT !.cmd = cmd] \in Programs
  BY Zenon DEF Programs
<1>8. \A p \in [seq : 0..MaxSequence, code : Codes, fault : Faults] :
         [r EXCEPT !.pending = p, !.unsent = TRUE] \in Programs
  BY Zenon DEF Programs
<1>9. \A p \in [seq : 0..MaxSequence, code : Codes, fault : Faults] :
         [r EXCEPT !.pc = "idle", !.cmd = NoCommand, !.pending = p] \in Programs
  BY Zenon DEF Programs
<1>10. \A pc \in {"starting", "reporting", "leaving"},
          code \in Codes, fault \in Faults, seq \in 0..MaxSequence :
          Publish(r, pc, code, fault, seq) \in Programs
  BY Zenon DEF Programs, Publish
<1>. QED
  BY <1>1, <1>2, <1>3, <1>4, <1>5, <1>6, <1>7, <1>8, <1>9, <1>10

\* Nothing on the way is well typed.
LEMMA NothingOnTheWay ==
  <<>> \in Seq(Commands) /\ <<>> \in Seq(Hellos \cup Reports)
OBVIOUS

\* A thread's dispatch keeps the types.
LEMMA ThreadTypes ==
  ASSUME LinkTyped, CallersOK, NEW c \in Callers, Thread(c)
  PROVE  LinkTyped'
<1>. USE DEF LinkTyped
<1>1. CASE Reserve(c)
  <2>1. lastSeq + 1 \in Seqs /\ lastSeq + 1 \in 0..MaxSequence
    BY <1>1, Numbers DEF Reserve, SequenceLeft, LedgerTyped, Seqs
  <2>2. (caller \in [Callers -> Threads])'
    <3>1. [caller EXCEPT ![c].pc = "dispatch", ![c].seq = lastSeq + 1] \in [Callers -> Threads]
      BY <2>1, CallersStay
    <3>. QED
      BY <1>1, <3>1 DEF Reserve
  <2>3. LedgerTyped'
    <3>1. (IF caller[c].op = "step" THEN <<motion, caller[c].step>> ELSE <<0, 0>>) \in Moves \cup {<<0, 0>>}
      <4>1. caller[c].op = "step" => motion \in Motions
        BY <1>1, Numbers DEF Reserve, CallersOK, Callers, Active, MotionTyped, Motions
      <4>. QED
        BY <4>1 DEF Threads, Moves
    <3>2. [status |-> "created", op |-> caller[c].op,
           move |-> IF caller[c].op = "step" THEN <<motion, caller[c].step>> ELSE <<0, 0>>,
           session |-> manager.session] \in Rows
      BY <3>1 DEF Rows, Threads, AppTyped, Managers
    <3>. QED
      BY <1>1, <2>1, <3>2, LedgerStays DEF Reserve, LedgerTyped
  <2>. QED
    BY <1>1, <2>2, <2>3 DEF Reserve, motionVars, appVars, netVars, armVars,
       MotionTyped, AppTyped, RobotTyped, NetTyped, ArmTyped
<1>2. CASE ReserveFails(c)
  BY <1>2, DispatchReports DEF ReserveFails, dbVars, appVars, netVars, armVars,
     LedgerTyped, AppTyped, RobotTyped, NetTyped, ArmTyped
<1>3. CASE Dispatch(c)
  <2>1. [caller EXCEPT ![c].pc = "release"] \in [Callers -> Threads]
    BY CallersStay
  <2>2. manager.conn \in Nat
    BY DEF AppTyped, Managers
  <2>3. [caller EXCEPT ![c].pc = "picked", ![c].conn = manager.conn] \in [Callers -> Threads]
    BY <2>2, CallersStay
  <2>. QED
    BY <1>3, <2>1, <2>3 DEF Dispatch, Set, dbVars, motionVars, appVars, netVars, armVars,
       LedgerTyped, MotionTyped, AppTyped, RobotTyped, NetTyped, ArmTyped
<1>4. CASE Transmit(c)
  <2>1. [caller EXCEPT ![c].pc = "release"] \in [Callers -> Threads]
    BY CallersStay
  <2>2. \A ok \in BOOLEAN :
          [caller EXCEPT ![c].pc = "record", ![c].sent = ok, ![c].tried = TRUE] \in [Callers -> Threads]
    BY CallersStay
  <2>3. (caller \in [Callers -> Threads])'
    BY <1>4, <2>1, <2>2 DEF Transmit, Set, AfterSend
  <2>4. [seq |-> caller[c].seq, op |-> caller[c].op, move |-> ledger[caller[c].seq].move] \in Commands
    <3>1. caller[c].pc = "picked" /\ Holds(c)
      BY <1>4 DEF Transmit, Holds
    <3>2. caller[c].seq \in Seqs /\ caller[c].op \in Ops
      BY <3>1 DEF CallersOK, Holds, Threads, Callers, Seqs, Ops
    <3>3. ledger[caller[c].seq].move \in Moves \cup {<<0, 0>>}
      BY <3>2 DEF LedgerTyped, Rows
    <3>. QED
      BY <3>2, <3>3 DEF Commands, Ops
  <2>5. NetTyped'
    <3>1. Append(toRobot, [seq |-> caller[c].seq, op |-> caller[c].op, move |-> ledger[caller[c].seq].move])
            \in Seq(Commands)
      BY <2>4 DEF NetTyped
    <3>2. toRobot' \in Seq(Commands) /\ wire' \in BOOLEAN /\ joined' \in BOOLEAN
      BY <1>4, <3>1 DEF Transmit, NetTyped, netVars
    <3>3. toApp' = toApp
      BY <1>4 DEF Transmit, netVars
    <3>. QED
      BY <3>2, <3>3 DEF NetTyped
  <2>6. (faults \in Nat)'
    <3>1. faults' = faults \/ faults' = faults + 1
      BY <1>4, Zenon DEF Transmit
    <3>. QED
      BY <3>1
  <2>. QED
    BY <1>4, <2>3, <2>5, <2>6 DEF Transmit, dbVars, motionVars, appVars, armVars,
       LedgerTyped, MotionTyped, AppTyped, RobotTyped, ArmTyped
<1>5. CASE Release(c)
  <2>1. lastSeq \in 0..MaxSequence /\ caller[c].seq \in 0..MaxSequence
    BY DEF LedgerTyped, Threads
  <2>2. LedgerTyped'
    <3>1. caller[c].seq > 0
      BY <1>5, Zenon DEF Release, CallersOK, Holds
    <3>2. lastSeq - 1 \in 0..MaxSequence
      BY <1>5, <2>1, <3>1, Numbers DEF Release, MayRelease
    <3>3. NoRow \in Rows
      BY DEF NoRow, Rows
    <3>. QED
      BY <1>5, <2>1, <3>2, <3>3, LedgerStays DEF Release, LedgerTyped
  <2>3. MotionTyped' /\ (caller \in [Callers -> Threads])'
    BY <1>5, DispatchReports DEF Release, motionVars, MotionTyped
  <2>. QED
    BY <1>5, <2>2, <2>3 DEF Release, appVars, netVars, armVars, AppTyped, RobotTyped, NetTyped, ArmTyped
<1>6. CASE ReleaseLost(c)
  BY <1>6, DispatchReports DEF ReleaseLost, dbVars, appVars, netVars, armVars,
     LedgerTyped, AppTyped, RobotTyped, NetTyped, ArmTyped
<1>7. CASE Record(c)
  <2>1. LedgerTyped'
    <3>1. caller[c].seq \in 0..MaxSequence
      BY DEF Threads
    <3>2. \A st \in {"sent", "uncertain"} : [ledger EXCEPT ![caller[c].seq].status = st] \in [Seqs -> Rows]
      BY <3>1, LedgerStays DEF Unresolved
    <3>. QED
      BY <1>7, <3>2 DEF Record, LedgerTyped
  <2>2. [caller EXCEPT ![c].pc = "wait"] \in [Callers -> Threads]
    BY CallersStay
  <2>3. MotionTyped' /\ (caller \in [Callers -> Threads])'
    BY <1>7, <2>2, DispatchReports DEF Record, Set, motionVars, MotionTyped
  <2>. QED
    BY <1>7, <2>1, <2>3 DEF Record, appVars, netVars, armVars, AppTyped, RobotTyped, NetTyped, ArmTyped
<1>8. CASE Verdict(c)
  <2>1. LedgerTyped'
    <3>1. caller[c].seq \in 0..MaxSequence
      BY DEF Threads
    <3>2. \A st \in {"completed", "completed_link_lost", "latched"} :
            [ledger EXCEPT ![caller[c].seq].status = st] \in [Seqs -> Rows]
      BY <3>1, LedgerStays DEF Unresolved
    <3>. QED
      BY <1>8, <3>2 DEF Verdict, LedgerTyped
  <2>2. [caller EXCEPT ![c].pc = "reserve", ![c].op = "clear"] \in [Callers -> Threads]
    BY CallersStay DEF Ops
  <2>3. MotionTyped' /\ (caller \in [Callers -> Threads])'
    BY <1>8, <2>2, DispatchReports DEF Verdict, motionVars, MotionTyped
  <2>. QED
    BY <1>8, <2>1, <2>3 DEF Verdict, appVars, netVars, armVars, AppTyped, RobotTyped, NetTyped, ArmTyped
<1>9. CASE WaitExpires(c)
  <2>1. LedgerTyped'
    <3>1. caller[c].seq \in 0..MaxSequence
      BY DEF Threads
    <3>2. [ledger EXCEPT ![caller[c].seq].status = "uncertain"] \in [Seqs -> Rows]
      BY <3>1, LedgerStays DEF Unresolved
    <3>. QED
      BY <1>9, <3>2 DEF WaitExpires, LedgerTyped
  <2>. QED
    BY <1>9, <2>1, DispatchReports DEF WaitExpires, appVars, netVars, armVars,
       AppTyped, RobotTyped, NetTyped, ArmTyped
<1>. QED
  BY <1>1, <1>2, <1>3, <1>4, <1>5, <1>6, <1>7, <1>8, <1>9 DEF Thread

\* So does what the worker does beside dispatching, and what an operator does.
LEMMA OperatorTypes ==
  ASSUME LinkTyped, CallersOK,
         CheckLink \/ LegacyStep \/ SeedProgram \/ Operator
  PROVE  LinkTyped'
<1>. USE DEF LinkTyped
<1>1. "worker" \in Callers /\ "request" \in Callers
  BY DEF Callers
<1>2. \A op \in Ops : Request(op) => (caller \in [Callers -> Threads])'
  BY <1>1, ThreadsStart DEF Request
<1>3. CASE CheckLink
  <2>1. [caller EXCEPT !["worker"].pc = "reserve", !["worker"].op = "step"] \in [Callers -> Threads]
    BY <1>1, CallersStay DEF Ops
  <2>2. MotionTyped' /\ (caller \in [Callers -> Threads])'
    BY <1>1, <1>3, <2>1, DispatchReports DEF CheckLink, motionVars, MotionTyped
  <2>. QED
    BY <1>3, <2>2 DEF CheckLink, dbVars, appVars, netVars, armVars,
       LedgerTyped, AppTyped, RobotTyped, NetTyped, ArmTyped
<1>4. CASE LegacyStep
  <2>1. [caller EXCEPT !["worker"] = Idle] \in [Callers -> Threads]
    BY <1>1, CallersStay
  <2>2. ASSUME NEW v \in {"succeeded", "faulted"}, EndMotion(v)
        PROVE  MotionTyped' /\ (caller \in [Callers -> Threads])'
    BY <2>1, <2>2 DEF EndMotion, MotionTyped
  <2>3. ASSUME caller["worker"].step # Steps
        PROVE  [caller EXCEPT !["worker"].step = @ + 1] \in [Callers -> Threads]
    <3>1. caller["worker"].step + 1 \in 1..Steps
      BY <1>1, <2>3, Numbers DEF Threads
    <3>. QED
      BY <1>1, <3>1, CallersStay
  <2>4. MotionTyped' /\ (caller \in [Callers -> Threads])'
    BY <1>4, <2>2, <2>3 DEF LegacyStep, Fails, motionVars, MotionTyped
  <2>5. RobotTyped'
    <3>1. [robot EXCEPT !.pc = "off", !.up = FALSE, !.cmd = NoCommand] \in Programs
      BY ProgramsMove DEF RobotTyped
    <3>. QED
      BY <1>4, <3>1 DEF LegacyStep, RobotTyped, Programs
  <2>6. ArmTyped'
    <3>1. motion \in Motions
      BY <1>4 DEF LegacyStep, CallersOK, Active, MotionTyped, Motions
    <3>2. <<motion, caller["worker"].step>> \in Moves
      BY <1>1, <3>1 DEF Moves, Threads
    <3>. QED
      BY <1>4, <3>2 DEF LegacyStep, ArmTyped
  <2>7. NetTyped'
    BY <1>4, NothingOnTheWay DEF LegacyStep, NetTyped
  <2>. QED
    BY <1>4, <2>4, <2>5, <2>6, <2>7 DEF LegacyStep, dbVars, appVars, LedgerTyped, AppTyped
<1>5. CASE SeedProgram
  <2>1. [caller EXCEPT !["request"] = Idle] \in [Callers -> Threads]
    BY <1>1, CallersStay
  <2>2. \A session \in {robot.session, robot.session + 1} :
          Program(caller["request"].seq, session) \in Programs
    <3>1. caller["request"].seq \in 0..MaxSequence
      BY <1>1 DEF Threads
    <3>2. robot.session \in Nat /\ robot.session + 1 \in Nat
      BY DEF RobotTyped, Programs
    <3>3. NoEvent \in [seq : 0..MaxSequence, code : Codes, fault : Faults]
      BY Numbers DEF NoEvent, Codes, Faults
    <3>4. "idle" \in Codes /\ "none" \in Faults
      BY DEF Codes, Faults
    <3>. QED
      BY <3>1, <3>2, <3>3, <3>4 DEF Program, Programs
  <2>3. RobotTyped'
    <3>1. PICK session \in {robot.session, robot.session + 1} :
            robot' = Program(caller["request"].seq, session)
      BY <1>5 DEF SeedProgram
    <3>2. robot' \in Programs /\ ~robot'.unsent
      BY <2>2, <3>1 DEF Program
    <3>. QED
      BY <3>2 DEF RobotTyped
  <2>4. NetTyped'
    BY <1>5, NothingOnTheWay DEF SeedProgram, NetTyped
  <2>. QED
    BY <1>5, <2>1, <2>3, <2>4 DEF SeedProgram, dbVars, motionVars, appVars, armVars,
       LedgerTyped, MotionTyped, AppTyped, ArmTyped
<1>6. CASE StartMotion
  <2>1. MotionTyped'
    <3>1. motion' \in 0..MaxMotions
      BY <1>6, Numbers DEF StartMotion, MotionTyped
    <3>2. outcome' \in [Motions -> {"none", "open", "succeeded", "faulted", "interrupted", "reconciled"}]
      BY <1>6 DEF StartMotion, MotionTyped
    <3>. QED
      BY <3>1, <3>2 DEF MotionTyped
  <2>. QED
    BY <1>1, <1>6, <2>1, ThreadsStart DEF StartMotion, dbVars, appVars, netVars, armVars,
       LedgerTyped, AppTyped, RobotTyped, NetTyped, ArmTyped
<1>7. CASE ToggleOutput
  BY <1>2, <1>7 DEF ToggleOutput, Ops, dbVars, motionVars, appVars, netVars, armVars,
     LedgerTyped, MotionTyped, AppTyped, RobotTyped, NetTyped, ArmTyped
<1>8. CASE RecoverMotion
  <2>1. (caller \in [Callers -> Threads])'
    BY <1>2, <1>8 DEF RecoverMotion, Ops
  <2>2. MotionTyped'
    BY <1>8 DEF RecoverMotion, MotionTyped
  <2>. QED
    BY <1>8, <2>1, <2>2 DEF RecoverMotion, dbVars, appVars, netVars, armVars,
       LedgerTyped, AppTyped, RobotTyped, NetTyped, ArmTyped
<1>9. CASE \E s \in Seqs : ReconcileCommand(s)
  <2>. PICK s \in Seqs : ReconcileCommand(s)
    BY <1>9
  <2>1. s \in 0..MaxSequence
    BY Numbers DEF Seqs
  <2>2. [ledger EXCEPT ![s].status = "reconciled"] \in [Seqs -> Rows]
    BY <2>1, LedgerStays
  <2>. QED
    BY <2>2 DEF ReconcileCommand, motionVars, appVars, netVars, armVars,
       LedgerTyped, MotionTyped, AppTyped, RobotTyped, NetTyped, ArmTyped
<1>10. CASE ClearLatch
  BY <1>2, <1>10 DEF ClearLatch, Ops, dbVars, motionVars, appVars, netVars, armVars,
     LedgerTyped, MotionTyped, AppTyped, RobotTyped, NetTyped, ArmTyped
<1>11. CASE Bootstrap
  <2>1. [Idle EXCEPT !.pc = "seed", !.seq = lastSeq] \in Threads
    BY ThreadsStart DEF LedgerTyped
  <2>2. (caller \in [Callers -> Threads])'
    BY <1>1, <1>2, <1>11, <2>1 DEF Bootstrap, Ops
  <2>. QED
    BY <1>11, <2>2 DEF Bootstrap, dbVars, motionVars, appVars, netVars, armVars,
       LedgerTyped, MotionTyped, AppTyped, RobotTyped, NetTyped, ArmTyped
<1>12. CASE ApplyCompletion
  <2>1. [ledger EXCEPT ![lastSeq].status = "completed"] \in [Seqs -> Rows]
    BY LedgerStays DEF LedgerTyped
  <2>. QED
    BY <1>12, <2>1 DEF ApplyCompletion, appVars, netVars, armVars,
       LedgerTyped, MotionTyped, AppTyped, RobotTyped, NetTyped, ArmTyped
<1>. QED
  BY <1>3, <1>4, <1>5, <1>6, <1>7, <1>8, <1>9, <1>10, <1>11, <1>12 DEF Operator

\* So does what happens to the connection.
LEMMA ConnectionTypes ==
  ASSUME LinkTyped, Connection
  PROVE  LinkTyped'
<1>. USE DEF LinkTyped
<1>1. CASE AppHears
  <2>1. Head(toApp) \in Hellos \cup Reports /\ Tail(toApp) \in Seq(Hellos \cup Reports)
    BY <1>1 DEF AppHears, NetTyped
  <2>2. ASSUME Head(toApp).kind = "hello", HeardHello(Head(toApp))
        PROVE  AppTyped' /\ joined' \in BOOLEAN /\ wire' \in BOOLEAN
    <3>1. Head(toApp) \in Hellos
      BY <2>1, <2>2 DEF Hellos, Reports
    <3>2. manager' \in Managers
      BY <2>2, <3>1 DEF HeardHello, Hellos, Managers, AppTyped
    <3>3. NoReport \in [code : Codes, fault : Faults, session : Nat]
      BY DEF NoReport, Codes, Faults
    <3>. QED
      BY <2>2, <3>2, <3>3 DEF HeardHello, AppTyped, NetTyped
  <2>3. ASSUME Head(toApp).kind = "event", HeardEvent(Head(toApp))
        PROVE  AppTyped' /\ joined' \in BOOLEAN /\ wire' \in BOOLEAN
    <3>1. Head(toApp) \in Reports
      BY <2>1, <2>3 DEF Hellos, Reports
    <3>2. events' \in [Seqs -> [code : Codes, fault : Faults, session : Nat]]
      BY <2>3, <3>1 DEF HeardEvent, Reports, AppTyped
    <3>3. [manager EXCEPT !.up = FALSE] \in Managers
      BY Zenon DEF AppTyped, Managers
    <3>4. \A n \in 0..MaxSequence, code \in Codes, b \in BOOLEAN :
            [manager EXCEPT !.seq = n, !.event = code, !.latched = b] \in Managers
      BY Zenon DEF AppTyped, Managers
    <3>5. (IF Head(toApp).last > Head(toApp).seq THEN Head(toApp).last ELSE Head(toApp).seq) \in 0..MaxSequence
      BY <3>1, Numbers DEF Reports, Seqs
    <3>6. Head(toApp).code \in Codes /\ (Head(toApp).code = "latched") \in BOOLEAN
      BY <3>1 DEF Reports
    <3>7. manager' \in Managers
      <4>1. CASE Acceptable(Head(toApp))
        <5>1. [manager EXCEPT !.seq = IF Head(toApp).last > Head(toApp).seq THEN Head(toApp).last
                                      ELSE Head(toApp).seq,
                              !.event = Head(toApp).code,
                              !.latched = Head(toApp).code = "latched"] \in Managers
          BY <3>4, <3>5, <3>6, Zenon
        <5>. QED
          BY <2>3, <4>1, <5>1, Zenon DEF HeardEvent
      <4>2. CASE ~Acceptable(Head(toApp))
        BY <2>3, <3>3, <4>2, Zenon DEF HeardEvent
      <4>. QED
        BY <4>1, <4>2
    <3>. QED
      BY <2>3, <3>2, <3>7 DEF HeardEvent, AppTyped, NetTyped
  <2>4. AppTyped' /\ joined' \in BOOLEAN /\ wire' \in BOOLEAN
    BY <1>1, <2>2, <2>3 DEF AppHears, appVars, AppTyped, NetTyped
  <2>. QED
    BY <1>1, <2>1, <2>4 DEF AppHears, dbVars, motionVars, armVars,
       LedgerTyped, MotionTyped, RobotTyped, NetTyped, ArmTyped
<1>2. CASE AppDisconnects
  <2>1. [manager EXCEPT !.up = FALSE] \in Managers
    BY Zenon DEF AppTyped, Managers
  <2>. QED
    BY <1>2, <2>1 DEF AppDisconnects, dbVars, motionVars, netVars, armVars,
       LedgerTyped, MotionTyped, AppTyped, RobotTyped, NetTyped, ArmTyped
<1>3. CASE Break
  <2>1. toRobot' \in Seq(Commands) /\ toApp' \in Seq(Hellos \cup Reports)
    BY <1>3, NothingOnTheWay DEF Break, NetTyped
  <2>2. NetTyped'
    BY <1>3, <2>1 DEF Break, NetTyped
  <2>3. (faults \in Nat)'
    BY <1>3 DEF Break
  <2>. QED
    BY <1>3, <2>2, <2>3 DEF Break, dbVars, motionVars, appVars, armVars,
       LedgerTyped, MotionTyped, AppTyped, RobotTyped, ArmTyped
<1>4. CASE Restart
  <2>1. AppTyped'
    <3>1. NoReport \in [code : Codes, fault : Faults, session : Nat]
      BY DEF NoReport, Codes, Faults
    <3>2. NoManager \in Managers
      BY Numbers DEF NoManager, Managers, Codes
    <3>. QED
      BY <1>4, <3>1, <3>2 DEF Restart, AppTyped
  <2>2. (caller \in [Callers -> Threads])'
    BY <1>4, ThreadsStart DEF Restart
  <2>3. MotionTyped'
    BY <1>4 DEF Restart, MotionTyped
  <2>4. NetTyped'
    <3>1. toRobot' \in Seq(Commands)
      BY <1>4, NothingOnTheWay DEF Restart, NetTyped
    <3>. QED
      BY <1>4, <3>1, NothingOnTheWay DEF Restart, NetTyped
  <2>5. (faults \in Nat)'
    BY <1>4 DEF Restart
  <2>. QED
    BY <1>4, <2>1, <2>2, <2>3, <2>4, <2>5 DEF Restart, dbVars, armVars, LedgerTyped, RobotTyped, ArmTyped
<1>. QED
  BY <1>1, <1>2, <1>3, <1>4 DEF Connection

\* So does the robot's program.
LEMMA RobotTypes ==
  ASSUME LinkTyped, WireOK, CallersOK, FramesOK, Robot
  PROVE  LinkTyped'
<1>. USE DEF LinkTyped
<1>1. /\ robot \in Programs /\ robot.session \in Nat /\ robot.last \in 0..MaxSequence
      /\ robot.event \in Codes /\ robot.fault \in Faults /\ robot.cmd \in Commands \cup {NoCommand}
      /\ robot.pending \in [seq : 0..MaxSequence, code : Codes, fault : Faults]
      /\ robot.latched \in BOOLEAN
  BY DEF RobotTyped, Programs
<1>2. CASE RobotConnects
  <2>1. RobotTyped'
    <3>1. robot' \in Programs
      BY <1>1, <1>2, ProgramsMove DEF RobotConnects
    <3>2. robot'.unsent => robot.unsent /\ robot'.pending = robot.pending
      BY <1>1, <1>2 DEF RobotConnects, Programs
    <3>. QED
      BY <3>1, <3>2 DEF RobotTyped
  <2>2. [kind |-> "hello", session |-> robot.session, seq |-> robot.last, code |-> robot.event,
         latched |-> robot.latched] \in Hellos
    BY <1>1 DEF Hellos
  <2>3. Append(toApp, [kind |-> "hello", session |-> robot.session, seq |-> robot.last,
                       code |-> robot.event, latched |-> robot.latched]) \in Seq(Hellos \cup Reports)
    BY <2>2 DEF NetTyped
  <2>4. NetTyped'
    BY <1>2, <2>3, NothingOnTheWay DEF RobotConnects, NetTyped
  <2>. QED
    BY <1>2, <2>1, <2>4 DEF RobotConnects, dbVars, motionVars, appVars, armVars,
       LedgerTyped, MotionTyped, AppTyped, ArmTyped
<1>3. CASE RobotHears
  <2>1. Head(toRobot) \in Commands /\ Tail(toRobot) \in Seq(Commands)
    BY <1>3 DEF RobotHears, NetTyped
  <2>2. RobotTyped'
    <3>1. CASE Busy
      <4>1. CASE Head(toRobot).seq = robot.last
        <5>1. [seq |-> robot.last, code |-> robot.event, fault |-> robot.fault]
                \in [seq : 0..MaxSequence, code : Codes, fault : Faults]
          BY <1>1
        <5>2. robot' = [robot EXCEPT !.pending = [seq |-> robot.last, code |-> robot.event,
                                                  fault |-> robot.fault], !.unsent = TRUE]
          BY <1>3, <3>1, <4>1 DEF RobotHears, Conflicting
        <5>3. robot' \in Programs
          BY <1>1, <5>1, <5>2, ProgramsMove
        <5>4. robot'.pending.seq = robot.last /\ robot.last \in Seqs
          BY <1>1, <2>1, <4>1, <5>2 DEF Programs, Commands
        <5>. QED
          BY <5>3, <5>4 DEF RobotTyped
      <4>2. CASE Head(toRobot).seq # robot.last
        <5>1. robot' = [robot EXCEPT !.latched = TRUE, !.fault = "conflict"]
          BY <1>3, <3>1, <4>2 DEF RobotHears, Conflicting
        <5>2. robot' \in Programs
          BY <1>1, <5>1, ProgramsMove
        <5>. QED
          BY <5>1, <5>2 DEF RobotTyped, Programs
      <4>. QED
        BY <4>1, <4>2
    <3>2. CASE ~Busy
      <4>1. robot' = [robot EXCEPT !.cmd = Head(toRobot)]
        BY <1>3, <3>2 DEF RobotHears
      <4>2. robot' \in Programs
        BY <1>1, <2>1, <4>1, ProgramsMove
      <4>. QED
        BY <4>1, <4>2 DEF RobotTyped, Programs
    <3>. QED
      BY <3>1, <3>2
  <2>3. NetTyped'
    BY <1>3, <2>1 DEF RobotHears, NetTyped
  <2>. QED
    BY <1>3, <2>2, <2>3 DEF RobotHears, dbVars, motionVars, appVars, armVars,
       LedgerTyped, MotionTyped, AppTyped, ArmTyped
<1>4. CASE RobotSendsEvent
  <2>1. RobotTyped'
    <3>1. robot' \in Programs
      BY <1>1, <1>4, ProgramsMove DEF RobotSendsEvent
    <3>2. robot'.unsent => robot.unsent /\ robot'.pending = robot.pending
      BY <1>1, <1>4 DEF RobotSendsEvent, Programs
    <3>. QED
      BY <3>1, <3>2 DEF RobotTyped
  <2>2. [kind |-> "event", session |-> robot.session, seq |-> robot.pending.seq,
         code |-> robot.pending.code, fault |-> robot.pending.fault, last |-> robot.last] \in Reports
    BY <1>1, <1>4 DEF RobotSendsEvent, RobotTyped, Reports
  <2>3. Append(toApp, [kind |-> "event", session |-> robot.session, seq |-> robot.pending.seq,
                       code |-> robot.pending.code, fault |-> robot.pending.fault,
                       last |-> robot.last]) \in Seq(Hellos \cup Reports)
    BY <2>2 DEF NetTyped
  <2>4. NetTyped'
    BY <1>4, <2>3 DEF RobotSendsEvent, RobotSays, NetTyped
  <2>. QED
    BY <1>4, <2>1, <2>4 DEF RobotSendsEvent, dbVars, motionVars, appVars, armVars,
       LedgerTyped, MotionTyped, AppTyped, ArmTyped
<1>5. CASE Telemetry
  <2>1. PICK t \in Sampled : manager' = [manager EXCEPT !.seq = robot.last, !.telemetry = t]
    BY <1>5 DEF Telemetry
  <2>2. t \in {"none", "idle", "busy"}
    BY <2>1 DEF Sampled
  <2>3. \A n \in 0..MaxSequence, b \in {"none", "idle", "busy"} :
          [manager EXCEPT !.seq = n, !.telemetry = b] \in Managers
    BY Zenon DEF AppTyped, Managers
  <2>4. manager' \in Managers
    BY <1>1, <2>1, <2>2, <2>3
  <2>. QED
    BY <1>5, <2>4 DEF Telemetry, dbVars, motionVars, netVars, armVars,
       LedgerTyped, MotionTyped, AppTyped, RobotTyped, NetTyped, ArmTyped
<1>6. CASE RobotLosesLink
  <2>1. RobotTyped'
    <3>1. robot' \in Programs
      BY <1>1, <1>6, ProgramsMove DEF RobotLosesLink
    <3>2. robot'.unsent => robot.unsent /\ robot'.pending = robot.pending
      BY <1>1, <1>6 DEF RobotLosesLink, Programs
    <3>. QED
      BY <3>1, <3>2 DEF RobotTyped
  <2>2. NetTyped'
    BY <1>6, NothingOnTheWay DEF RobotLosesLink, NetTyped
  <2>. QED
    BY <1>6, <2>1, <2>2 DEF RobotLosesLink, dbVars, motionVars, appVars, armVars,
       LedgerTyped, MotionTyped, AppTyped, ArmTyped
<1>7. CASE RobotTakes
  <2>1. robot.cmd \in Commands /\ robot.cmd.seq \in Seqs /\ robot.cmd.seq \in 0..MaxSequence
    BY <1>1, <1>7, Numbers DEF RobotTakes, Busy, NoCommand, Commands, Seqs
  <2>2. PICK r \in Programs, pc \in {"starting", "reporting", "leaving"},
             code \in Codes, fault \in Faults, seq \in Seqs :
          robot' = Publish(r, pc, code, fault, seq)
    <3>. DEFINE k == robot.cmd
                next == [robot EXCEPT !.last = k.seq, !.event = "completed"]
    <3>1. CASE k.seq = robot.last
      BY <1>1, <1>7, <2>1, <3>1 DEF RobotTakes
    <3>2. CASE k.seq # robot.last /\ k.op = "clear" /\ InOrder
      <4>1. [next EXCEPT !.latched = FALSE, !.lost = FALSE, !.fault = "none"] \in Programs
        BY <1>1, <2>1, Zenon DEF Programs, Codes, Faults, Terminal
      <4>2. robot' = Publish([next EXCEPT !.latched = FALSE, !.lost = FALSE, !.fault = "none"],
                             "reporting", "completed", "none", k.seq)
        BY <1>7, <3>2, Zenon DEF RobotTakes
      <4>. QED
        BY <2>1, <4>1, <4>2 DEF Codes, Terminal, Faults
    <3>3. CASE k.seq # robot.last /\ k.op = "maintenance" /\ InOrder
      <4>1. next \in Programs
        BY <1>1, <2>1, Zenon DEF Programs, Codes, Terminal
      <4>2. robot' = Publish(next, "leaving", "completed", "none", k.seq)
        BY <1>7, <3>3 DEF RobotTakes
      <4>. QED
        BY <2>1, <4>1, <4>2 DEF Codes, Terminal, Faults
    <3>4. CASE /\ k.seq # robot.last
               /\ ~(k.op \in {"clear", "maintenance"} /\ InOrder)
               /\ robot.latched \/ ~InOrder
      <4>1. [robot EXCEPT !.latched = TRUE, !.fault = "sequence"] \in Programs
        BY <1>1, Zenon DEF Programs, Faults
      <4>2. robot' = Publish([robot EXCEPT !.latched = TRUE, !.fault = "sequence"],
                             "reporting", "latched", "sequence", k.seq)
        BY <1>7, <3>4 DEF RobotTakes
      <4>. QED
        BY <2>1, <4>1, <4>2 DEF Codes, Terminal, Faults
    <3>5. CASE /\ k.seq # robot.last
               /\ ~(k.op \in {"clear", "maintenance"} /\ InOrder)
               /\ ~(robot.latched \/ ~InOrder)
      <4>1. [next EXCEPT !.event = "running", !.fault = "none"] \in Programs
        BY <1>1, <2>1, Zenon DEF Programs, Codes, Faults, Terminal
      <4>2. robot' = Publish([next EXCEPT !.event = "running", !.fault = "none"],
                             "starting", "running", "none", k.seq)
        BY <1>7, <3>5 DEF RobotTakes
      <4>. QED
        BY <2>1, <4>1, <4>2 DEF Codes, Faults
    <3>. QED
      BY <3>1, <3>2, <3>3, <3>4, <3>5
  <2>3. RobotTyped'
    <3>1. seq \in 0..MaxSequence
      BY Numbers DEF Seqs
    <3>2. robot' \in Programs
      BY <2>2, <3>1, ProgramsMove
    <3>3. robot'.pending.seq = seq
      BY <2>2 DEF Publish, Programs
    <3>. QED
      BY <3>2, <3>3 DEF RobotTyped
  <2>. QED
    BY <1>7, <2>3 DEF RobotTakes, dbVars, motionVars, appVars, netVars, armVars,
       LedgerTyped, MotionTyped, AppTyped, NetTyped, ArmTyped
<1>8. CASE RobotProceeds
  <2>1. RobotTyped'
    <3>1. [robot EXCEPT !.pc = "moving", !.lost = FALSE] \in Programs
      BY <1>1, ProgramsMove
    <3>2. NoEvent \in [seq : 0..MaxSequence, code : Codes, fault : Faults]
      BY Numbers DEF NoEvent, Codes, Faults
    <3>3. [robot EXCEPT !.pc = "idle", !.cmd = NoCommand, !.pending = NoEvent] \in Programs
      BY <1>1, <3>2, ProgramsMove
    <3>4. [robot EXCEPT !.pc = "off", !.up = FALSE, !.cmd = NoCommand] \in Programs
      BY <1>1, ProgramsMove
    <3>5. robot' \in Programs
      BY <1>8, <3>1, <3>3, <3>4 DEF RobotProceeds
    <3>6. ~robot'.unsent
      <4>1. robot'.unsent = robot.unsent
        BY <1>1, <1>8 DEF RobotProceeds, Programs
      <4>. QED
        BY <1>8, <4>1 DEF RobotProceeds
    <3>. QED
      BY <3>5, <3>6 DEF RobotTyped
  <2>2. NetTyped'
    BY <1>8, NothingOnTheWay DEF RobotProceeds, netVars, NetTyped
  <2>3. ArmTyped'
    BY <1>8 DEF RobotProceeds, ArmTyped
  <2>. QED
    BY <1>8, <2>1, <2>2, <2>3 DEF RobotProceeds, dbVars, motionVars, appVars,
       LedgerTyped, MotionTyped, AppTyped
<1>9. CASE RobotFinishes
  <2>1. robot.last \in Seqs /\ robot.last = robot.cmd.seq /\ robot.cmd \in Commands
    <3>1. robot.last = robot.cmd.seq /\ robot.cmd.seq > 0
      BY <1>9 DEF RobotFinishes, WireOK, Busy
    <3>2. robot.cmd \in Commands
      BY <1>1, <3>1 DEF NoCommand
    <3>. QED
      BY <3>1, <3>2 DEF Commands
  <2>2. PICK r \in Programs, code \in Codes, fault \in Faults :
          robot' = Publish(r, "reporting", code, fault, robot.last)
    <3>1. CASE robot.lost
      <4>1. [robot EXCEPT !.event = "latched", !.latched = TRUE, !.fault = "link lost"] \in Programs
        BY <1>1, Zenon DEF Programs, Codes, Faults, Terminal
      <4>. QED
        BY <1>9, <3>1, <4>1 DEF RobotFinishes, Codes, Terminal, Faults
    <3>2. CASE ~robot.lost
      <4>1. \A code \in {"latched", "completed"} : [robot EXCEPT !.event = code] \in Programs
        BY <1>1, Zenon DEF Programs, Codes, Terminal
      <4>. QED
        BY <1>1, <1>9, <3>2, <4>1 DEF RobotFinishes, Codes, Terminal, Faults
    <3>. QED
      BY <3>1, <3>2
  <2>3. RobotTyped'
    <3>1. robot' \in Programs
      BY <1>1, <2>2, ProgramsMove
    <3>2. robot'.pending.seq = robot.last
      BY <2>2 DEF Publish, Programs
    <3>. QED
      BY <2>1, <3>1, <3>2 DEF RobotTyped
  <2>4. ArmTyped'
    <3>1. robot.cmd.op = "step" => robot.cmd.move \in Moves
      BY <2>1 DEF FramesOK, Recorded, Busy, CallersOK, Commands, Seqs
    <3>. QED
      BY <1>9, <3>1 DEF RobotFinishes, ArmTyped
  <2>. QED
    BY <1>9, <2>4, <2>3 DEF RobotFinishes, dbVars, motionVars, appVars, netVars,
       LedgerTyped, MotionTyped, AppTyped, NetTyped
<1>10. CASE RobotStops
  <2>1. RobotTyped'
    <3>1. robot' \in Programs
      BY <1>1, <1>10, ProgramsMove DEF RobotStops
    <3>2. robot'.unsent => robot.unsent /\ robot'.pending = robot.pending
      BY <1>1, <1>10 DEF RobotStops, Programs
    <3>. QED
      BY <3>1, <3>2 DEF RobotTyped
  <2>2. NetTyped'
    BY <1>10, NothingOnTheWay DEF RobotStops, NetTyped
  <2>3. (faults \in Nat)'
    BY <1>10 DEF RobotStops
  <2>. QED
    BY <1>10, <2>1, <2>2, <2>3 DEF RobotStops, dbVars, motionVars, appVars, armVars,
       LedgerTyped, MotionTyped, AppTyped, ArmTyped
<1>. QED
  BY <1>2, <1>3, <1>4, <1>5, <1>6, <1>7, <1>8, <1>9, <1>10 DEF Robot

-----------------------------------------------------------------------------
(* What the program's record says after each of its steps.                 *)

\* What the program's record says after it heard a command.
LEMMA HeardFields ==
  ASSUME LinkTyped, RobotHears
  PROVE  /\ toRobot # <<>> /\ Head(toRobot) \in Commands
         /\ robot'.pc = robot.pc /\ robot'.up = robot.up /\ robot'.session = robot.session
         /\ robot'.last = robot.last /\ robot'.event = robot.event /\ robot'.lost = robot.lost
         /\ ~Busy => /\ robot'.cmd = Head(toRobot) /\ robot'.pending = robot.pending
                     /\ robot'.unsent = robot.unsent
         /\ Busy => robot'.cmd = robot.cmd
         /\ Busy /\ Head(toRobot).seq = robot.last =>
              /\ robot'.pending = [seq |-> robot.last, code |-> robot.event, fault |-> robot.fault]
              /\ robot'.fault = robot.fault
         /\ Busy /\ Head(toRobot).seq # robot.last =>
              robot'.pending = robot.pending /\ robot'.unsent = robot.unsent
<1>1. robot \in Programs /\ toRobot \in Seq(Commands)
  BY DEF LinkTyped, RobotTyped, NetTyped
<1>2. toRobot # <<>> /\ Head(toRobot) \in Commands
  BY <1>1 DEF RobotHears
<1>3. CASE ~Busy
  <2>1. robot' = [robot EXCEPT !.cmd = Head(toRobot)]
    BY <1>3 DEF RobotHears
  <2>. QED
    BY <1>1, <1>2, <1>3, <2>1 DEF Programs
<1>4. CASE Busy /\ Head(toRobot).seq = robot.last
  <2>1. robot' = [robot EXCEPT !.pending = [seq |-> robot.last, code |-> robot.event,
                                            fault |-> robot.fault], !.unsent = TRUE]
    BY <1>4 DEF RobotHears, Conflicting
  <2>. QED
    BY <1>1, <1>2, <1>4, <2>1 DEF Programs
<1>5. CASE Busy /\ Head(toRobot).seq # robot.last
  <2>1. robot' = [robot EXCEPT !.latched = TRUE, !.fault = "conflict"]
    BY <1>5 DEF RobotHears, Conflicting
  <2>. QED
    BY <1>1, <1>2, <1>5, <2>1 DEF Programs
<1>. QED
  BY <1>3, <1>4, <1>5

\* The ways in which the main thread takes up a command.
Repeats  == /\ robot.cmd.seq = robot.last
            /\ robot'.pc = "reporting" /\ robot'.last = robot.last /\ robot'.event = robot.event
            /\ robot'.pending = [seq |-> robot.last, code |-> robot.event, fault |-> robot.fault]
Clears   == /\ robot.cmd.op = "clear" /\ robot.cmd.seq = robot.last + 1
            /\ robot'.pc = "reporting" /\ robot'.last = robot.cmd.seq /\ robot'.event = "completed"
            /\ robot'.pending = [seq |-> robot.cmd.seq, code |-> "completed", fault |-> "none"]
Leaves   == /\ robot.cmd.op = "maintenance" /\ robot.cmd.seq = robot.last + 1
            /\ robot'.pc = "leaving" /\ robot'.last = robot.cmd.seq /\ robot'.event = "completed"
            /\ robot'.pending = [seq |-> robot.cmd.seq, code |-> "completed", fault |-> "none"]
Refuses  == /\ robot.cmd.seq # robot.last
            /\ robot'.pc = "reporting" /\ robot'.last = robot.last /\ robot'.event = robot.event
            /\ robot'.pending = [seq |-> robot.cmd.seq, code |-> "latched", fault |-> "sequence"]
Accepts  == /\ robot.cmd.op \notin {"clear", "maintenance"} /\ robot.cmd.seq = robot.last + 1
            /\ robot'.pc = "starting" /\ robot'.last = robot.cmd.seq /\ robot'.event = "running"
            /\ robot'.pending = [seq |-> robot.cmd.seq, code |-> "running", fault |-> "none"]

\* Taking up a command is one of them.
LEMMA TakenFields ==
  ASSUME LinkTyped, RobotTakes
  PROVE  /\ robot.pc = "idle" /\ Busy /\ robot.cmd \in Commands
         /\ robot'.cmd = robot.cmd /\ robot'.up = robot.up /\ robot'.unsent
         /\ Repeats \/ Clears \/ Leaves \/ Refuses \/ Accepts
<1>. DEFINE k == robot.cmd
            next == [robot EXCEPT !.last = k.seq, !.event = "completed"]
<1>1. robot \in Programs
  BY DEF LinkTyped, RobotTyped
<1>2. robot.pc = "idle" /\ Busy
  BY DEF RobotTakes
<1>3. robot.cmd \in Commands
  BY <1>1, <1>2 DEF Programs, Busy, NoCommand
<1>4. CASE k.seq = robot.last
  <2>1. robot' = Publish(robot, "reporting", robot.event, robot.fault, robot.last)
    BY <1>4 DEF RobotTakes
  <2>. QED
    BY <1>1, <1>2, <1>3, <1>4, <2>1 DEF Publish, Programs, Repeats
<1>5. CASE k.seq # robot.last /\ k.op = "clear" /\ InOrder
  <2>1. robot' = Publish([next EXCEPT !.latched = FALSE, !.lost = FALSE, !.fault = "none"],
                         "reporting", "completed", "none", k.seq)
    BY <1>5, Zenon DEF RobotTakes
  <2>. QED
    BY <1>1, <1>2, <1>3, <1>5, <2>1 DEF Publish, Programs, Clears, InOrder
<1>6. CASE k.seq # robot.last /\ k.op = "maintenance" /\ InOrder
  <2>1. robot' = Publish(next, "leaving", "completed", "none", k.seq)
    BY <1>6 DEF RobotTakes
  <2>. QED
    BY <1>1, <1>2, <1>3, <1>6, <2>1 DEF Publish, Programs, Leaves, InOrder
<1>7. CASE /\ k.seq # robot.last
           /\ ~(k.op \in {"clear", "maintenance"} /\ InOrder)
           /\ robot.latched \/ ~InOrder
  <2>1. robot' = Publish([robot EXCEPT !.latched = TRUE, !.fault = "sequence"],
                         "reporting", "latched", "sequence", k.seq)
    BY <1>7 DEF RobotTakes
  <2>. QED
    BY <1>1, <1>2, <1>3, <1>7, <2>1 DEF Publish, Programs, Refuses
<1>8. CASE /\ k.seq # robot.last
           /\ ~(k.op \in {"clear", "maintenance"} /\ InOrder)
           /\ ~(robot.latched \/ ~InOrder)
  <2>1. robot' = Publish([next EXCEPT !.event = "running", !.fault = "none"],
                         "starting", "running", "none", k.seq)
    BY <1>8 DEF RobotTakes
  <2>. QED
    BY <1>1, <1>2, <1>3, <1>8, <2>1 DEF Publish, Programs, Accepts, InOrder
<1>. QED
  BY <1>4, <1>5, <1>6, <1>7, <1>8

\* The ways in which the main thread goes on once its event was sent.
Begins  == robot.pc = "starting" /\ robot'.pc = "moving" /\ robot'.cmd = robot.cmd /\ robot'.up = robot.up
Settles == robot.pc = "reporting" /\ robot'.pc = "idle" /\ robot'.cmd = NoCommand /\ robot'.up = robot.up
Ends    == robot.pc = "leaving" /\ robot'.pc = "off" /\ robot'.cmd = NoCommand /\ ~robot'.up

\* Going on is one of them.
LEMMA ProceedsFields ==
  ASSUME LinkTyped, RobotProceeds
  PROVE  /\ robot'.last = robot.last /\ robot'.event = robot.event
         /\ ~robot.unsent /\ ~robot'.unsent
         /\ \/ Begins /\ UNCHANGED netVars
            \/ Settles /\ UNCHANGED <<ran, netVars>>
            \/ Ends /\ wire' = FALSE /\ joined' = FALSE /\ toRobot' = <<>> /\ UNCHANGED <<ran, toApp>>
<1>1. robot \in Programs
  BY DEF LinkTyped, RobotTyped
<1>2. CASE robot.pc = "starting"
  <2>1. robot' = [robot EXCEPT !.pc = "moving", !.lost = FALSE] /\ UNCHANGED netVars /\ ~robot.unsent
    BY <1>2 DEF RobotProceeds
  <2>. QED
    BY <1>1, <1>2, <2>1 DEF Programs, Begins
<1>3. CASE robot.pc = "reporting"
  <2>1. /\ robot' = [robot EXCEPT !.pc = "idle", !.cmd = NoCommand, !.pending = NoEvent]
        /\ UNCHANGED <<ran, netVars>> /\ ~robot.unsent
    BY <1>3 DEF RobotProceeds
  <2>. QED
    BY <1>1, <1>3, <2>1 DEF Programs, Settles
<1>4. CASE robot.pc = "leaving"
  <2>1. /\ robot' = [robot EXCEPT !.pc = "off", !.up = FALSE, !.cmd = NoCommand]
        /\ wire' = FALSE /\ joined' = FALSE /\ toRobot' = <<>>
        /\ UNCHANGED <<ran, toApp>> /\ ~robot.unsent
    BY <1>4 DEF RobotProceeds
  <2>. QED
    BY <1>1, <1>4, <2>1 DEF Programs, Ends
<1>. QED
  BY <1>2, <1>3, <1>4 DEF RobotProceeds

\* What the program says when the dispatched function returned.
LEMMA FinishesFields ==
  ASSUME LinkTyped, RobotFinishes
  PROVE  /\ robot.pc = "moving" /\ robot'.pc = "reporting" /\ robot'.cmd = robot.cmd
         /\ robot'.up = robot.up /\ robot'.last = robot.last /\ robot'.unsent
         /\ robot'.event \in Terminal
         /\ robot'.pending.seq = robot.last /\ robot'.pending.code = robot'.event
<1>1. robot \in Programs
  BY DEF LinkTyped, RobotTyped
<1>2. CASE robot.lost
  <2>1. robot' = Publish([robot EXCEPT !.event = "latched", !.latched = TRUE, !.fault = "link lost"],
                         "reporting", "latched", "link lost", robot.last)
    BY <1>2 DEF RobotFinishes
  <2>. QED
    BY <1>1, <2>1 DEF RobotFinishes, Publish, Programs, Terminal
<1>3. CASE ~robot.lost /\ robot.latched
  <2>1. robot' = Publish([robot EXCEPT !.event = "latched"], "reporting", "latched", robot.fault, robot.last)
    BY <1>3 DEF RobotFinishes
  <2>. QED
    BY <1>1, <2>1 DEF RobotFinishes, Publish, Programs, Terminal
<1>4. CASE ~robot.lost /\ ~robot.latched
  <2>1. robot' = Publish([robot EXCEPT !.event = "completed"], "reporting", "completed", "none", robot.last)
    BY <1>4 DEF RobotFinishes
  <2>. QED
    BY <1>1, <2>1 DEF RobotFinishes, Publish, Programs, Terminal
<1>. QED
  BY <1>2, <1>3, <1>4

-----------------------------------------------------------------------------
(* The connection.                                                         *)

\* Steps that leave the connection and the program alone.
LEMMA WireStays ==
  ASSUME WireOK, UNCHANGED <<robot, wire, joined, toRobot, toApp>>
  PROVE  WireOK'
BY DEF WireOK, Running, Busy

\* What a dispatch may do to the connection: its frame leaves or not, and a
\* send that fails ends the connection.
Frame(c) == [seq |-> caller[c].seq, op |-> caller[c].op, move |-> ledger[caller[c].seq].move]

\* A dispatch that reaches the socket does one of the two.
LEMMA SendsFrame ==
  ASSUME NEW c \in Callers, Transmit(c)
  PROVE  /\ robot' = robot /\ toApp' = toApp
         /\ \/ wire' = wire /\ joined' = joined
            \/ joined' = FALSE /\ wire' = (wire /\ ~joined)
         /\ \/ toRobot' = toRobot
            \/ joined /\ caller[c].pc = "picked" /\ toRobot' = Append(toRobot, Frame(c))
<1>1. robot' = robot /\ caller[c].pc = "picked"
  BY DEF Transmit
<1>2. CASE ~(manager.up /\ manager.conn = caller[c].conn)
  BY <1>1, <1>2 DEF Transmit, netVars
<1>3. CASE /\ toRobot' = (IF joined THEN Append(toRobot, Frame(c)) ELSE toRobot)
           /\ UNCHANGED <<wire, joined, toApp>>
  BY <1>1, <1>3
<1>4. CASE /\ toRobot' \in {toRobot, IF joined THEN Append(toRobot, Frame(c)) ELSE toRobot}
           /\ joined' = FALSE /\ wire' = (wire /\ ~joined) /\ UNCHANGED toApp
  BY <1>1, <1>4
<1>. QED
  BY <1>2, <1>3, <1>4, Zenon DEF Transmit, Frame

\* The connection's invariant is kept.
LEMMA WireStep ==
  ASSUME LinkTyped, WireOK, Next
  PROVE  WireOK'
<1>1. /\ robot \in Programs
      /\ toRobot \in Seq(Commands) /\ toApp \in Seq(Hellos \cup Reports)
      /\ wire \in BOOLEAN /\ joined \in BOOLEAN
      /\ robot.pc \in {"idle", "starting", "moving", "reporting", "leaving", "off"}
      /\ robot.cmd \in Commands \cup {NoCommand} /\ robot.up \in BOOLEAN
  BY DEF LinkTyped, RobotTyped, NetTyped, Programs
<1>2. NoCommand.seq = 0 /\ \A f \in Commands : f.seq > 0
  BY DEF NoCommand, Commands, Seqs
<1>3. CASE CheckLink \/ Operator \/ AppDisconnects \/ Telemetry
  <2>1. UNCHANGED <<robot, wire, joined, toRobot, toApp>>
    BY <1>3 DEF CheckLink, Operator, StartMotion, ToggleOutput, RecoverMotion, ReconcileCommand,
       ClearLatch, Bootstrap, ApplyCompletion, AppDisconnects, Telemetry, netVars
  <2>. QED
    BY <2>1, WireStays
<1>4. ASSUME NEW c \in Callers, Thread(c), ~Transmit(c)
      PROVE  WireOK'
  <2>1. UNCHANGED <<robot, wire, joined, toRobot, toApp>>
    BY <1>4 DEF Thread, Reserve, ReserveFails, Dispatch, Release, ReleaseLost, Record, Verdict,
       WaitExpires, netVars
  <2>. QED
    BY <2>1, WireStays
<1>5. ASSUME NEW c \in Callers, Transmit(c)
      PROVE  WireOK'
  <2>1. joined => wire /\ robot.up
    BY DEF WireOK
  <2>2. Len(toRobot') > 0 => robot.up
    BY <1>5, <2>1, SendsFrame DEF WireOK
  <2>. QED
    BY <1>1, <1>5, <2>1, <2>2, SendsFrame DEF WireOK, Running, Busy
<1>6. ASSUME robot' = [robot EXCEPT !.pc = "off", !.up = FALSE, !.cmd = NoCommand],
             wire' = FALSE, joined' = FALSE, toRobot' = <<>>
      PROVE  WireOK'
  <2>1. robot'.pc = "off" /\ ~robot'.up /\ robot'.cmd = NoCommand
    BY <1>1, <1>6 DEF Programs
  <2>. QED
    BY <1>2, <1>6, <2>1 DEF WireOK, Running, Busy
<1>7. CASE LegacyStep
  BY <1>6, <1>7 DEF LegacyStep
<1>8. CASE SeedProgram
  <2>1. robot'.pc = "idle" /\ ~robot'.up /\ robot'.cmd = NoCommand
    BY <1>8 DEF SeedProgram, Program
  <2>2. wire' = FALSE /\ joined' = FALSE /\ toRobot' = <<>>
    BY <1>8 DEF SeedProgram
  <2>. QED
    BY <1>2, <2>1, <2>2 DEF WireOK, Running, Busy
<1>9. CASE AppHears
  <2>1. robot' = robot /\ toRobot' = toRobot /\ toApp # <<>> /\ toApp' = Tail(toApp)
    BY <1>9 DEF AppHears
  <2>2. Len(toApp') = Len(toApp) - 1 /\ \A i \in 1..Len(toApp') : toApp'[i] = toApp[i + 1]
    BY <1>1, <2>1
  <2>3. (wire' => wire) /\ (joined' => wire')
    BY <1>1, <1>9 DEF AppHears, HeardHello, HeardEvent, WireOK
  <2>4. joined' => \A i \in 1..Len(toApp') : toApp'[i].kind # "hello"
    <3>1. CASE joined' /\ joined
      <4>1. \A i \in 1..Len(toApp) : toApp[i].kind # "hello"
        BY <3>1 DEF WireOK
      <4>. QED
        BY <1>1, <2>1, <2>2, <4>1
    <3>2. CASE joined' /\ ~joined
      <4>1. \A i \in 2..Len(toApp) : toApp[i].kind # "hello"
        BY <1>1, <1>9, <3>2 DEF AppHears, HeardHello, HeardEvent
      <4>. QED
        BY <1>1, <2>1, <2>2, <4>1
    <3>. QED
      BY <3>1, <3>2
  <2>. QED
    BY <2>1, <2>3, <2>4 DEF WireOK, Running, Busy
<1>10. CASE Break \/ Restart
  <2>1. robot' = robot /\ wire' = FALSE /\ joined' = FALSE /\ toRobot' \in {toRobot, <<>>}
    BY <1>10 DEF Break, Restart
  <2>. QED
    BY <2>1 DEF WireOK, Running, Busy
<1>11. CASE RobotConnects
  <2>1. robot'.up /\ robot'.pc = robot.pc /\ robot'.cmd = robot.cmd /\ robot'.last = robot.last
        /\ robot'.event = robot.event /\ robot.pc # "off"
    BY <1>1, <1>11 DEF RobotConnects, Programs, Running
  <2>2. joined' = FALSE
    BY <1>11 DEF RobotConnects
  <2>. QED
    BY <2>1, <2>2 DEF WireOK, Running, Busy
<1>12. CASE RobotHears
  <2>1. UNCHANGED <<wire, joined, toApp>> /\ robot.up /\ robot.pc # "off" /\ toRobot' = Tail(toRobot)
    BY <1>12 DEF RobotHears, Running
  <2>2. robot.pc \in {"starting", "moving"} => Busy
    BY DEF WireOK
  <2>. QED
    BY <1>12, <2>1, <2>2, HeardFields DEF WireOK, Running, Busy
<1>13. CASE RobotSendsEvent
  <2>1. robot'.up = robot.up /\ robot'.pc = robot.pc /\ robot'.cmd = robot.cmd /\ robot'.last = robot.last
        /\ robot'.event = robot.event
    BY <1>1, <1>13 DEF RobotSendsEvent, Programs
  <2>2. UNCHANGED <<wire, joined, toRobot>>
    BY <1>13 DEF RobotSendsEvent
  <2>3. joined => \A i \in 1..Len(toApp') : toApp'[i].kind # "hello"
    BY <1>1, <1>13 DEF RobotSendsEvent, RobotSays, WireOK
  <2>. QED
    BY <2>1, <2>2, <2>3 DEF WireOK, Running, Busy
<1>14. CASE RobotLosesLink
  <2>1. ~robot'.up /\ robot'.pc = robot.pc /\ robot'.cmd = robot.cmd /\ robot'.last = robot.last
        /\ robot'.event = robot.event
    BY <1>1, <1>14 DEF RobotLosesLink, Programs
  <2>2. toRobot' = <<>> /\ wire' = wire /\ ~wire /\ joined' = joined
        /\ (robot.pc = "idle" => ~Busy)
    BY <1>14 DEF RobotLosesLink
  <2>. QED
    BY <2>1, <2>2 DEF WireOK, Running, Busy
<1>15. CASE RobotTakes
  <2>1. UNCHANGED <<wire, joined, toRobot, toApp>>
    BY <1>15 DEF RobotTakes, netVars
  <2>. QED
    BY <1>15, <2>1, TakenFields
       DEF WireOK, Running, Busy, Repeats, Clears, Leaves, Refuses, Accepts
<1>16. CASE RobotProceeds
  <2>1. CASE Begins /\ UNCHANGED netVars
    BY <1>16, <2>1, ProceedsFields DEF WireOK, Running, Busy, Begins, netVars
  <2>2. CASE Settles /\ UNCHANGED <<ran, netVars>>
    BY <1>2, <1>16, <2>2, ProceedsFields DEF WireOK, Running, Busy, Settles, netVars
  <2>3. CASE Ends /\ wire' = FALSE /\ joined' = FALSE /\ toRobot' = <<>>
    BY <1>2, <2>3 DEF WireOK, Running, Busy, Ends
  <2>. QED
    BY <1>16, <2>1, <2>2, <2>3, ProceedsFields
<1>17. CASE RobotFinishes
  <2>1. UNCHANGED <<wire, joined, toRobot, toApp>>
    BY <1>17 DEF RobotFinishes, netVars
  <2>. QED
    BY <1>17, <2>1, FinishesFields DEF WireOK, Running, Busy
<1>18. CASE RobotStops
  BY <1>6, <1>18 DEF RobotStops
<1>. QED
  BY <1>3, <1>4, <1>5, <1>7, <1>8, <1>9, <1>10, <1>11, <1>12, <1>13, <1>14, <1>15, <1>16, <1>17, <1>18
     DEF Next, Worker, Connection, Robot, Callers

-----------------------------------------------------------------------------
(* What the threads' records say after each of their steps.                *)

\* A thread that only goes on to another point of its dispatch.
Goes(c, pc) ==
  /\ caller'[c].pc = pc
  /\ caller'[c].op = caller[c].op /\ caller'[c].seq = caller[c].seq
  /\ caller'[c].step = caller[c].step /\ caller'[c].tried = caller[c].tried
OthersStay(c) == \A d \in Callers \ {c} : caller'[d] = caller[d]

\* One row is edited in its status only.
Marks(s, statuses) ==
  /\ lastSeq' = lastSeq
  /\ \A n \in Seqs : ledger'[n].op = ledger[n].op /\ ledger'[n].move = ledger[n].move
  /\ \A n \in Seqs \ {s} : ledger'[n] = ledger[n]
  /\ s \in Seqs => ledger'[s].status \in statuses

\* A row whose status is edited describes the same command.
LEMMA MarksRow ==
  ASSUME LedgerTyped, NEW s, NEW status, lastSeq' = lastSeq,
         ledger' = [ledger EXCEPT ![s].status = status]
  PROVE  Marks(s, {status})
BY DEF LedgerTyped, Rows, Marks

\* What is left of a movement at the end of its thread: the verdict, a failure, or nothing new.
LeftWith(verdict) ==
  {[outcome EXCEPT ![motion] = verdict], [outcome EXCEPT ![motion] = "faulted"], outcome}

\* How a dispatch ends.
GivesUp(c) ==
  /\ caller'[c] = Idle
  /\ c = "worker" => outcome' \in LeftWith("faulted")
  /\ c # "worker" => outcome' = outcome

\* A dispatch that fails ends without a sequence, or moves on to the next channel.
LEMMA FailsFields ==
  ASSUME LinkTyped, NEW c \in Callers, Fails(c)
  PROVE  GivesUp(c) /\ OthersStay(c) /\ motion' = motion
<1>1. caller \in [Callers -> Threads]
  BY DEF LinkTyped
<1>2. CASE c = "worker"
  BY <1>1, <1>2 DEF Fails, EndMotion, OthersStay, GivesUp, LeftWith
<1>3. CASE c # "worker"
  BY <1>1, <1>3 DEF Fails, motionVars, OthersStay, GivesUp
<1>. QED
  BY <1>2, <1>3

\* How a dispatch that succeeds goes on.
Advances(c) ==
  /\ c = "worker" /\ caller[c].step # Steps /\ outcome' = outcome
  /\ caller'[c].pc = "check" /\ caller'[c].step = caller[c].step + 1
  /\ caller'[c].op = caller[c].op /\ caller'[c].tried = caller[c].tried
GetsThere(c) ==
  \/ /\ c = "worker" /\ caller[c].step = Steps /\ caller'[c] = Idle
     /\ outcome' \in LeftWith("succeeded")
  \/ Advances(c)
  \/ c # "worker" /\ caller'[c] = Idle /\ outcome' = outcome
  \/ c # "worker" /\ Goes(c, "seed") /\ caller[c].op = "maintenance" /\ outcome' = outcome

\* A dispatch that succeeds either advances its movement or is over.
LEMMA SucceedsFields ==
  ASSUME LinkTyped, NEW c \in Callers, Succeeds(c)
  PROVE  GetsThere(c) /\ OthersStay(c) /\ motion' = motion
<1>1. caller \in [Callers -> Threads]
  BY DEF LinkTyped
<1>2. CASE c = "worker" /\ caller[c].step = Steps
  BY <1>1, <1>2 DEF Succeeds, LastStep, GetsThere, Advances, EndMotion, OthersStay, LeftWith
<1>3. CASE c = "worker" /\ caller[c].step # Steps
  BY <1>1, <1>3 DEF Succeeds, LastStep, GetsThere, Advances, motionVars, OthersStay, Threads
<1>4. CASE c # "worker" /\ caller[c].op = "maintenance"
  BY <1>1, <1>4 DEF Succeeds, GetsThere, motionVars, OthersStay, Threads, Goes
<1>5. CASE c # "worker" /\ caller[c].op # "maintenance"
  BY <1>1, <1>5 DEF Succeeds, GetsThere, motionVars, OthersStay
<1>. QED
  BY <1>2, <1>3, <1>4, <1>5

\* A reservation takes the next sequence.
LEMMA ReserveFields ==
  ASSUME LinkTyped, NEW c \in Callers, Reserve(c)
  PROVE  /\ caller[c].pc = "reserve" /\ OthersStay(c)
         /\ caller'[c].pc = "dispatch" /\ caller'[c].seq = lastSeq + 1
         /\ caller'[c].op = caller[c].op /\ caller'[c].step = caller[c].step
         /\ caller'[c].tried = caller[c].tried
         /\ lastSeq' = lastSeq + 1 /\ lastSeq' \in Seqs
         /\ ledger'[lastSeq'].status = "created" /\ ledger'[lastSeq'].op = caller[c].op
         /\ ledger'[lastSeq'].move = (IF caller[c].op = "step" THEN <<motion, caller[c].step>> ELSE <<0, 0>>)
         /\ \A s \in Seqs \ {lastSeq'} : ledger'[s] = ledger[s]
         /\ UNCHANGED <<motionVars, appVars, robot, netVars, armVars, faults>>
<1>1. caller \in [Callers -> Threads] /\ LedgerTyped
  BY DEF LinkTyped
<1>2. lastSeq' = lastSeq + 1 /\ lastSeq + 1 \in Seqs /\ caller[c].pc = "reserve"
      /\ UNCHANGED <<motionVars, appVars, robot, netVars, armVars, faults>>
  BY <1>1, Numbers DEF Reserve, SequenceLeft, LedgerTyped, Seqs
<1>3. ledger' = [ledger EXCEPT ![lastSeq + 1] =
                   [status |-> "created", op |-> caller[c].op,
                    move |-> IF caller[c].op = "step" THEN <<motion, caller[c].step>> ELSE <<0, 0>>,
                    session |-> manager.session]]
  BY DEF Reserve
<1>4. caller' = [caller EXCEPT ![c].pc = "dispatch", ![c].seq = lastSeq + 1]
  BY DEF Reserve
<1>5. /\ caller'[c].pc = "dispatch" /\ caller'[c].seq = lastSeq + 1
      /\ caller'[c].op = caller[c].op /\ caller'[c].step = caller[c].step
      /\ caller'[c].tried = caller[c].tried /\ OthersStay(c)
  BY <1>1, <1>4 DEF Threads, OthersStay
<1>. QED
  BY <1>1, <1>2, <1>3, <1>5 DEF LedgerTyped

\* The dispatch checks the link and prepares its frame, or gives up.
LEMMA DispatchFields ==
  ASSUME LinkTyped, NEW c \in Callers, Dispatch(c)
  PROVE  /\ caller[c].pc = "dispatch" /\ OthersStay(c)
         /\ Goes(c, "picked") \/ Goes(c, "release")
         /\ UNCHANGED <<dbVars, motionVars, appVars, robot, netVars, armVars, faults>>
<1>1. caller \in [Callers -> Threads]
  BY DEF LinkTyped
<1>2. CASE caller' = [caller EXCEPT ![c].pc = "picked", ![c].conn = manager.conn]
  BY <1>1, <1>2 DEF Dispatch, Threads, Goes, OthersStay
<1>3. CASE caller' = [caller EXCEPT ![c].pc = "release"]
  BY <1>1, <1>3 DEF Dispatch, Threads, Goes, OthersStay
<1>. QED
  BY <1>2, <1>3 DEF Dispatch, Set

\* The frame leaves or not; a sequence that cannot have left is released.
LEMMA TransmitFields ==
  ASSUME LinkTyped, NEW c \in Callers, Transmit(c)
  PROVE  /\ caller[c].pc = "picked" /\ OthersStay(c)
         /\ \/ Goes(c, "release") /\ toRobot' = toRobot
            \/ /\ caller'[c].pc = "record" /\ caller'[c].tried
               /\ caller'[c].op = caller[c].op /\ caller'[c].seq = caller[c].seq
               /\ caller'[c].step = caller[c].step
         /\ UNCHANGED <<dbVars, motionVars, appVars, robot, toApp, armVars>>
<1>1. caller \in [Callers -> Threads]
  BY DEF LinkTyped
<1>2. caller[c].pc = "picked" /\ UNCHANGED <<dbVars, motionVars, appVars, robot, armVars>>
  BY DEF Transmit
<1>3. CASE caller' = [caller EXCEPT ![c].pc = "release"] /\ UNCHANGED netVars
  BY <1>1, <1>2, <1>3 DEF Threads, Goes, OthersStay, netVars
<1>4. ASSUME NEW ok \in BOOLEAN, toApp' = toApp,
             caller' = [caller EXCEPT ![c].pc = "record", ![c].sent = ok, ![c].tried = TRUE]
      PROVE  /\ OthersStay(c) /\ toApp' = toApp
             /\ caller'[c].pc = "record" /\ caller'[c].tried
             /\ caller'[c].op = caller[c].op /\ caller'[c].seq = caller[c].seq
             /\ caller'[c].step = caller[c].step
  BY <1>1, <1>4 DEF Threads, OthersStay
<1>5. \/ caller' = [caller EXCEPT ![c].pc = "release"] /\ UNCHANGED netVars
      \/ \E ok \in BOOLEAN :
           caller' = [caller EXCEPT ![c].pc = "record", ![c].sent = ok, ![c].tried = TRUE]
           /\ toApp' = toApp
  BY Zenon DEF Transmit, Set, AfterSend
<1>. QED
  BY <1>2, <1>3, <1>4, <1>5

\* The worker's legacy script takes over.
TurnsToLegacy(c) ==
  /\ c = "worker" /\ caller[c].op = "step" /\ ~caller[c].tried
  /\ caller'[c].pc = "legacy" /\ caller'[c].step = 1
  /\ caller'[c].op = caller[c].op /\ caller'[c].tried = caller[c].tried
  /\ outcome' = outcome

\* The release takes the last sequence back, or marks it as failed.
LEMMA ReleaseFields ==
  ASSUME LinkTyped, CallersOK, NEW c \in Callers, Release(c)
  PROVE  /\ caller[c].pc = "release" /\ OthersStay(c) /\ motion' = motion
         /\ caller[c].seq \in Seqs /\ lastSeq = caller[c].seq /\ lastSeq' = lastSeq - 1
         /\ ledger' = [ledger EXCEPT ![lastSeq] = NoRow]
         /\ ledger'[lastSeq] = NoRow /\ \A s \in Seqs \ {lastSeq} : ledger'[s] = ledger[s]
         /\ GivesUp(c) \/ TurnsToLegacy(c)
         /\ UNCHANGED <<appVars, robot, netVars, armVars, faults>>
<1>1. caller \in [Callers -> Threads] /\ ledger \in [Seqs -> Rows] /\ lastSeq \in 0..MaxSequence
  BY DEF LinkTyped, LedgerTyped
<1>2. /\ caller[c].pc = "release" /\ lastSeq = caller[c].seq /\ lastSeq' = lastSeq - 1
      /\ ledger' = [ledger EXCEPT ![lastSeq] = NoRow]
      /\ UNCHANGED <<appVars, robot, netVars, armVars, faults>>
  BY DEF Release, MayRelease
<1>3. caller[c].seq > 0
  BY <1>2, Zenon DEF CallersOK, Holds
<1>4. caller[c].seq \in Seqs
  BY <1>1, <1>2, <1>3, Numbers DEF Seqs
<1>5. GivesUp(c) \/ TurnsToLegacy(c)
  <2>1. CASE Fails(c)
    BY <2>1, FailsFields
  <2>2. CASE caller[c].op = "step" /\ MayFallBack(caller[c]) /\ RunsLegacy /\ UNCHANGED motionVars
    <3>1. c = "worker"
      BY <2>2 DEF CallersOK, Callers
    <3>. QED
      BY <1>1, <2>2, <3>1 DEF RunsLegacy, MayFallBack, TurnsToLegacy, Threads, motionVars
  <2>. QED
    BY <2>1, <2>2 DEF Release
<1>6. OthersStay(c) /\ motion' = motion
  <2>1. CASE Fails(c)
    BY <2>1, FailsFields
  <2>2. CASE caller[c].op = "step" /\ RunsLegacy /\ UNCHANGED motionVars
    <3>1. c = "worker"
      BY <2>2 DEF CallersOK, Callers
    <3>. QED
      BY <1>1, <2>2, <3>1 DEF RunsLegacy, OthersStay, motionVars
  <2>. QED
    BY <2>1, <2>2 DEF Release
<1>. QED
  BY <1>1, <1>2, <1>4, <1>5, <1>6

\* Recording the dispatch edits the row's status only.
LEMMA RecordFields ==
  ASSUME LinkTyped, NEW c \in Callers, Record(c)
  PROVE  /\ caller[c].pc = "record" /\ OthersStay(c) /\ motion' = motion
         /\ Marks(caller[c].seq, {"sent", "uncertain"})
         /\ GivesUp(c) \/ (Goes(c, "wait") /\ outcome' = outcome)
         /\ UNCHANGED <<appVars, robot, netVars, armVars, faults>>
<1>1. caller \in [Callers -> Threads] /\ LedgerTyped
  BY DEF LinkTyped
<1>2. CASE caller[c].sent
  <2>1. caller' = [caller EXCEPT ![c].pc = "wait"] /\ UNCHANGED motionVars
        /\ ledger' = [ledger EXCEPT ![caller[c].seq].status = "sent"]
    BY <1>2 DEF Record, Set
  <2>2. Marks(caller[c].seq, {"sent"})
    BY <1>1, <2>1, MarksRow DEF Record
  <2>. QED
    BY <1>1, <2>1, <2>2 DEF Record, Threads, Goes, OthersStay, motionVars, Marks
<1>3. CASE ~caller[c].sent
  <2>1. Fails(c) /\ ledger' = [ledger EXCEPT ![caller[c].seq].status = "uncertain"]
    BY <1>3 DEF Record
  <2>2. Marks(caller[c].seq, {"uncertain"})
    BY <1>1, <2>1, MarksRow DEF Record
  <2>. QED
    BY <2>1, <2>2, FailsFields DEF Record, Marks
<1>. QED
  BY <1>2, <1>3

\* The verdict ends the dispatch, or lets the movement advance.
LEMMA VerdictFields ==
  ASSUME LinkTyped, NEW c \in Callers, Verdict(c)
  PROVE  /\ caller[c].pc = "wait" /\ OthersStay(c) /\ motion' = motion
         /\ Marks(caller[c].seq, {"completed", "completed_link_lost", "latched"})
         /\ \/ GivesUp(c)
            \/ GetsThere(c) /\ events[caller[c].seq].code = "completed"
            \/ /\ events[caller[c].seq].code = "latched" /\ events[caller[c].seq].fault = "link lost"
               /\ caller'[c].pc = "reserve" /\ caller'[c].op = "clear" /\ outcome' = outcome
               /\ caller'[c].step = caller[c].step /\ caller'[c].tried = caller[c].tried
         /\ UNCHANGED <<appVars, robot, netVars, armVars, faults>>
<1>1. caller \in [Callers -> Threads] /\ LedgerTyped
  BY DEF LinkTyped
<1>2. /\ caller[c].pc = "wait" /\ lastSeq' = lastSeq /\ events[caller[c].seq].code \in Terminal
      /\ UNCHANGED <<appVars, robot, netVars, armVars, faults>>
  BY DEF Verdict
<1>3. CASE events[caller[c].seq].code = "completed"
  <2>1. Succeeds(c) /\ ledger' = [ledger EXCEPT ![caller[c].seq].status = "completed"]
    BY <1>3 DEF Verdict
  <2>2. Marks(caller[c].seq, {"completed"})
    BY <1>1, <1>2, <2>1, MarksRow
  <2>. QED
    BY <1>2, <1>3, <2>1, <2>2, SucceedsFields DEF Marks
<1>4. CASE events[caller[c].seq].code # "completed" /\ events[caller[c].seq].fault = "link lost"
  <2>1. ledger' = [ledger EXCEPT ![caller[c].seq].status = "completed_link_lost"]
    BY <1>4 DEF Verdict
  <2>2. Marks(caller[c].seq, {"completed_link_lost"})
    BY <1>1, <1>2, <2>1, MarksRow
  <2>3. CASE caller' = [caller EXCEPT ![c].pc = "reserve", ![c].op = "clear"] /\ UNCHANGED motionVars
    BY <1>1, <1>2, <1>4, <2>2, <2>3 DEF Marks, Threads, OthersStay, motionVars, Terminal
  <2>4. CASE Fails(c)
    BY <1>2, <2>2, <2>4, FailsFields DEF Marks
  <2>. QED
    BY <1>4, <2>3, <2>4 DEF Verdict
<1>5. CASE events[caller[c].seq].code # "completed" /\ events[caller[c].seq].fault # "link lost"
  <2>1. Fails(c) /\ ledger' = [ledger EXCEPT ![caller[c].seq].status = "latched"]
    BY <1>5 DEF Verdict
  <2>2. Marks(caller[c].seq, {"latched"})
    BY <1>1, <1>2, <2>1, MarksRow
  <2>. QED
    BY <1>2, <2>1, <2>2, FailsFields DEF Marks
<1>. QED
  BY <1>3, <1>4, <1>5

\* A wait that expires leaves the row undecided.
LEMMA WaitExpiresFields ==
  ASSUME LinkTyped, NEW c \in Callers, WaitExpires(c)
  PROVE  /\ caller[c].pc = "wait" /\ OthersStay(c) /\ motion' = motion
         /\ Marks(caller[c].seq, {"uncertain"}) /\ GivesUp(c)
         /\ UNCHANGED <<appVars, robot, netVars, armVars, faults>>
BY FailsFields, MarksRow DEF WaitExpires, LinkTyped

\* A request starts when none is under way.
LEMMA RequestFields ==
  ASSUME LinkTyped, NEW op, Request(op)
  PROVE  /\ caller["request"].pc = "free" /\ OthersStay("request")
         /\ caller'["request"].pc = "reserve" /\ caller'["request"].op = op
BY DEF Request, LinkTyped, Callers, Threads, OthersStay, Idle

\* The check of the link comes first, or ends the movement.
LEMMA CheckLinkFields ==
  ASSUME LinkTyped, CheckLink
  PROVE  /\ caller["worker"].pc = "check" /\ OthersStay("worker") /\ motion' = motion
         /\ \/ /\ caller'["worker"].pc = "reserve" /\ caller'["worker"].op = "step" /\ outcome' = outcome
               /\ caller'["worker"].step = caller["worker"].step
               /\ caller'["worker"].tried = caller["worker"].tried
            \/ /\ caller'["worker"].pc = "legacy" /\ caller'["worker"].step = 1 /\ outcome' = outcome
               /\ ~caller["worker"].tried /\ caller'["worker"].tried = caller["worker"].tried
               /\ caller'["worker"].op = caller["worker"].op
            \/ GivesUp("worker")
         /\ UNCHANGED <<dbVars, appVars, robot, netVars, armVars, faults>>
<1>1. caller \in [Callers -> Threads] /\ "worker" \in Callers
  BY DEF LinkTyped, Callers
<1>2. caller["worker"].pc = "check" /\ UNCHANGED <<dbVars, appVars, robot, netVars, armVars, faults>>
  BY DEF CheckLink
<1>3. CASE Fails("worker")
  BY <1>1, <1>2, <1>3, FailsFields
<1>4. CASE caller' = [caller EXCEPT !["worker"].pc = "reserve", !["worker"].op = "step"]
           /\ UNCHANGED motionVars
  BY <1>1, <1>2, <1>4 DEF Threads, OthersStay, motionVars
<1>5. CASE MayFallBack(caller["worker"]) /\ RunsLegacy /\ UNCHANGED motionVars
  BY <1>1, <1>2, <1>5 DEF RunsLegacy, MayFallBack, Threads, OthersStay, motionVars
<1>. QED
  BY <1>3, <1>4, <1>5 DEF CheckLink

\* A legacy step only advances its movement, or ends it.
LEMMA LegacyStepFields ==
  ASSUME LinkTyped, LegacyStep
  PROVE  /\ caller["worker"].pc = "legacy" /\ OthersStay("worker") /\ motion' = motion
         /\ \/ GivesUp("worker") /\ done' \in {done, done \cup {<<motion, caller["worker"].step>>}}
            \/ /\ caller["worker"].step = Steps /\ caller'["worker"] = Idle
               /\ outcome' \in LeftWith("succeeded")
               /\ done' = done \cup {<<motion, caller["worker"].step>>}
            \/ /\ caller["worker"].step # Steps /\ outcome' = outcome
               /\ caller'["worker"].pc = "legacy" /\ caller'["worker"].step = caller["worker"].step + 1
               /\ caller'["worker"].op = caller["worker"].op
               /\ caller'["worker"].tried = caller["worker"].tried
               /\ done' = done \cup {<<motion, caller["worker"].step>>}
         /\ ran' = [ran EXCEPT ![<<motion, caller["worker"].step>>] = @ + 1]
         /\ robot' = [robot EXCEPT !.pc = "off", !.up = FALSE, !.cmd = NoCommand]
         /\ wire' = FALSE /\ joined' = FALSE /\ toRobot' = <<>>
         /\ UNCHANGED <<dbVars, appVars, toApp, faults>>
<1>1. caller \in [Callers -> Threads] /\ "worker" \in Callers
  BY DEF LinkTyped, Callers
<1>2. /\ caller["worker"].pc = "legacy"
      /\ ran' = [ran EXCEPT ![<<motion, caller["worker"].step>>] = @ + 1]
      /\ robot' = [robot EXCEPT !.pc = "off", !.up = FALSE, !.cmd = NoCommand]
      /\ wire' = FALSE /\ joined' = FALSE /\ toRobot' = <<>>
      /\ UNCHANGED <<dbVars, appVars, toApp, faults>>
  BY DEF LegacyStep
<1>3. CASE Fails("worker") /\ UNCHANGED done
  <2>1. GivesUp("worker") /\ OthersStay("worker") /\ motion' = motion
    BY <1>1, <1>3, FailsFields
  <2>. QED
    BY <1>2, <1>3, <2>1
<1>4. CASE /\ done' = done \cup {<<motion, caller["worker"].step>>}
           /\ caller["worker"].step = Steps /\ EndMotion("succeeded")
  <2>1. /\ caller'["worker"] = Idle /\ OthersStay("worker") /\ motion' = motion
        /\ outcome' \in LeftWith("succeeded")
    BY <1>1, <1>4 DEF EndMotion, OthersStay, LeftWith
  <2>. QED
    BY <1>2, <1>4, <2>1
<1>5. CASE /\ done' = done \cup {<<motion, caller["worker"].step>>}
           /\ caller["worker"].step # Steps
           /\ caller' = [caller EXCEPT !["worker"].step = @ + 1] /\ UNCHANGED motionVars
  <2>1. /\ caller'["worker"].pc = "legacy" /\ caller'["worker"].step = caller["worker"].step + 1
        /\ caller'["worker"].op = caller["worker"].op
        /\ caller'["worker"].tried = caller["worker"].tried
        /\ OthersStay("worker") /\ motion' = motion /\ outcome' = outcome
    BY <1>1, <1>2, <1>5 DEF Threads, OthersStay, motionVars
  <2>. QED
    BY <1>2, <1>5, <2>1
<1>. QED
  BY <1>3, <1>4, <1>5 DEF LegacyStep

\* A movement begins with a new worker.
LEMMA StartMotionFields ==
  ASSUME LinkTyped, StartMotion
  PROVE  /\ OthersStay("worker") /\ motion' = motion + 1 /\ motion' \in Motions
         /\ caller'["worker"].pc = "check" /\ caller'["worker"].step = 1
         /\ caller'["worker"].tried = FALSE /\ caller'["worker"].op = "none"
         /\ outcome' = [outcome EXCEPT ![motion'] = "open"] /\ outcome'[motion'] = "open"
         /\ motion > 0 => outcome[motion] \notin {"open", "faulted", "interrupted"}
         /\ UNCHANGED <<dbVars, appVars, robot, netVars, armVars, faults>>
BY Numbers DEF StartMotion, LinkTyped, MotionTyped, Callers, Threads, OthersStay, Idle, Motions, Locked

\* An idle request starts to stop the program, or to seed a new one.
LEMMA BootstrapFields ==
  ASSUME LinkTyped, Bootstrap
  PROVE  /\ ~Active /\ OthersStay("request") /\ caller["request"].pc = "free"
         /\ \/ caller'["request"].pc = "reserve" /\ caller'["request"].op = "maintenance"
            \/ /\ caller'["request"].pc = "seed" /\ caller'["request"].seq = lastSeq
               /\ caller'["request"].op = "none"
         /\ faults' = faults + 1
         /\ UNCHANGED <<dbVars, motionVars, appVars, robot, netVars, armVars>>
<1>1. CASE Request("maintenance")
  BY <1>1, RequestFields DEF Bootstrap
<1>2. CASE /\ caller["request"].pc = "free"
           /\ caller' = [caller EXCEPT !["request"] = [Idle EXCEPT !.pc = "seed", !.seq = lastSeq]]
  BY <1>2 DEF Bootstrap, LinkTyped, Callers, OthersStay, Idle
<1>. QED
  BY <1>1, <1>2 DEF Bootstrap

-----------------------------------------------------------------------------
(* The threads and their sequences.                                        *)

\* Rows edited in their status still describe the commands.
LEMMA CallersStep ==
  ASSUME LinkTyped, CallersOK, Next
  PROVE  CallersOK'
<1>1. /\ caller \in [Callers -> Threads] /\ lastSeq \in 0..MaxSequence /\ ledger \in [Seqs -> Rows]
      /\ motion \in 0..MaxMotions
      /\ Callers = {"worker", "request"}
      /\ \A c \in Callers : caller[c].seq \in 0..MaxSequence
  BY DEF LinkTyped, LedgerTyped, MotionTyped, Callers, Threads
<1>2. Idle.pc = "free" /\ Idle.op = "none"
  BY DEF Idle
<1>3. NoRow.op = "none" /\ NoRow.move = <<0, 0>> /\ <<0, 0>> \notin Moves
  BY DEF NoRow, Moves, Motions
<1>4. ASSUME NEW s, NEW st, Marks(s, st), "absent" \notin st
      PROVE  /\ \A n \in Seqs : ledger'[n].op = "step" <=> ledger'[n].move \in Moves
             /\ \A c \in Callers : Holds(c) =>
                  /\ ledger'[caller[c].seq].status # "absent"
                  /\ ledger'[caller[c].seq].op = caller[c].op
                  /\ caller[c].op = "step" => ledger'[caller[c].seq].move = <<motion, caller[c].step>>
  BY <1>1, <1>4 DEF Marks, CallersOK, Seqs
<1>5. ASSUME NEW c \in Callers, GivesUp(c), OthersStay(c), motion' = motion,
             \/ UNCHANGED dbVars
             \/ \E s, st : Marks(s, st) /\ "absent" \notin st
      PROVE  CallersOK'
  <2>1. lastSeq' = lastSeq
    BY <1>5 DEF dbVars, Marks
  <2>2. /\ \A n \in Seqs : ledger'[n].op = "step" <=> ledger'[n].move \in Moves
        /\ \A d \in Callers : Holds(d) =>
             /\ ledger'[caller[d].seq].status # "absent"
             /\ ledger'[caller[d].seq].op = caller[d].op
             /\ caller[d].op = "step" => ledger'[caller[d].seq].move = <<motion, caller[d].step>>
    <3>1. CASE UNCHANGED dbVars
      BY <3>1 DEF CallersOK, dbVars
    <3>2. CASE \E s, st : Marks(s, st) /\ "absent" \notin st
      BY <1>4, <3>2
    <3>. QED
      BY <1>5, <3>1, <3>2
  <2>. QED
    BY <1>1, <1>2, <1>5, <2>1, <2>2 DEF CallersOK, OthersStay, GivesUp, Holds, Keeps, Active
<1>6. ASSUME NEW c \in Callers, OthersStay(c), motion' = motion, outcome' = outcome, caller[c].pc # "free",
              NEW s, NEW st, Marks(s, st), "absent" \notin st,
              \/ Goes(c, "wait") /\ Holds(c)
              \/ Goes(c, "seed") /\ Holds(c) /\ c # "worker"
              \/ caller'[c].pc = "reserve" /\ caller'[c].op = "clear"
              \/ caller'[c].pc = "check" /\ c = "worker"
              \/ caller'[c] = Idle
       PROVE  CallersOK'
  <2>1. lastSeq' = lastSeq /\ caller[c].pc # "free"
    BY <1>6 DEF Marks
  <2>2. /\ \A n \in Seqs : ledger'[n].op = "step" <=> ledger'[n].move \in Moves
        /\ \A d \in Callers : Holds(d) =>
             /\ ledger'[caller[d].seq].status # "absent"
             /\ ledger'[caller[d].seq].op = caller[d].op
             /\ caller[d].op = "step" => ledger'[caller[d].seq].move = <<motion, caller[d].step>>
    BY <1>4, <1>6
  <2>. QED
    BY <1>1, <1>2, <1>6, <2>1, <2>2 DEF CallersOK, OthersStay, Goes, Holds, Keeps, Active
<1>7. ASSUME NEW c \in Callers, Reserve(c)
      PROVE  CallersOK'
  <2>1. motion' = motion /\ outcome' = outcome
    BY <1>7, ReserveFields DEF motionVars
  <2>2. caller[c].op = "step" => c = "worker" /\ motion \in Motions /\ caller[c].step \in 1..Steps
    BY <1>1, <1>7, ReserveFields DEF CallersOK, Active, Motions, Threads
  <2>3. \A s \in Seqs : ledger'[s].op = "step" <=> ledger'[s].move \in Moves
    BY <1>1, <1>3, <1>7, <2>2, ReserveFields DEF CallersOK, Moves
  <2>4. \A d \in Callers \ {c} : Keeps(d) => caller[d].seq # lastSeq'
    BY <1>1, <1>7, ReserveFields DEF CallersOK
  <2>5. lastSeq' = lastSeq + 1 /\ lastSeq' \in Seqs
    BY <1>7, ReserveFields
  <2>. QED
    BY <1>1, <1>7, <2>1, <2>2, <2>3, <2>4, <2>5, ReserveFields
       DEF CallersOK, OthersStay, Holds, Keeps, Active, Seqs
<1>8. ASSUME NEW c \in Callers, ReserveFails(c) \/ ReleaseLost(c)
      PROVE  CallersOK'
  BY <1>5, <1>8, FailsFields DEF ReserveFails, ReleaseLost
<1>9. ASSUME NEW c \in Callers, Dispatch(c)
      PROVE  CallersOK'
  BY <1>1, <1>9, DispatchFields DEF CallersOK, OthersStay, Goes, Holds, Keeps, Active, dbVars, motionVars
<1>10. ASSUME NEW c \in Callers, Transmit(c)
      PROVE  CallersOK'
  BY <1>1, <1>10, TransmitFields DEF CallersOK, OthersStay, Goes, Holds, Keeps, Active, dbVars, motionVars
<1>11. ASSUME NEW c \in Callers, Release(c)
      PROVE  CallersOK'
  <2>1. \A d \in Callers \ {c} : Keeps(d) => caller[d].seq <= lastSeq' /\ caller[d].seq # lastSeq
    BY <1>1, <1>11, ReleaseFields DEF CallersOK, Keeps, Holds
  <2>2. \A s \in Seqs : ledger'[s].op = "step" <=> ledger'[s].move \in Moves
    BY <1>1, <1>3, <1>11, ReleaseFields DEF CallersOK
  <2>3. \A d \in Callers \ {c} : Holds(d) => ledger'[caller[d].seq] = ledger[caller[d].seq]
    BY <1>1, <1>11, <2>1, ReleaseFields DEF Keeps, CallersOK, Seqs
  <2>4. caller[c].pc = "release"
    BY <1>11, ReleaseFields
  <2>5. CASE GivesUp(c)
    BY <1>1, <1>2, <1>11, <2>1, <2>2, <2>3, <2>5, ReleaseFields
       DEF CallersOK, OthersStay, GivesUp, Holds, Keeps, Active
  <2>6. CASE TurnsToLegacy(c)
    BY <1>1, <1>2, <1>11, <2>1, <2>2, <2>3, <2>4, <2>6, ReleaseFields
       DEF CallersOK, OthersStay, TurnsToLegacy, Holds, Keeps, Active
  <2>. QED
    BY <1>11, <2>5, <2>6, ReleaseFields
<1>12. ASSUME NEW c \in Callers, Record(c)
      PROVE  CallersOK'
  <2>1. Marks(caller[c].seq, {"sent", "uncertain"}) /\ OthersStay(c) /\ motion' = motion
        /\ caller[c].pc = "record"
    BY <1>12, RecordFields
  <2>2. CASE GivesUp(c)
    BY <1>5, <2>1, <2>2
  <2>3. CASE Goes(c, "wait") /\ outcome' = outcome
    BY <1>6, <2>1, <2>3 DEF Holds
  <2>. QED
    BY <1>12, <2>2, <2>3, RecordFields
<1>13. ASSUME NEW c \in Callers, Verdict(c)
      PROVE  CallersOK'
  <2>1. Marks(caller[c].seq, {"completed", "completed_link_lost", "latched"}) /\ OthersStay(c)
        /\ motion' = motion /\ caller[c].pc = "wait"
    BY <1>13, VerdictFields
  <2>2. CASE GivesUp(c)
    BY <1>5, <2>1, <2>2
  <2>3. CASE GetsThere(c) /\ outcome' = outcome
    <3>1. \/ Goes(c, "seed") /\ c # "worker"
          \/ caller'[c].pc = "check" /\ c = "worker"
          \/ caller'[c] = Idle
      BY <2>3 DEF GetsThere, Advances
    <3>. QED
      BY <1>6, <2>1, <2>3, <3>1 DEF Holds
  <2>4. CASE GetsThere(c) /\ outcome' # outcome
    <3>1. c = "worker" /\ caller'[c] = Idle
      BY <2>4 DEF GetsThere, Advances
    <3>2. lastSeq' = lastSeq
      BY <2>1 DEF Marks
    <3>3. /\ \A n \in Seqs : ledger'[n].op = "step" <=> ledger'[n].move \in Moves
          /\ \A d \in Callers : Holds(d) =>
               /\ ledger'[caller[d].seq].status # "absent"
               /\ ledger'[caller[d].seq].op = caller[d].op
               /\ caller[d].op = "step" => ledger'[caller[d].seq].move = <<motion, caller[d].step>>
      BY <1>4, <2>1
    <3>. QED
      BY <1>1, <1>2, <2>1, <3>1, <3>2, <3>3 DEF CallersOK, OthersStay, Holds, Keeps
  <2>5. CASE caller'[c].pc = "reserve" /\ caller'[c].op = "clear" /\ outcome' = outcome
    BY <1>6, <2>1, <2>5
  <2>. QED
    BY <1>13, <2>2, <2>3, <2>4, <2>5, VerdictFields
<1>14. ASSUME NEW c \in Callers, WaitExpires(c)
       PROVE  CallersOK'
  BY <1>5, <1>14, WaitExpiresFields
<1>15. CASE CheckLink
  <2>1. CASE GivesUp("worker")
    BY <1>1, <1>5, <1>15, <2>1, CheckLinkFields
  <2>2. CASE ~GivesUp("worker")
    BY <1>1, <1>15, <2>2, CheckLinkFields DEF CallersOK, OthersStay, Holds, Keeps, Active, dbVars
  <2>. QED
    BY <2>1, <2>2
<1>16. CASE LegacyStep
  <2>1. UNCHANGED dbVars /\ OthersStay("worker") /\ motion' = motion /\ caller["worker"].pc = "legacy"
    BY <1>16, LegacyStepFields
  <2>2. CASE caller'["worker"] = Idle
    BY <1>1, <1>2, <2>1, <2>2 DEF CallersOK, OthersStay, Holds, Keeps, Active, dbVars
  <2>3. CASE outcome' = outcome /\ caller'["worker"].pc = "legacy"
    BY <1>1, <2>1, <2>3 DEF CallersOK, OthersStay, Holds, Keeps, Active, dbVars
  <2>. QED
    BY <1>16, <2>2, <2>3, LegacyStepFields DEF GivesUp
<1>17. CASE StartMotion
  <2>1. caller["worker"].pc = "free"
    BY <1>17, StartMotionFields DEF CallersOK, Active
  <2>. QED
    BY <1>1, <1>17, <2>1, StartMotionFields
       DEF CallersOK, OthersStay, Holds, Keeps, Active, dbVars, Motions
<1>18. ASSUME NEW op \in Ops \ {"step"}, Request(op), UNCHANGED dbVars, motion' = motion,
              Active => outcome' = outcome
       PROVE  CallersOK'
  BY <1>1, <1>18, RequestFields DEF CallersOK, OthersStay, Holds, Keeps, Active, dbVars, Ops
<1>19. CASE ToggleOutput
  BY <1>18, <1>19 DEF ToggleOutput, motionVars, Ops
<1>20. CASE ClearLatch
  BY <1>18, <1>20 DEF ClearLatch, motionVars, Ops
<1>21. CASE RecoverMotion
  <2>1. UNCHANGED dbVars /\ motion' = motion /\ ~Active
    BY <1>21 DEF RecoverMotion
  <2>2. CASE Request("clear")
    BY <1>18, <2>1, <2>2 DEF Ops
  <2>3. CASE UNCHANGED caller
    BY <2>1, <2>3 DEF CallersOK, Holds, Keeps, Active, dbVars
  <2>. QED
    BY <1>21, <2>2, <2>3 DEF RecoverMotion
<1>22. ASSUME NEW s \in Seqs, ReconcileCommand(s)
       PROVE  CallersOK'
  <2>1. Marks(s, {"reconciled"})
    BY <1>22, MarksRow DEF LinkTyped, ReconcileCommand
  <2>2. UNCHANGED <<caller, motion, outcome>>
    BY <1>22 DEF ReconcileCommand, motionVars
  <2>. QED
    BY <1>4, <2>1, <2>2 DEF CallersOK, Holds, Keeps, Active, Marks
<1>23. CASE Bootstrap
  BY <1>1, <1>23, BootstrapFields DEF CallersOK, OthersStay, Holds, Keeps, Active, dbVars, motionVars
<1>24. CASE ApplyCompletion
  <2>1. Marks(lastSeq, {"completed"})
    BY <1>24, MarksRow DEF LinkTyped, ApplyCompletion
  <2>2. UNCHANGED <<caller, motion>> /\ (Active => outcome' = outcome)
    BY <1>24 DEF ApplyCompletion, Confirmed, Active
  <2>. QED
    BY <1>4, <2>1, <2>2 DEF CallersOK, Holds, Keeps, Active, Marks
<1>25. CASE SeedProgram
  <2>1. caller'["request"] = Idle /\ OthersStay("request") /\ UNCHANGED <<dbVars, motionVars>>
    BY <1>1, <1>25 DEF SeedProgram, OthersStay
  <2>. QED
    BY <1>1, <1>2, <2>1 DEF CallersOK, OthersStay, Holds, Keeps, Active, dbVars, motionVars
<1>26. CASE Restart
  <2>1. (\A c \in Callers : caller'[c] = Idle) /\ UNCHANGED dbVars
    BY <1>26 DEF Restart
  <2>. QED
    BY <1>1, <1>2, <2>1 DEF CallersOK, Holds, Keeps, dbVars
<1>27. CASE AppHears \/ AppDisconnects \/ Break \/ Robot
  <2>1. UNCHANGED <<dbVars, motionVars, caller>>
    BY <1>27 DEF AppHears, AppDisconnects, Break, Robot, RobotConnects, RobotHears, RobotSendsEvent,
       Telemetry, RobotLosesLink, RobotTakes, RobotProceeds, RobotFinishes, RobotStops
  <2>. QED
    BY <2>1 DEF CallersOK, Holds, Keeps, Active, dbVars, motionVars
<1>28. ASSUME NEW c \in Callers, Thread(c)
       PROVE  CallersOK'
  BY <1>7, <1>8, <1>9, <1>10, <1>11, <1>12, <1>13, <1>14, <1>28 DEF Thread
<1>. QED
  BY <1>1, <1>15, <1>16, <1>17, <1>19, <1>20, <1>21, <1>22, <1>23, <1>24, <1>25, <1>26, <1>27, <1>28
     DEF Next, Worker, Operator, Connection

-----------------------------------------------------------------------------
(* What was sent stays written down.                                       *)

\* A sequence that may have left the application is never given back.
LEMMA SentIsKept ==
  ASSUME LinkTyped, CallersOK, Next, NEW s \in 0..MaxSequence, Sent(s)
  PROVE  Sent(s)'
<1>1. /\ caller \in [Callers -> Threads] /\ lastSeq \in 0..MaxSequence
      /\ Callers = {"worker", "request"}
      /\ \A c \in Callers : caller[c].seq \in 0..MaxSequence
      /\ Idle.pc = "free"
  BY DEF LinkTyped, LedgerTyped, Callers, Threads, Idle
<1>2. ASSUME lastSeq' >= s, NEW c \in Callers, OthersStay(c),
             \/ caller'[c].pc \notin {"dispatch", "picked", "release"}
             \/ Unsent(c) /\ caller'[c].seq = caller[c].seq
             \/ caller'[c].seq > s
      PROVE  Sent(s)'
  BY <1>1, <1>2 DEF Sent, Unsent, OthersStay
<1>3. ASSUME lastSeq' = lastSeq, caller' = caller
      PROVE  Sent(s)'
  BY <1>1, <1>3 DEF Sent, Unsent
<1>4. ASSUME NEW c \in Callers, Thread(c)
      PROVE  Sent(s)'
  <2>1. CASE Reserve(c)
    BY <1>1, <1>2, <2>1, ReserveFields DEF Sent
  <2>2. CASE ReserveFails(c) \/ ReleaseLost(c)
    BY <1>1, <1>2, <2>2, FailsFields DEF ReserveFails, ReleaseLost, GivesUp, Sent, dbVars
  <2>3. CASE Dispatch(c)
    <3>1. OthersStay(c) /\ caller[c].pc = "dispatch" /\ caller'[c].seq = caller[c].seq /\ lastSeq' = lastSeq
      BY <2>3, DispatchFields DEF Goes, dbVars
    <3>. QED
      BY <1>1, <1>2, <3>1 DEF Unsent, Sent
  <2>4. CASE Transmit(c)
    <3>1. OthersStay(c) /\ caller[c].pc = "picked" /\ caller'[c].seq = caller[c].seq /\ lastSeq' = lastSeq
      BY <2>4, TransmitFields DEF Goes, dbVars
    <3>. QED
      BY <1>1, <1>2, <3>1 DEF Unsent, Sent
  <2>5. CASE Release(c)
    <3>1. s # lastSeq
      BY <2>5, ReleaseFields DEF Sent, Unsent
    <3>2. lastSeq' >= s
      BY <1>1, <2>5, <3>1, ReleaseFields DEF Sent
    <3>3. caller'[c].pc \notin {"dispatch", "picked", "release"} /\ OthersStay(c)
      BY <1>1, <2>5, ReleaseFields DEF GivesUp, TurnsToLegacy
    <3>. QED
      BY <1>2, <3>2, <3>3
  <2>6. CASE Record(c)
    <3>1. caller'[c].pc \notin {"dispatch", "picked", "release"} /\ OthersStay(c) /\ lastSeq' = lastSeq
      BY <1>1, <2>6, RecordFields DEF GivesUp, Goes, Marks
    <3>. QED
      BY <1>1, <1>2, <3>1 DEF Sent
  <2>7. CASE Verdict(c)
    <3>1. caller'[c].pc \notin {"dispatch", "picked", "release"} /\ OthersStay(c) /\ lastSeq' = lastSeq
      BY <1>1, <2>7, VerdictFields DEF GivesUp, GetsThere, Advances, Goes, Marks
    <3>. QED
      BY <1>1, <1>2, <3>1 DEF Sent
  <2>8. CASE WaitExpires(c)
    BY <1>1, <1>2, <2>8, WaitExpiresFields DEF GivesUp, Marks, Sent
  <2>. QED
    BY <1>4, <2>1, <2>2, <2>3, <2>4, <2>5, <2>6, <2>7, <2>8 DEF Thread
<1>5. CASE CheckLink
  <2>1. caller'["worker"].pc \notin {"dispatch", "picked", "release"} /\ OthersStay("worker") /\ lastSeq' = lastSeq
    BY <1>1, <1>5, CheckLinkFields DEF GivesUp, dbVars
  <2>. QED
    BY <1>1, <1>2, <2>1 DEF Sent
<1>6. CASE LegacyStep
  <2>1. caller'["worker"].pc \notin {"dispatch", "picked", "release"} /\ OthersStay("worker") /\ lastSeq' = lastSeq
    BY <1>1, <1>6, LegacyStepFields DEF GivesUp, dbVars
  <2>. QED
    BY <1>1, <1>2, <2>1 DEF Sent
<1>7. CASE StartMotion
  BY <1>1, <1>2, <1>7, StartMotionFields DEF Sent, dbVars
<1>8. ASSUME NEW op, Request(op), lastSeq' = lastSeq
      PROVE  Sent(s)'
  BY <1>1, <1>2, <1>8, RequestFields DEF Sent
<1>9. CASE ToggleOutput \/ ClearLatch
  BY <1>8, <1>9 DEF ToggleOutput, ClearLatch, dbVars
<1>10. CASE RecoverMotion
  BY <1>3, <1>8, <1>10 DEF RecoverMotion, dbVars
<1>11. CASE Bootstrap
  BY <1>1, <1>2, <1>11, BootstrapFields DEF Sent, dbVars
<1>12. CASE SeedProgram
  BY <1>1, <1>2, <1>12 DEF SeedProgram, OthersStay, Sent, dbVars
<1>13. CASE Restart
  BY <1>1, <1>13 DEF Restart, Sent, Unsent, dbVars
<1>14. CASE ApplyCompletion \/ (\E n \in Seqs : ReconcileCommand(n))
            \/ AppHears \/ AppDisconnects \/ Break \/ Robot
  <2>1. UNCHANGED <<lastSeq, caller>>
    BY <1>14 DEF ApplyCompletion, ReconcileCommand, AppHears, AppDisconnects, Break, Robot, RobotConnects,
       RobotHears, RobotSendsEvent, Telemetry, RobotLosesLink, RobotTakes, RobotProceeds, RobotFinishes,
       RobotStops, dbVars
  <2>. QED
    BY <1>3, <2>1
<1>. QED
  BY <1>1, <1>4, <1>5, <1>6, <1>7, <1>9, <1>10, <1>11, <1>12, <1>13, <1>14
     DEF Next, Worker, Operator, Connection

\* ... and its row goes on describing the same command.
LEMMA SentRowIsKept ==
  ASSUME LinkTyped, CallersOK, Next, NEW s \in Seqs, Sent(s)
  PROVE  /\ ledger'[s].op = ledger[s].op /\ ledger'[s].move = ledger[s].move
         /\ ledger[s].status # "absent" => ledger'[s].status # "absent"
<1>1. lastSeq \in 0..MaxSequence /\ LedgerTyped
  BY DEF LinkTyped, LedgerTyped
<1>2. ASSUME NEW n, NEW st, Marks(n, st), "absent" \notin st
      PROVE  /\ ledger'[s].op = ledger[s].op /\ ledger'[s].move = ledger[s].move
             /\ ledger[s].status # "absent" => ledger'[s].status # "absent"
  BY <1>2 DEF Marks
<1>3. ASSUME NEW c \in Callers, Thread(c)
      PROVE  /\ ledger'[s].op = ledger[s].op /\ ledger'[s].move = ledger[s].move
             /\ ledger[s].status # "absent" => ledger'[s].status # "absent"
  <2>1. CASE Reserve(c)
    <3>1. lastSeq' = lastSeq + 1 /\ \A n \in Seqs \ {lastSeq'} : ledger'[n] = ledger[n]
      BY <2>1, ReserveFields
    <3>2. s # lastSeq'
      BY <1>1, <3>1 DEF Sent, Seqs
    <3>. QED
      BY <3>1, <3>2
  <2>2. CASE ReserveFails(c) \/ ReleaseLost(c) \/ Dispatch(c) \/ Transmit(c)
    BY <2>2 DEF ReserveFails, ReleaseLost, Dispatch, Transmit, dbVars
  <2>3. CASE Release(c)
    <3>1. s # lastSeq
      BY <2>3, ReleaseFields DEF Sent, Unsent
    <3>. QED
      BY <2>3, <3>1, ReleaseFields
  <2>4. CASE Record(c)
    BY <1>2, <2>4, RecordFields
  <2>5. CASE Verdict(c)
    BY <1>2, <2>5, VerdictFields
  <2>6. CASE WaitExpires(c)
    BY <1>2, <2>6, WaitExpiresFields
  <2>. QED
    BY <1>3, <2>1, <2>2, <2>3, <2>4, <2>5, <2>6 DEF Thread
<1>4. CASE ApplyCompletion
  BY <1>1, <1>2, <1>4, MarksRow DEF ApplyCompletion
<1>5. ASSUME NEW n \in Seqs, ReconcileCommand(n)
      PROVE  /\ ledger'[s].op = ledger[s].op /\ ledger'[s].move = ledger[s].move
             /\ ledger[s].status # "absent" => ledger'[s].status # "absent"
  BY <1>1, <1>2, <1>5, MarksRow DEF ReconcileCommand
<1>6. CASE UNCHANGED ledger
  BY <1>6
<1>7. CASE CheckLink \/ LegacyStep \/ StartMotion \/ ToggleOutput \/ ClearLatch \/ RecoverMotion \/ Bootstrap
           \/ SeedProgram \/ Connection \/ Robot
  BY <1>6, <1>7 DEF CheckLink, LegacyStep, StartMotion, ToggleOutput, ClearLatch, RecoverMotion, Bootstrap,
     SeedProgram, Connection, AppHears, AppDisconnects, Break, Restart, Robot, RobotConnects,
     RobotHears, RobotSendsEvent, Telemetry, RobotLosesLink, RobotTakes, RobotProceeds, RobotFinishes,
     RobotStops, dbVars
<1>. QED
  BY <1>3, <1>4, <1>5, <1>7 DEF Next, Worker, Operator, Callers

\* So a frame that is recorded stays recorded.
LEMMA RecordedIsKept ==
  ASSUME LinkTyped, CallersOK, Next, NEW f \in Commands, Recorded(f)
  PROVE  Recorded(f)'
<1>1. f.seq \in Seqs /\ f.seq \in 0..MaxSequence
  BY Numbers DEF Commands, Seqs
<1>2. Sent(f.seq) /\ Sent(f.seq)'
  BY <1>1, SentIsKept DEF Recorded
<1>3. /\ ledger'[f.seq].op = ledger[f.seq].op /\ ledger'[f.seq].move = ledger[f.seq].move
      /\ ledger[f.seq].status # "absent" => ledger'[f.seq].status # "absent"
  BY <1>1, <1>2, SentRowIsKept
<1>. QED
  BY <1>2, <1>3 DEF Recorded

\* The frames' invariant is kept.
LEMMA FramesStep ==
  ASSUME LinkTyped, WireOK, CallersOK, FramesOK, Next, CallersOK'
  PROVE  FramesOK'
<1>1. /\ robot \in Programs /\ robot.cmd \in Commands \cup {NoCommand} /\ robot.last \in 0..MaxSequence
      /\ toRobot \in Seq(Commands)
      /\ NoCommand.seq = 0 /\ \A f \in Commands : f.seq \in Seqs /\ f.seq > 0 /\ f.seq \in 0..MaxSequence
  BY Numbers DEF LinkTyped, RobotTyped, NetTyped, Programs, NoCommand, Commands, Seqs
<1>2. /\ \A f \in Commands : Recorded(f) => Recorded(f)'
      /\ \A n \in 0..MaxSequence : Sent(n) => Sent(n)'
  BY RecordedIsKept, SentIsKept
<1>3. Busy => robot.cmd \in Commands /\ Recorded(robot.cmd)
  BY <1>1 DEF FramesOK, Busy
<1>4. \A i \in 1..Len(toRobot) : toRobot[i] \in Commands /\ Recorded(toRobot[i])
  BY <1>1 DEF FramesOK
<1>5. ASSUME \A i \in 1..Len(toRobot') : \E j \in 1..Len(toRobot) : toRobot'[i] = toRobot[j],
             robot'.cmd = robot.cmd \/ robot'.cmd = NoCommand,
             robot'.last = robot.last \/ (Busy /\ robot'.last = robot.cmd.seq)
      PROVE  FramesOK'
  <2>1. \A i \in 1..Len(toRobot') : Recorded(toRobot[i])'
    BY <1>2, <1>4, <1>5
  <2>2. (Busy => Recorded(robot.cmd))'
    BY <1>1, <1>2, <1>3, <1>5 DEF Busy
  <2>3. Sent(robot.last)'
    BY <1>1, <1>2, <1>3, <1>5 DEF FramesOK, Recorded
  <2>. QED
    BY <2>1, <2>2, <2>3 DEF FramesOK
<1>6. ASSUME toRobot' = toRobot \/ toRobot' = <<>>,
             robot'.cmd = robot.cmd \/ robot'.cmd = NoCommand,
             robot'.last = robot.last \/ (Busy /\ robot'.last = robot.cmd.seq)
      PROVE  FramesOK'
  <2>1. \A i \in 1..Len(toRobot') : \E j \in 1..Len(toRobot) : toRobot'[i] = toRobot[j]
    BY <1>6
  <2>. QED
    BY <1>5, <1>6, <2>1
<1>7. ASSUME NEW c \in Callers, Transmit(c)
      PROVE  FramesOK'
  <2>1. CASE toRobot' = toRobot
    BY <1>6, <1>7, <2>1, TransmitFields
  <2>2. CASE toRobot' # toRobot
    <3>1. caller[c].pc = "picked" /\ toRobot' = Append(toRobot, Frame(c)) /\ robot' = robot
      BY <1>7, <2>2, SendsFrame
    <3>2. Holds(c) /\ Keeps(c) /\ caller[c].seq \in Seqs
      BY <3>1 DEF Holds, Keeps, CallersOK, LinkTyped, Threads, Seqs
    <3>3. caller'[c].pc = "record" /\ caller'[c].seq = caller[c].seq /\ OthersStay(c) /\ ledger' = ledger
          /\ lastSeq' = lastSeq
      BY <1>7, <2>2, TransmitFields DEF dbVars
    <3>4. caller[c].seq <= lastSeq /\ \A d \in Callers : Unsent(d)' => caller'[d].seq # caller[c].seq
      BY <3>2, <3>3 DEF CallersOK, OthersStay, Unsent, Keeps, Holds, Callers
    <3>5. /\ Frame(c).seq = caller[c].seq /\ Frame(c).op = caller[c].op
          /\ Frame(c).move = ledger[caller[c].seq].move
      BY DEF Frame
    <3>6. /\ ledger[caller[c].seq].status # "absent" /\ ledger[caller[c].seq].op = caller[c].op
      BY <3>2 DEF CallersOK
    <3>7. \A f : f = Frame(c) => Recorded(f)'
      BY <3>3, <3>4, <3>5, <3>6 DEF Recorded, Sent
    <3>8. \A i \in 1..Len(toRobot') :
            toRobot'[i] = Frame(c) \/ \E j \in 1..Len(toRobot) : toRobot'[i] = toRobot[j]
      BY <1>1, <3>1
    <3>9. \A i \in 1..Len(toRobot') : Recorded(toRobot[i])'
      BY <1>2, <1>4, <3>7, <3>8
    <3>10. (Busy => Recorded(robot.cmd))'
      BY <1>2, <1>3, <3>1 DEF Busy
    <3>11. Sent(robot.last)'
      BY <1>1, <1>2, <3>1 DEF FramesOK
    <3>. QED
      BY <3>9, <3>10, <3>11 DEF FramesOK
  <2>. QED
    BY <2>1, <2>2
<1>8. CASE RobotHears
  <2>1. toRobot # <<>> /\ toRobot' = Tail(toRobot) /\ robot'.last = robot.last
    BY <1>8, HeardFields DEF RobotHears
  <2>2. \A i \in 1..Len(toRobot') : \E j \in 1..Len(toRobot) : toRobot'[i] = toRobot[j]
    BY <1>1, <2>1
  <2>3. CASE Busy
    BY <1>5, <1>8, <2>1, <2>2, <2>3, HeardFields
  <2>4. CASE ~Busy
    <3>1. robot'.cmd = toRobot[1] /\ 1 \in 1..Len(toRobot)
      BY <1>1, <1>8, <2>1, <2>4, HeardFields
    <3>2. \A i \in 1..Len(toRobot') : Recorded(toRobot[i])'
      BY <1>2, <1>4, <2>2
    <3>3. Recorded(robot.cmd)'
      BY <1>2, <1>4, <3>1
    <3>4. Sent(robot.last)'
      BY <1>1, <1>2, <2>1 DEF FramesOK
    <3>. QED
      BY <3>2, <3>3, <3>4 DEF FramesOK
  <2>. QED
    BY <2>3, <2>4
<1>9. CASE SeedProgram
  <2>1. /\ robot'.cmd = NoCommand /\ robot'.last = caller["request"].seq /\ toRobot' = <<>>
        /\ caller["request"].pc = "seed" /\ caller'["request"] = Idle /\ lastSeq' = lastSeq
        /\ caller'["worker"] = caller["worker"]
    BY <1>9 DEF SeedProgram, Program, dbVars, LinkTyped, Callers
  <2>2. caller["request"].seq <= lastSeq
        /\ (Unsent("worker") => caller["worker"].seq # caller["request"].seq)
    BY <2>1 DEF CallersOK, Keeps, Holds, Unsent, Callers
  <2>3. Sent(robot.last)'
    BY <2>1, <2>2 DEF Sent, Unsent, Callers, Idle
  <2>4. ~Busy'
    BY <1>1, <2>1 DEF Busy
  <2>. QED
    BY <2>1, <2>3, <2>4 DEF FramesOK
<1>10. CASE RobotTakes
  BY <1>6, <1>10, TakenFields DEF RobotTakes, netVars, Repeats, Clears, Leaves, Refuses, Accepts
<1>11. CASE RobotProceeds
  <2>1. robot'.last = robot.last /\ (robot'.cmd = robot.cmd \/ robot'.cmd = NoCommand)
        /\ (toRobot' = toRobot \/ toRobot' = <<>>)
    BY <1>11, ProceedsFields DEF Begins, Settles, Ends, netVars
  <2>. QED
    BY <1>6, <2>1
<1>12. CASE RobotFinishes
  BY <1>6, <1>12, FinishesFields DEF RobotFinishes, netVars
<1>13. CASE LegacyStep \/ RobotStops
  <2>1. robot' = [robot EXCEPT !.pc = "off", !.up = FALSE, !.cmd = NoCommand] /\ toRobot' = <<>>
    BY <1>13 DEF LegacyStep, RobotStops
  <2>2. robot'.cmd = NoCommand /\ robot'.last = robot.last
    BY <1>1, <2>1 DEF Programs
  <2>. QED
    BY <1>6, <2>1, <2>2
<1>14. CASE RobotConnects \/ RobotSendsEvent \/ RobotLosesLink
  <2>1. robot'.cmd = robot.cmd /\ robot'.last = robot.last /\ (toRobot' = toRobot \/ toRobot' = <<>>)
    BY <1>1, <1>14 DEF RobotConnects, RobotSendsEvent, RobotLosesLink, Programs
  <2>. QED
    BY <1>6, <2>1
<1>15. CASE CheckLink \/ Operator \/ Connection \/ Telemetry
  <2>1. robot' = robot /\ (toRobot' = toRobot \/ toRobot' = <<>>)
    BY <1>15 DEF CheckLink, Operator, StartMotion, ToggleOutput, RecoverMotion, ReconcileCommand, ClearLatch,
       Bootstrap, ApplyCompletion, Connection, AppHears, AppDisconnects, Break, Restart, Telemetry, netVars
  <2>. QED
    BY <1>6, <2>1
<1>16. ASSUME NEW c \in Callers, Thread(c), ~Transmit(c)
       PROVE  FramesOK'
  <2>1. robot' = robot /\ toRobot' = toRobot
    BY <1>16 DEF Thread, Reserve, ReserveFails, Dispatch, Release, ReleaseLost, Record, Verdict,
       WaitExpires, netVars
  <2>. QED
    BY <1>6, <2>1
<1>. QED
  BY <1>7, <1>8, <1>9, <1>10, <1>11, <1>12, <1>13, <1>14, <1>15, <1>16 DEF Next, Worker, Robot, Callers

-----------------------------------------------------------------------------
(* The theorems.                                                           *)

\* The first layer of the inductive invariant; the safety proofs build on it.
LinkBasics == LinkTyped /\ WireOK /\ CallersOK /\ FramesOK

\* The application, the network and the robot as they start.
LEMMA BasicsInit == Init => LinkBasics
<1>. SUFFICES ASSUME Init PROVE LinkBasics
  OBVIOUS
<1>1. LedgerTyped /\ MotionTyped
  <2>1. NoRow \in Rows
    BY DEF NoRow, Rows
  <2>. QED
    BY <2>1, Numbers DEF Init, LedgerTyped, MotionTyped
<1>2. caller \in [Callers -> Threads]
  BY ThreadsStart DEF Init
<1>3. AppTyped
  <2>1. NoReport \in [code : Codes, fault : Faults, session : Nat] /\ NoManager \in Managers
    BY Numbers DEF NoReport, NoManager, Managers, Codes, Faults
  <2>. QED
    BY <2>1 DEF Init, AppTyped
<1>4. RobotTyped
  <2>1. NoEvent \in [seq : 0..MaxSequence, code : Codes, fault : Faults]
        /\ "idle" \in Codes /\ "none" \in Faults /\ 0 \in 0..MaxSequence /\ 1 \in Nat
    BY Numbers DEF NoEvent, Codes, Faults
  <2>2. Program(0, 1) \in Programs /\ ~Program(0, 1).unsent
    BY <2>1 DEF Program, Programs
  <2>. QED
    BY <2>2 DEF Init, RobotTyped
<1>5. NetTyped /\ ArmTyped
  <2>1. NetTyped
    BY NothingOnTheWay DEF Init, NetTyped
  <2>2. ArmTyped
    BY DEF Init, ArmTyped
  <2>. QED
    BY <2>1, <2>2
<1>6. WireOK /\ FramesOK
  <2>1. robot.pc = "idle" /\ ~robot.up /\ robot.cmd = NoCommand /\ robot.last = 0 /\ ~Busy
    BY DEF Init, Program, Busy, NoCommand
  <2>2. toRobot = <<>> /\ wire = FALSE /\ joined = FALSE /\ lastSeq = 0 /\ \A c \in Callers : ~Unsent(c)
    BY DEF Init, Unsent, Idle
  <2>. QED
    BY <2>1, <2>2 DEF WireOK, FramesOK, Running, Sent
<1>7. CallersOK
  <2>1. \A s \in Seqs : ledger[s].op = "none" /\ ledger[s].move = <<0, 0>>
    BY DEF Init, NoRow
  <2>2. <<0, 0>> \notin Moves
    BY DEF Moves, Motions
  <2>3. \A c \in Callers : caller[c].pc = "free" /\ caller[c].op = "none"
    BY DEF Init, Idle
  <2>. QED
    BY <2>1, <2>2, <2>3 DEF CallersOK, Holds, Keeps, Callers
<1>. QED
  BY <1>1, <1>2, <1>3, <1>4, <1>5, <1>6, <1>7 DEF LinkBasics, LinkTyped, Init

\* Every step keeps them.
LEMMA BasicsStep == LinkBasics /\ [Next]_vars => LinkBasics'
<1>. SUFFICES ASSUME LinkBasics, [Next]_vars PROVE LinkBasics'
  OBVIOUS
<1>1. CASE UNCHANGED vars
  <2>1. UNCHANGED <<lastSeq, ledger, motion, outcome, caller, manager, events, robot, wire, joined,
                    toRobot, toApp, ran, done, faults>>
    BY <1>1 DEF vars, dbVars, motionVars, appVars, netVars, armVars
  <2>2. LinkTyped'
    BY <2>1 DEF LinkBasics, LinkTyped, LedgerTyped, MotionTyped, AppTyped, RobotTyped, NetTyped, ArmTyped
  <2>3. WireOK'
    BY <2>1, WireStays DEF LinkBasics
  <2>4. CallersOK'
    BY <2>1 DEF LinkBasics, CallersOK, Holds, Keeps, Active
  <2>5. FramesOK'
    BY <2>1 DEF LinkBasics, FramesOK, Recorded, Sent, Unsent, Busy
  <2>. QED
    BY <2>2, <2>3, <2>4, <2>5 DEF LinkBasics
<1>2. CASE Next
  <2>1. LinkTyped'
    BY <1>2, ThreadTypes, OperatorTypes, ConnectionTypes, RobotTypes
       DEF LinkBasics, Next, Worker, Callers
  <2>2. WireOK'
    BY <1>2, WireStep DEF LinkBasics
  <2>3. CallersOK'
    BY <1>2, CallersStep DEF LinkBasics
  <2>4. FramesOK'
    BY <1>2, <2>3, FramesStep DEF LinkBasics
  <2>. QED
    BY <2>1, <2>2, <2>3, <2>4 DEF LinkBasics
<1>. QED
  BY <1>1, <1>2

\* The first layer holds in every state.
THEOREM BasicsHold == Spec => []LinkBasics
BY BasicsInit, BasicsStep, PTL DEF Spec

\* Type correctness: in particular the application never counts beyond the
\* sequence space, and a command never carries a sequence outside it.
THEOREM LinkIsTyped == Spec => []LinkTypeOK
<1>1. LinkTyped => LinkTypeOK
  <2>. SUFFICES ASSUME LinkTyped PROVE LinkTypeOK
    OBVIOUS
  <2>1. \A s \in Seqs :
          /\ ledger[s].status \in {"absent", "created", "completed", "completed_link_lost",
                                   "reconciled"} \cup Unresolved
          /\ ledger[s].move \in Moves \cup {<<0, 0>>}
          /\ events[s].code \in {"none", "idle", "running"} \cup Terminal
    BY DEF LinkTyped, LedgerTyped, AppTyped, Rows, Codes
  <2>2. \A c \in Callers : caller[c].seq \in 0..MaxSequence /\ caller[c].step \in 1..Steps
    BY DEF LinkTyped, Threads
  <2>3. robot.last \in 0..MaxSequence /\ robot.cmd \in Commands \cup {NoCommand}
    BY DEF LinkTyped, RobotTyped, Programs
  <2>4. \A i \in DOMAIN toRobot : toRobot[i] \in Commands
    BY DEF LinkTyped, NetTyped
  <2>5. {wire, joined} \subseteq BOOLEAN /\ ran \in [Moves -> Nat] /\ done \subseteq Moves
    BY DEF LinkTyped, NetTyped, ArmTyped
  <2>6. /\ lastSeq \in 0..MaxSequence /\ motion \in 0..MaxMotions
        /\ \A m \in Motions :
             outcome[m] \in {"none", "open", "succeeded", "faulted", "interrupted", "reconciled"}
    BY DEF LinkTyped, LedgerTyped, MotionTyped
  <2>. QED
    BY <2>1, <2>2, <2>3, <2>4, <2>5, <2>6 DEF LinkTypeOK
<1>. QED
  BY <1>1, BasicsHold, PTL DEF LinkBasics

\* A frame on its way and the command in progress are rows of the ledger, and
\* the robot never counts further than the application: no fault, restart or
\* lost release makes the two sides disagree on what was commanded.
THEOREM LedgerIsComplete == Spec => []LedgerKnowsEveryCommand
<1>1. LinkBasics => LedgerKnowsEveryCommand
  <2>. SUFFICES ASSUME LinkBasics PROVE LedgerKnowsEveryCommand
    OBVIOUS
  <2>1. DOMAIN toRobot = 1..Len(toRobot)
    BY DEF LinkBasics, LinkTyped, NetTyped
  <2>. QED
    BY <2>1 DEF LinkBasics, FramesOK, Recorded, Sent, Busy, LedgerKnowsEveryCommand
<1>. QED
  BY <1>1, BasicsHold, PTL

=============================================================================
