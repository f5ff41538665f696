--------------------------- MODULE MillSupervisor ---------------------------
(***************************************************************************)
(* The persistent mill supervisor: the command ledger and the monitor of   *)
(* app/service.py, the connection manager of app/mill_supervisor.py and    *)
(* the agent that app/mill_supervisor_agent.py runs beside PathPilot.      *)
(*                                                                         *)
(* The agent opens the connection and introduces itself (HELLO) with the   *)
(* sequence and the result it keeps on disk.  A caller reserves the next   *)
(* sequence in the ledger, marks it, sends it and waits for its verdict.   *)
(* Either process may end between any two steps; connections break, and    *)
(* each side finds out by itself.                                          *)
(*                                                                         *)
(* Every machining program has the same name here, so only the signature   *)
(* of the status file tells an old completion record from a new one.       *)
(***************************************************************************)
EXTENDS Integers, Sequences, FiniteSets, SequencesExt

CONSTANTS
  Callers,      \* threads that may use the mill at once
  Ops,          \* what they ask for: "probe", "load" (the load-position
                \* program, without a completion record), "machine"
  MaxSequence,  \* size of the sequence space (2_000_000_000 in the code)
  Links,        \* bound: connections alive at once, 1..n
  MaxTroubles,  \* bound: broken connections, ended processes, programs an
                \* operator runs at PathPilot, bootstraps and activations
  Commissioned  \* start with an activated agent, or with none

ASSUME MillAssumption ==
  /\ IsFiniteSet(Callers)
  /\ Ops \subseteq {"probe", "load", "machine"}
  /\ MaxSequence \in Nat \ {0}
  /\ Links \subseteq Nat \ {0} /\ IsFiniteSet(Links)
  /\ MaxTroubles \in Nat
  /\ Commissioned \in BOOLEAN

VARIABLES
  expected,  \* AppSettings.mill_supervisor_last_sequence
  rows,      \* MillSupervisorCommand, by sequence
  setup,     \* activation flags, the agent's config file, and a change under way
  caller,    \* the threads in _run_cnc_cycle_via_supervisor or the probe
  manager,   \* MillSupervisorManager
  events,    \* its events, by sequence
  link,      \* the connections
  agent,     \* the memory of the agent process
  disk,      \* its state file
  mill,      \* PathPilot: the program it runs and the completion status file
  part,      \* history: what became of each command's program
  troubles   \* bound: how many so far

appVars == <<expected, rows>>
vars == <<appVars, setup, caller, manager, events, link, agent, disk, mill, part, troubles>>

Seqs     == 1..MaxSequence
Verdicts == {"completed", "faulted", "latched"}
Manual   == MaxSequence + 1      \* a program that an operator runs

NoResult == [seq |-> 0, event |-> "none"]
NoRow    == [status |-> "none", op |-> "none"]
Free     == [pc |-> "free", seq |-> 0, op |-> "none", seen |-> FALSE]
Absent   == [Free EXCEPT !.pc = "absent"]
NoManager == [up |-> FALSE, conn |-> 0, seq |-> 0, result |-> NoResult, idle |-> FALSE]
NoEvents == [names |-> {}, verdict |-> "none"]
NoLink   == [up |-> <<>>, down |-> <<>>, server |-> "done", cut |-> TRUE]
NoActive == [seq |-> 0, checked |-> FALSE, before |-> <<0, "none">>]
NoCommand == [seq |-> 0, op |-> "none"]
NoAgent  == [pc |-> "down", link |-> 0, exec |-> FALSE, active |-> NoActive,
             cmd |-> NoCommand]

-----------------------------------------------------------------------------
(* The ledger and its callers.                                             *)

CanRoute ==
  /\ setup.verified
  /\ manager.conn # 0
  /\ manager.seq = expected
  /\ manager.idle

\* The checks before anything is reserved; telemetry may be old by then.
Check(c, op) ==
  /\ caller[c].pc = "free"
  /\ setup.enabled
  /\ CanRoute
  /\ caller' = [caller EXCEPT ![c] = [Free EXCEPT !.pc = "checked", !.op = op]]
  /\ UNCHANGED <<appVars, setup, manager, events, link, agent, disk, mill, part, troubles>>

\* Faulty variant: the last sequence is given out twice over.
SpaceLeft_OneMore == expected <= MaxSequence
SpaceLeft == expected < MaxSequence

\* The reservation is repeated after a conflict, the checks are not.
Reserve(c) ==
  /\ caller[c].pc = "checked"
  /\ IF SpaceLeft
     THEN /\ expected' = expected + 1
          /\ rows' = [rows EXCEPT ![expected + 1] =
                        [status |-> "created", op |-> caller[c].op]]
          /\ caller' = [caller EXCEPT ![c].pc = "created", ![c].seq = expected + 1]
     ELSE /\ caller' = [caller EXCEPT ![c] = Free]
          /\ UNCHANGED appVars
  /\ UNCHANGED <<setup, manager, events, link, agent, disk, mill, part, troubles>>

Mark(c) ==
  /\ caller[c].pc = "created"
  /\ rows' = [rows EXCEPT ![caller[c].seq].status = "dispatching"]
  /\ caller' = [caller EXCEPT ![c].pc = "dispatching"]
  /\ UNCHANGED <<expected, setup, manager, events, link, agent, disk, mill, part, troubles>>

Uncertain(c) ==
  /\ rows' = [rows EXCEPT ![caller[c].seq].status = "uncertain"]
  /\ caller' = [caller EXCEPT ![c] = Free]

\* Faulty variant: the command is sent as soon as it is reserved.
MayTransmit_Unmarked(c) == caller[c].pc \in {"created", "dispatching"}
MayTransmit(c) == caller[c].pc = "dispatching"

\* dispatch(): a frame written to a broken connection is lost, noticed or not.
Transmit(c) ==
  LET k == manager.conn
      frame == [seq |-> caller[c].seq, op |-> caller[c].op]
      Sent  == /\ caller' = [caller EXCEPT ![c].pc = "transmitted"]
               /\ UNCHANGED rows
  IN  /\ MayTransmit(c)
      /\ IF k # 0 /\ ~link[k].cut
         THEN link' = [link EXCEPT ![k].down = Append(@, frame)] /\ Sent
         ELSE /\ Uncertain(c) \/ (k # 0 /\ Sent)
              /\ UNCHANGED link
      /\ UNCHANGED <<expected, setup, manager, events, agent, disk, mill, part, troubles>>

MarkSent(c) ==
  /\ caller[c].pc = "transmitted"
  /\ rows' = [rows EXCEPT ![caller[c].seq].status = "sent"]
  /\ caller' = [caller EXCEPT ![c].pc = "monitoring"]
  /\ UNCHANGED <<expected, setup, manager, events, link, agent, disk, mill, part, troubles>>

\* The history says "running": the row is written once, for the thread's own
\* copy of it does not see what others wrote.  "sent" stands for accepted and
\* running too, "uncertain" for monitoring_released: nothing tells them apart.
Observe(c) ==
  /\ caller[c].pc = "monitoring"
  /\ caller[c].op # "probe"
  /\ "running" \in events[caller[c].seq].names
  /\ events[caller[c].seq].verdict = "none"
  /\ ~caller[c].seen
  /\ rows' = [rows EXCEPT ![caller[c].seq].status = "sent"]
  /\ caller' = [caller EXCEPT ![c].seen = TRUE]
  /\ UNCHANGED <<expected, setup, manager, events, link, agent, disk, mill, part, troubles>>

Conclude(c) ==
  /\ caller[c].pc = "monitoring"
  /\ events[caller[c].seq].verdict # "none"
  /\ rows' = [rows EXCEPT ![caller[c].seq].status = events[caller[c].seq].verdict]
  /\ caller' = [caller EXCEPT ![c] = Free]
  /\ UNCHANGED <<expected, setup, manager, events, link, agent, disk, mill, part, troubles>>

\* Run Mode stopped: PathPilot keeps the program, nobody watches it.
Release(c) ==
  /\ caller[c].pc = "monitoring"
  /\ caller[c].op # "probe"
  /\ Uncertain(c)
  /\ UNCHANGED <<expected, setup, manager, events, link, agent, disk, mill, part, troubles>>

TimesOut(c) ==
  /\ caller[c].pc = "monitoring"
  /\ events[caller[c].seq].verdict = "none"
  /\ Uncertain(c)
  /\ UNCHANGED <<expected, setup, manager, events, link, agent, disk, mill, part, troubles>>

Undecided == {"created", "dispatching", "sent", "uncertain"}

\* mill_supervisor_status applies the latest result to its row.
Poll ==
  LET r == manager.result
  IN  /\ r.seq \in Seqs
      /\ r.event \in Verdicts
      /\ rows[r.seq].status \in Undecided
      /\ rows' = [rows EXCEPT ![r.seq].status = r.event]
      /\ UNCHANGED <<expected, setup, caller, manager, events, link, agent, disk, mill,
                     part, troubles>>

\* Bound: when Run Mode is off, the thread of a stopped run has let go of its
\* command; in the code that takes it two seconds at most.
RunModeOff == \A c \in Callers : caller[c].pc \in {"free", "absent"}

\* operator_completed or operator_faulted: nothing reads which.
Reconcile(s) ==
  /\ RunModeOff
  /\ rows[s].status \in {"latched", "faulted", "uncertain"}
  /\ rows' = [rows EXCEPT ![s].status = "reconciled"]
  /\ UNCHANGED <<expected, setup, caller, manager, events, link, agent, disk, mill,
                 part, troubles>>

-----------------------------------------------------------------------------
(* The connection manager: one worker per connection.                      *)

\* Faulty variant: the connection before is left open.
Superseded_Kept(k) == {}
Superseded(k) == IF manager.conn \in Links \ {k} THEN {manager.conn} ELSE {}

Merged(r) ==
  IF r.seq \in Seqs /\ r.event \in Verdicts /\ r.event \notin events[r.seq].names
  THEN [events EXCEPT ![r.seq] = [names |-> @.names \cup {r.event}, verdict |-> r.event]]
  ELSE events

Activate(k, frame) ==
  /\ manager' = [manager EXCEPT !.conn = k, !.seq = frame.seq, !.result = frame.result]
  /\ events' = Merged(frame.result)
  /\ setup' = [setup EXCEPT !.fresh = setup.want \in {"on", "off"}]
  /\ link' = [j \in Links |->
                IF j = k THEN [link[j] EXCEPT !.up = Tail(@), !.server = "live"]
                ELSE IF j \in Superseded(k) THEN [link[j] EXCEPT !.cut = TRUE]
                ELSE link[j]]

Larger(a, b) == IF a > b THEN a ELSE b

\* Nothing asks whether the connection is still the current one.
Handle(k, frame) ==
  /\ manager' = [manager EXCEPT
       !.seq = Larger(@, frame.seq),
       !.result = IF frame.event \in Verdicts
                  THEN [seq |-> frame.seq, event |-> frame.event] ELSE @]
  /\ events' = [events EXCEPT ![frame.seq] =
       [names   |-> @.names \cup ({frame.event} \ {"accepted"}),
        verdict |-> IF frame.event \in Verdicts THEN frame.event ELSE @.verdict]]
  /\ link' = [link EXCEPT ![k].up = Tail(@)]
  /\ UNCHANGED setup

Serve(k) ==
  /\ link[k].up # <<>>
  /\ \/ link[k].server = "new" /\ Activate(k, Head(link[k].up))
     \/ link[k].server = "live" /\ Handle(k, Head(link[k].up))
  /\ UNCHANGED <<appVars, caller, agent, disk, mill, part, troubles>>

\* The worker finds its connection closed; frames may be unread.
WorkerEnds(k) ==
  /\ link[k].server # "done"
  /\ link[k].cut
  /\ link' = [link EXCEPT ![k].server = "done", ![k].up = <<>>]
  /\ manager' = [manager EXCEPT !.conn = IF @ = k THEN 0 ELSE @]
  /\ UNCHANGED <<appVars, setup, caller, events, agent, disk, mill, part, troubles>>

-----------------------------------------------------------------------------
(* The agent.  Up(fs) puts frames on its connection: a broken one loses    *)
(* them, or the write raises and the agent gives the connection up.        *)

\* Faulty variant: HELLO tells the sequence and not its result.
Hello_NoResult == [kind |-> "hello", seq |-> disk.last, result |-> NoResult]
Hello == [kind |-> "hello", seq |-> disk.last, result |-> disk.result]
Event(s, name) == [kind |-> "event", seq |-> s, event |-> name]

Writes(fs) ==
  link' = IF link[agent.link].cut THEN link
          ELSE [link EXCEPT ![agent.link].up = @ \o fs]

Raises == link[agent.link].cut
Away(a) == [a EXCEPT !.pc = "away", !.link = 0, !.cmd = NoCommand]
Loop(a) == [a EXCEPT !.pc = "loop", !.cmd = NoCommand]
Dropped(k) == IF k = 0 THEN link ELSE [link EXCEPT ![k].cut = TRUE, ![k].down = <<>>]

Connect ==
  /\ agent.pc = "away"
  /\ manager.up
  /\ \E k \in Links :
       /\ link[k].server = "done"
       /\ \A j \in Links : j < k => link[j].server # "done"
       /\ link' = [link EXCEPT ![k] = [up |-> <<Hello>>, down |-> <<>>,
                                       server |-> "new", cut |-> FALSE]]
       /\ agent' = [agent EXCEPT !.pc = "loop", !.link = k]
  /\ UNCHANGED <<appVars, setup, caller, manager, events, disk, mill, part, troubles>>

\* A snapshot; it is not queued behind the events, which only makes the
\* application see the mill's state earlier or later than they do.
Telemetry ==
  LET k == agent.link
  IN  /\ agent.pc = "loop"
      /\ link[k].server = "live" /\ ~link[k].cut
      /\ manager' = [manager EXCEPT !.idle = mill.running = 0]
      /\ UNCHANGED <<appVars, setup, caller, events, link, agent, disk, mill, part, troubles>>

\* completed_status: a fresh record of this program that reached its end.
Proven(a) ==
  /\ mill.file # a.before
  /\ mill.file[1] # Manual
  /\ mill.file[2] = "completed"

\* Faulty variant: an old completion record is good enough.
Outcome_Stale(a) == IF a.checked => mill.file[2] = "completed" THEN "completed" ELSE "latched"
Outcome(a) == IF a.checked => Proven(a) THEN "completed" ELSE "latched"

\* The program is over: the result is on disk before it is told.
SeesIdle ==
  LET a == agent.active
  IN  /\ agent.pc = "loop"
      /\ a.seq # 0
      /\ mill.running = 0
      /\ disk' = [disk EXCEPT !.result = [seq |-> a.seq, event |-> Outcome(a)],
                              !.active = NoActive]
      /\ agent' = [agent EXCEPT !.pc = "telling"]
      /\ UNCHANGED <<appVars, setup, caller, manager, events, link, mill, part, troubles>>

TellsResult ==
  /\ agent.pc = "telling"
  /\ \/ /\ Writes(<<Event(agent.active.seq, disk.result.event)>>)
        /\ agent' = [agent EXCEPT !.pc = "loop", !.active = NoActive]
     \/ /\ Raises
        /\ link' = Dropped(agent.link)
        /\ agent' = Away(agent)
  /\ UNCHANGED <<appVars, setup, caller, manager, events, disk, mill, part, troubles>>

\* Replies, or fails to, and takes the next message.
Replies(fs) ==
  \/ Writes(fs) /\ agent' = Loop(agent)
  \/ Raises /\ link' = Dropped(agent.link) /\ agent' = Away(agent)

\* A command's sequence is on disk before anything is done about it.  The
\* answer to a repeated one is the last result, whatever command that was of.
TakeCommand ==
  LET k == agent.link
      cmd == Head(link[k].down)
  IN  /\ agent.pc = "loop"
      /\ link[k].down # <<>>
      /\ LET taken == [link EXCEPT ![k].down = Tail(@)]
             answer(name) == IF link[k].cut THEN taken
                             ELSE [taken EXCEPT ![k].up = Append(@, Event(cmd.seq, name))]
         IN  IF cmd.seq <= disk.last
             THEN /\ link' = answer(IF cmd.seq = disk.last /\ disk.result.event # "none"
                                    THEN disk.result.event ELSE "latched")
                  /\ UNCHANGED <<agent, disk>>
             ELSE IF ~agent.exec
             THEN /\ link' = answer("latched")
                  /\ disk' = [disk EXCEPT !.last = cmd.seq,
                                          !.result = [seq |-> cmd.seq, event |-> "latched"]]
                  /\ UNCHANGED agent
             ELSE /\ link' = taken
                  /\ disk' = [disk EXCEPT !.last = cmd.seq]
                  /\ agent' = [agent EXCEPT !.pc = "taken", !.cmd = cmd]
      /\ UNCHANGED <<appVars, setup, caller, manager, events, mill, part, troubles>>

Decides(s, event) == disk' = [disk EXCEPT !.last = s, !.result = [seq |-> s, event |-> event]]

Acknowledge ==
  LET s == agent.cmd.seq
  IN  /\ agent.pc = "taken"
      /\ \/ /\ agent.cmd.op = "probe" /\ agent.active.seq = 0
            /\ Decides(s, "completed")
            /\ Replies(<<Event(s, "accepted"), Event(s, "completed")>>)
         \/ /\ agent.active.seq # 0
            /\ Decides(s, "latched")
            /\ Replies(<<Event(s, "latched")>>)
         \/ /\ agent.cmd.op # "probe" /\ agent.active.seq = 0
            /\ UNCHANGED disk
            /\ \/ /\ Writes(<<Event(s, "accepted")>>)
                  /\ agent' = [agent EXCEPT !.pc = "starting"]
               \/ Raises /\ link' = Dropped(agent.link) /\ agent' = Away(agent)
      /\ UNCHANGED <<appVars, setup, caller, manager, events, mill, part, troubles>>

\* start_program begins nothing beside a program that runs, and may begin
\* the program and then raise.
StartProgram ==
  LET s == agent.cmd.seq
      begun == [seq |-> s, checked |-> agent.cmd.op = "machine", before |-> mill.file]
  IN  /\ agent.pc = "starting"
      /\ \/ /\ agent' = [agent EXCEPT !.pc = "failing"]
            /\ UNCHANGED <<mill, part>>
         \/ /\ mill.running = 0
            /\ mill' = [running |-> s,
                        file |-> IF agent.cmd.op = "machine" THEN <<s, "started">>
                                 ELSE mill.file]
            /\ part' = [part EXCEPT ![s] = IF @ = "none" THEN "running" ELSE "twice"]
            /\ \/ agent' = [agent EXCEPT !.pc = "started", !.active = begun]
               \/ agent' = [agent EXCEPT !.pc = "failing"]
      /\ UNCHANGED <<appVars, setup, caller, manager, events, link, disk, troubles>>

KeepActive ==
  /\ agent.pc = "started"
  /\ disk' = [disk EXCEPT !.active = agent.active]
  /\ agent' = [agent EXCEPT !.pc = "recorded"]
  /\ UNCHANGED <<appVars, setup, caller, manager, events, link, mill, part, troubles>>

\* The write of "running" stands inside the same try as the start.
TellsRunning ==
  /\ agent.pc = "recorded"
  /\ \/ /\ Writes(<<Event(agent.cmd.seq, "running")>>)
        /\ agent' = Loop(agent)
     \/ /\ Raises
        /\ agent' = [agent EXCEPT !.pc = "failing"]
        /\ UNCHANGED link
  /\ UNCHANGED <<appVars, setup, caller, manager, events, disk, mill, part, troubles>>

StartFails ==
  /\ agent.pc = "failing"
  /\ Decides(agent.cmd.seq, "faulted")
  /\ Replies(<<Event(agent.cmd.seq, "faulted")>>)
  /\ UNCHANGED <<appVars, setup, caller, manager, events, mill, part, troubles>>

\* recv raises: the connection is gone.
Disconnected ==
  /\ agent.pc = "loop"
  /\ link[agent.link].cut
  /\ link' = Dropped(agent.link)
  /\ agent' = Away(agent)
  /\ UNCHANGED <<appVars, setup, caller, manager, events, disk, mill, part, troubles>>

Started(exec) ==
  [NoAgent EXCEPT !.pc = "away", !.exec = exec, !.active = disk.active]

Routed == setup.enabled /\ setup.verified

\* The watchdog starts the agent only when its process is gone.
Watchdog ==
  /\ Routed
  /\ manager.conn = 0
  /\ agent.pc = "down"
  /\ setup.deployed
  /\ agent' = Started(setup.exec)
  /\ UNCHANGED <<appVars, setup, caller, manager, events, link, disk, mill, part, troubles>>

-----------------------------------------------------------------------------
(* Setup: bootstrap deploys an agent that may only observe, activation     *)
(* redeploys it and waits for it to come back aligned.                     *)

Trouble == troubles < MaxTroubles /\ troubles' = troubles + 1

Deploys(exec) ==
  /\ agent' = Started(exec)
  /\ link' = Dropped(agent.link)

Bootstrap ==
  /\ Trouble
  /\ setup.want = "none"
  /\ RunModeOff
  /\ manager' = [manager EXCEPT !.up = TRUE]
  /\ Deploys(FALSE)
  /\ setup' = [setup EXCEPT !.exec = FALSE, !.deployed = TRUE, !.want = "bootstrap"]
  /\ UNCHANGED <<appVars, caller, events, disk, mill, part>>

Bootstrapped ==
  /\ setup.want = "bootstrap"
  /\ \/ manager.conn # 0 /\ setup' = [setup EXCEPT !.verified = TRUE, !.want = "none"]
     \/ setup' = [setup EXCEPT !.want = "none"]
  /\ UNCHANGED <<appVars, caller, manager, events, link, agent, disk, mill, part, troubles>>

ChangeActivation ==
  /\ Trouble
  /\ setup.want = "none"
  /\ RunModeOff
  /\ manager.conn # 0
  /\ manager.seq = expected
  /\ manager.idle
  /\ \E on \in BOOLEAN :
       /\ on => setup.verified
       /\ Deploys(on)
       /\ setup' = [setup EXCEPT !.exec = on, !.fresh = FALSE,
                                 !.want = IF on THEN "on" ELSE "off"]
  /\ UNCHANGED <<appVars, caller, manager, events, disk, mill, part>>

Activated ==
  /\ setup.want \in {"on", "off"}
  /\ manager.conn # 0
  /\ setup.fresh
  /\ manager.seq = expected
  /\ setup' = [setup EXCEPT !.enabled = setup.want = "on", !.verified = TRUE,
                            !.want = "none", !.fresh = FALSE]
  /\ UNCHANGED <<appVars, caller, manager, events, link, agent, disk, mill, part, troubles>>

ActivationFails ==
  /\ setup.want \in {"on", "off"}
  /\ Deploys(FALSE)
  /\ setup' = [setup EXCEPT !.exec = FALSE, !.enabled = FALSE, !.verified = FALSE,
                            !.want = "none", !.fresh = FALSE]
  /\ UNCHANGED <<appVars, caller, manager, events, disk, mill, part, troubles>>

\* A save of the settings changes the agent's host or port.
EditEndpoint ==
  /\ Trouble
  /\ setup.verified
  /\ setup' = [setup EXCEPT !.verified = FALSE]
  /\ UNCHANGED <<appVars, caller, manager, events, link, agent, disk, mill, part>>

-----------------------------------------------------------------------------
(* PathPilot, and what may go wrong.                                       *)

EndProgram(how) ==
  LET s == mill.running
  IN  /\ s # 0
      /\ mill' = [running |-> 0,
                  file |-> IF how = "finished" /\ mill.file = <<s, "started">>
                           THEN <<s, "completed">> ELSE mill.file]
      /\ part' = IF s \in Seqs THEN [part EXCEPT ![s] = IF @ = "running" THEN how ELSE @]
                 ELSE part
      /\ UNCHANGED <<appVars, setup, caller, manager, events, link, agent, disk, troubles>>

OperatorRuns ==
  /\ Trouble
  /\ mill.running = 0
  /\ mill' = [running |-> Manual, file |-> <<Manual, "started">>]
  /\ UNCHANGED <<appVars, setup, caller, manager, events, link, agent, disk, part>>

Cut(k) ==
  /\ Trouble
  /\ ~link[k].cut
  /\ link' = [link EXCEPT ![k].cut = TRUE]
  /\ UNCHANGED <<appVars, setup, caller, manager, events, agent, disk, mill, part>>

AgentCrash ==
  /\ Trouble
  /\ agent.pc # "down"
  /\ agent' = NoAgent
  /\ link' = Dropped(agent.link)
  /\ UNCHANGED <<appVars, setup, caller, manager, events, disk, mill, part>>

AppRestart ==
  /\ Trouble
  /\ caller' = [c \in Callers |-> IF caller[c] = Absent THEN Absent ELSE Free]
  /\ manager' = [NoManager EXCEPT !.up = Routed]
  /\ events' = [s \in Seqs |-> NoEvents]
  /\ setup' = [setup EXCEPT !.want = "none", !.fresh = FALSE]
  /\ link' = [k \in Links |-> [link[k] EXCEPT !.cut = TRUE, !.server = "done", !.up = <<>>]]
  /\ UNCHANGED <<appVars, agent, disk, mill, part>>

-----------------------------------------------------------------------------
\* Bound: several callers at once without trouble, or one caller with it.
Init ==
  /\ expected = 0
  /\ rows = [s \in Seqs |-> NoRow]
  /\ setup = [enabled |-> Commissioned, verified |-> Commissioned, exec |-> Commissioned,
              deployed |-> Commissioned, want |-> "none", fresh |-> FALSE]
  /\ manager = [NoManager EXCEPT !.up = Commissioned]
  /\ events = [s \in Seqs |-> NoEvents]
  /\ link = [k \in Links |-> NoLink]
  /\ agent = IF Commissioned THEN [NoAgent EXCEPT !.pc = "away", !.exec = TRUE] ELSE NoAgent
  /\ disk = [last |-> 0, result |-> NoResult, active |-> NoActive]
  /\ mill = [running |-> 0, file |-> <<0, "none">>]
  /\ part = [s \in Seqs |-> "none"]
  /\ \/ caller = [c \in Callers |-> Free] /\ troubles = MaxTroubles
     \/ LET first == CHOOSE c \in Callers : TRUE
        IN  /\ caller = [c \in Callers |-> IF c = first THEN Free ELSE Absent]
            /\ troubles = 0

CallerStep(c) ==
  \/ Reserve(c) \/ Mark(c) \/ Transmit(c) \/ MarkSent(c)
  \/ Observe(c) \/ Conclude(c) \/ TimesOut(c)

AgentStep ==
  \/ Connect \/ Telemetry \/ SeesIdle \/ TellsResult \/ TakeCommand
  \/ Acknowledge \/ StartProgram \/ KeepActive \/ TellsRunning \/ StartFails
  \/ Disconnected

Next ==
  \/ \E c \in Callers :
       \/ \E op \in Ops : Check(c, op)
       \/ CallerStep(c) \/ Release(c)
  \/ Poll
  \/ \E s \in Seqs : Reconcile(s)
  \/ \E k \in Links : Serve(k) \/ WorkerEnds(k) \/ Cut(k)
  \/ AgentStep \/ Watchdog
  \/ Bootstrap \/ Bootstrapped \/ ChangeActivation \/ Activated \/ ActivationFails
  \/ EditEndpoint
  \/ \E how \in {"finished", "stopped"} : EndProgram(how)
  \/ OperatorRuns \/ AgentCrash \/ AppRestart

Spec == Init /\ [][Next]_vars

\* Threads, workers and the agent's loop run; PathPilot's programs end; the
\* watchdog looks every five seconds; the page polls, and an operator who is
\* asked to reconcile a command does.  Nobody has to begin a new command.
FairSpec ==
  /\ Spec
  /\ \A c \in Callers : WF_vars(CallerStep(c))
  /\ \A k \in Links : WF_vars(Serve(k)) /\ WF_vars(WorkerEnds(k))
  /\ WF_vars(AgentStep) /\ WF_vars(Watchdog)
  /\ WF_vars(EndProgram("finished"))
  /\ WF_vars(Poll) /\ \A s \in Seqs : WF_vars(Reconcile(s))
  /\ WF_vars(Bootstrapped) /\ WF_vars(ActivationFails)

-----------------------------------------------------------------------------
(* Properties.                                                             *)

Results == [seq : 0..MaxSequence, event : Verdicts \cup {"none"}]
Actives == [seq : 0..MaxSequence, checked : BOOLEAN,
            before : (0..Manual) \X {"none", "started", "completed"}]
Frames  == [kind : {"hello"}, seq : 0..MaxSequence, result : Results]
           \cup [kind : {"event"}, seq : Seqs, event : Verdicts \cup {"accepted", "running"}]
Statuses == Undecided \cup Verdicts \cup {"reconciled"}

\* Every variable keeps its type, no sequence is known to the agent or the
\* manager before the ledger has it (_new_mill_supervisor_command), and the
\* manager's connection is one whose worker is still there.
MillTypeOK ==
  /\ expected \in 0..MaxSequence
  /\ \A s \in Seqs :
       IF s <= expected THEN rows[s] \in [status : Statuses, op : Ops] ELSE rows[s] = NoRow
  /\ \A c \in Callers : caller[c].seq \in 0..expected
  /\ manager.seq \in 0..expected /\ manager.result \in Results
  /\ manager.conn # 0 => manager.conn \in Links /\ link[manager.conn].server = "live"
  /\ disk.last \in 0..expected /\ disk.result \in Results /\ disk.active \in Actives
  /\ agent.active \in Actives /\ agent.cmd.seq \in 0..disk.last
  /\ \A k \in Links :
       /\ \A i \in 1..Len(link[k].up) : link[k].up[i] \in Frames
       /\ \A i \in 1..Len(link[k].down) : link[k].down[i].seq \in 1..expected
  /\ mill.running \in 0..Manual
  /\ part \in [Seqs -> {"none", "running", "finished", "stopped", "twice"}]

\* What the ledger says of a command's program, for the abstract view.
verdict == [s \in Seqs |->
  CASE rows[s].status \in {"none", "created"} -> "absent"
    [] rows[s].status = "completed" /\ rows[s].op = "machine" -> "finished"
    [] rows[s].status = "completed" /\ rows[s].op = "load" -> "ended"
    [] OTHER -> "open"]

Abstract == INSTANCE OneProgramPerCommand WITH Commands <- Seqs, verdict <- verdict

\* Through crashes of both processes, lost frames, late frames of replaced
\* connections and commands that overtake each other, a program is begun at
\* most once, only after its row is durably marked, and "completed" is only
\* said of a program that ended (_dispatch_mill_supervisor_command, main).
ImplementsOneProgramPerCommand == Abstract!SSpec

\* A result the agent wrote down reaches the application, whatever connection
\* or process was lost in between (HELLO carries it, _activate takes it over).
VerdictArrives ==
  \A s \in Seqs :
    (disk.result.seq = s /\ Routed) ~>
      (events[s].verdict # "none" \/ disk.result.seq # s \/ ~Routed)

\* When the agent has taken all that the ledger reserved, the manager comes
\* to know it: a late HELLO or event of a replaced connection does not keep
\* the next dispatch out for good (_serve, _activate, _handle).
AlignmentReturns ==
  (disk.last = expected /\ Routed) ~>
    ((manager.conn # 0 /\ manager.seq = expected) \/ disk.last # expected \/ ~Routed)

-----------------------------------------------------------------------------
(* The inductive invariant behind the refinement.                          *)

Commands == [seq : Seqs, op : Ops]
Hellos   == [kind : {"hello"}, seq : 0..MaxSequence, result : Results]
Reports  == [kind : {"event"}, seq : Seqs, event : Verdicts \cup {"accepted", "running"}]
Files    == (0..Manual) \X {"none", "started", "completed"}
AtWork   == {"loop", "telling", "taken", "starting", "started", "recorded", "failing"}
Handling == {"taken", "starting", "started", "recorded", "failing"}
Held     == {"created", "dispatching", "transmitted", "monitoring"}

Rows     == [status : Statuses \cup {"none"}, op : Ops \cup {"none"}]
Threads  == [pc : Held \cup {"free", "absent", "checked"}, seq : 0..MaxSequence,
             op : Ops \cup {"none"}, seen : BOOLEAN]
Setups   == [enabled : BOOLEAN, verified : BOOLEAN, exec : BOOLEAN, deployed : BOOLEAN,
             want : {"none", "bootstrap", "on", "off"}, fresh : BOOLEAN]
Managers == [up : BOOLEAN, conn : Links \cup {0}, seq : 0..MaxSequence,
             result : Results, idle : BOOLEAN]
Heard    == [names : SUBSET (Verdicts \cup {"running"}), verdict : Verdicts \cup {"none"}]
Wires    == [up : Seq(Hellos \cup Reports), down : Seq(Commands),
             server : {"new", "live", "done"}, cut : BOOLEAN]
Agents   == [pc : AtWork \cup {"down", "away"}, link : Links \cup {0}, exec : BOOLEAN,
             active : Actives, cmd : Commands \cup {NoCommand}]
Disks    == [last : 0..MaxSequence, result : Results, active : Actives]

LedgerTyped ==
  /\ expected \in 0..MaxSequence /\ rows \in [Seqs -> Rows] /\ caller \in [Callers -> Threads]
  /\ \A s \in Seqs : IF s <= expected THEN rows[s].status # "none" /\ rows[s].op # "none"
                                      ELSE rows[s] = NoRow
ManagerTyped == setup \in Setups /\ manager \in Managers /\ events \in [Seqs -> Heard]
LinkTyped == link \in [Links -> Wires]
AgentTyped ==
  /\ agent \in Agents /\ disk \in Disks /\ mill \in [running : 0..Manual, file : Files]
  /\ part \in [Seqs -> {"none", "running", "finished", "stopped"}]
MillTyped == LedgerTyped /\ ManagerTyped /\ LinkTyped /\ AgentTyped

\* A connection begins with one HELLO and ends with nothing left to read.
LinksOK ==
  /\ \A k \in Links :
       /\ link[k].server = "done" => link[k].cut /\ link[k].up = <<>>
       /\ link[k].server = "new" => link[k].up # <<>>
       /\ \A i \in 1..Len(link[k].up) :
            link[k].up[i].kind = "hello" <=> link[k].server = "new" /\ i = 1
  /\ manager.conn # 0 => link[manager.conn].server = "live"
  /\ agent.pc \in AtWork => agent.link # 0

\* The row of a sequence says that something may have been sent.
Marked(s) == s \in Seqs /\ rows[s].status \notin {"none", "created"}
InHand(c) == caller[c].pc \in Held

\* A thread's sequence is its own, and its row is marked before it is sent.
CallersOK ==
  /\ \A c \in Callers :
       IF InHand(c) THEN /\ caller[c].seq \in 1..expected
                         /\ rows[caller[c].seq].op = caller[c].op
                         /\ rows[caller[c].seq].status = "created" <=> caller[c].pc = "created"
                    ELSE /\ caller[c].seq = 0
                         /\ caller[c].pc = "checked" => caller[c].op \in Ops
  /\ \A c, d \in Callers : InHand(c) /\ InHand(d) /\ caller[c].seq = caller[d].seq => c = d

\* Whoever says "completed" of a command says it of a program that ended.
Ended(s) == /\ rows[s].op = "machine" => part[s] = "finished"
            /\ rows[s].op = "load" => part[s] \in {"finished", "stopped"}
Says(s, event) == event # "none" => Marked(s) /\ (event = "completed" => Ended(s))
SaysFrame(f) == IF f.kind = "hello" THEN Says(f.result.seq, f.result.event) ELSE Says(f.seq, f.event)
Sent(s) == s # 0 => Marked(s)

\* A command on its way is marked, and is there once; what comes back is of a
\* command that was sent.
Due(f) == Marked(f.seq) /\ rows[f.seq].op = f.op
WiresOK ==
  /\ \A k \in Links : \A i \in 1..Len(link[k].down) : Due(link[k].down[i])
  /\ \A k \in Links : \A i \in 1..Len(link[k].up) :
       Sent(link[k].up[i].seq) /\ SaysFrame(link[k].up[i])
  /\ \A j, k \in Links : \A i \in 1..Len(link[j].down), n \in 1..Len(link[k].down) :
       link[j].down[i].seq = link[k].down[n].seq => j = k /\ i = n

\* What the agent took is on disk.
TakenOK ==
  /\ Sent(disk.last) /\ Sent(manager.seq)
  /\ agent.pc \in Handling <=> agent.cmd.seq # 0
  /\ agent.cmd.seq # 0 => agent.cmd.seq = disk.last /\ Due(agent.cmd)

\* No command is sent, taken or begun twice.
Transmitted(s) == \E k \in Links : \E i \in 1..Len(link[k].down) : link[k].down[i].seq = s
OnceOK ==
  /\ ~Transmitted(disk.last)
  /\ \A c \in Callers : caller[c].pc \in {"created", "dispatching"} =>
       ~Transmitted(caller[c].seq) /\ disk.last # caller[c].seq
  /\ \A s \in Seqs : part[s] # "none" =>
       s <= disk.last /\ ~(agent.pc \in {"taken", "starting"} /\ s = disk.last)

\* PathPilot runs what "part" says, and a completion record is of a program that
\* reached its end.
RunningOK ==
  /\ \A s \in Seqs : part[s] = "running" <=> mill.running = s
  /\ \A s \in Seqs : mill.file = <<s, "completed">> => part[s] = "finished"

\* The program the agent watches: it was begun, and no other was since but an
\* operator's, so the status file is its own or theirs.
Watched(a) ==
  a.seq # 0 =>
    /\ part[a.seq] # "none" /\ Marked(a.seq)
    /\ rows[a.seq].op = "machine" => a.checked
    /\ a.checked => mill.file[1] \in {a.seq, Manual}
WatchOK ==
  /\ Watched(agent.active) /\ Watched(disk.active)
  /\ agent.pc # "down" => agent.active = disk.active \/ disk.active.seq = 0
  /\ agent.pc = "starting" => agent.active.seq = 0
  /\ agent.pc = "started" => agent.active.seq # 0
  /\ agent.pc = "telling" =>
       /\ agent.active.seq # 0 /\ disk.active.seq = 0
       /\ disk.result.seq = agent.active.seq /\ disk.result.event # "none"

\* The verdicts that are written down.
ClaimsOK ==
  /\ Says(disk.result.seq, disk.result.event)
  /\ Says(manager.result.seq, manager.result.event)
  /\ \A s \in Seqs : Says(s, events[s].verdict)
  /\ \A s \in Seqs : rows[s].status = "completed" => Ended(s)

MillInv ==
  /\ MillTyped /\ LinksOK /\ CallersOK /\ WiresOK /\ TakenOK
  /\ OnceOK /\ RunningOK /\ WatchOK /\ ClaimsOK

-----------------------------------------------------------------------------
(* What a comment or a text of the page says and the code does not keep.   *)

\* The refusal of a dispatch says "The mill supervisor sequence does not match
\* the durable command ledger. Reconcile before dispatch."
ReconcilingRealigns ==
  (manager.conn # 0 /\ manager.seq # expected) ~> (manager.seq = expected)

\* A command that the ledger calls faulted has no program that still runs (README.md:258-260).
FaultedHasStopped == \A s \in Seqs : rows[s].status = "faulted" => part[s] # "running"
=============================================================================
