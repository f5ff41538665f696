------------------------------ MODULE RunMode ------------------------------
(***************************************************************************)
(* The Run Mode coordinator of src/app/service.py with a physical robot    *)
(* and mill: the settings row it shares with the operator's handlers, the  *)
(* threads that run execute_run_mode and execute_run_mode_recovery, the    *)
(* robot transfer and the mill program they dispatch, and restarts.        *)
(*                                                                         *)
(* A thread's step is one database session of the code, or one call to a   *)
(* controller.  Each session works on the row it loaded: a commit that     *)
(* lost a race is ThreadConflicts, in the pcs whose session commits.       *)
(***************************************************************************)
EXTENDS Naturals, Sequences, FiniteSets, SequencesExt

CONSTANTS Pallets,     \* the pallets of the board
          Threads,     \* coordinator threads that may be alive at one time
          NoPallet, NoThread,
          Elsewhere,   \* places of a pallet besides the pool and the mill
          MaxToken,    \* bound: starts and recoveries of Run Mode
          MaxEdits,    \* bound: edits of the board by operators
          RetryLimit   \* bound: automatic attempts before the operator is asked

ASSUME RunModeAssumption ==
    /\ IsFiniteSet(Pallets) /\ NoPallet \notin Pallets
    /\ {"none", "position", "debug"} \cap Pallets = {}
    /\ NoThread \notin Threads
    /\ MaxToken \in Nat \ {0}
    /\ MaxEdits \in Nat
    /\ RetryLimit \in Nat

VARIABLES
    run,       \* the Run Mode columns of the settings row
    safety,    \* run_mode_safety_confirm
    tokens,    \* how many tokens were handed out; a token is its number
    queue,     \* queued pallets in order
    loc,       \* where the records say each pallet is
    complete,  \* pallets marked complete_parts
    edits,     \* how many edits were made, at most MaxEdits
    motion,    \* the locked robot motion; the thread at "motion" executes it
    mill,      \* the program PathPilot runs, and (history) whether a thread
               \*   began it after its run was over
    co,        \* the coordinator threads
    machined,  \* history: pallets whose program ended normally in this stay
    begun      \* history: runs of a pallet's program by live runs since an
               \*   operator last asked for one

board == <<queue, loc, complete, edits>>
cell  == <<motion, mill>>
seen  == <<machined, begun>>
vars  == <<run, safety, tokens, board, cell, co, seen>>

-----------------------------------------------------------------------------
Legs == {"loading", "machining", "unloading"}
Retries == {"retry_cnc_program", "retry_cnc_preflight", "retry_robot_transfer"}
Strategies == {"retry_robot_only", "reposition_and_retry",
               "rerun_assigned_program", "manual_complete_and_unload"}
LoadedActions == {"unload_then_queue", "run_machine_program"}
Jobs == {"queue", "recovery", "retry_robot_only"} \cup LoadedActions
Recovering(c) == co[c].job \in {"recovery", "retry_robot_only"}
Places == {"pool", "machine"} \cup Elsewhere

\* A thread.  History: how many programs it began after its run was over, and
\* whether the pallet it unloads had its program end normally.
Off == [pc |-> "off", token |-> 0, leg |-> "loading", act |-> "none",
        job |-> "queue", pallet |-> NoPallet, tries |-> 0, cmd |-> "none",
       late |-> 0, earned |-> FALSE]

NoMotion == [status |-> "none", op |-> "load", pallet |-> NoPallet]
IdleMill == [program |-> "none", late |-> FALSE]

\* A queue without a pallet that it holds at most once.
Without(q, p) ==
    IF p \in ToSet(q) THEN RemoveAt(q, CHOOSE i \in DOMAIN q : q[i] = p) ELSE q

InMill == {p \in Pallets : loc[p] = "machine"}
Locked == motion.status # "none"          \* _locked_motion
Alive(c) == co[c].pc # "off"

\* Faulty variant: a token stays valid after Stop.
TokenActive_IgnoresEnabled(c) == run.token = co[c].token
\* _run_mode_token_is_active
TokenActive(c) == run.enabled /\ run.token = co[c].token

\* What every handler that ends or replaces a prompt clears.
NoPrompt(r) == [r EXCEPT !.pending = "", !.asker = NoThread, !.granted = FALSE]

\* The histories of a pallet begin again when it enters or leaves the mill.
NewStay(p) == machined' = machined \ {p} /\ begun' = [begun EXCEPT ![p] = 0]

Becomes(c, thread) == co' = [co EXCEPT ![c] = thread]
Goes(c, to) == Becomes(c, [co[c] EXCEPT !.pc = to, !.act = "none"])
Ends(c) == Becomes(c, Off)
Asks(c, action) ==
    Becomes(c, [co[c] EXCEPT !.pc = "ask", !.act = action, !.cmd = "none"])
\* An exception leaves the workflow for _finish_run_mode.
Fails(c) == Becomes(c, [Off EXCEPT !.pc = "ending", !.token = co[c].token])

\* The states some handler or the watchdog reads; the rest is "working".
Read == {"idle", "idle_waiting_queue", "machining", "manual_robot_pause",
         "telemetry_unavailable", "stopped", "faulted", "interrupted", "complete"}
Shown(state) == IF state \in Read THEN state ELSE "working"
Shows(state) == run' = [run EXCEPT !.state = Shown(state)]

-----------------------------------------------------------------------------
(* The coordinator's threads.                                              *)

\* Faulty variant: one attempt too many.
MayRetry_OneMore(c) == co[c].tries <= RetryLimit
MayRetry(c) == co[c].tries < RetryLimit

\* Faulty variant: the wait for the manual pause does not look at the token.
TokenChecked_NotPause == {"prepare", "loaded", "pick", "ask", "wait", "machine",
                          "cnc", "monitor", "transfer"}
\* The sessions that begin by checking the token: without it the thread returns.
TokenChecked == {"prepare", "loaded", "pick", "ask", "wait", "machine", "cnc",
                 "monitor", "pause", "transfer"}
GivesUp(c) ==
    /\ \/ co[c].pc \in TokenChecked /\ ~TokenActive(c)
       \/ co[c].pc = "wait" /\ run.asker # c
    /\ Ends(c)
    /\ UNCHANGED <<run, safety, tokens, board, cell, seen>>

\* A commit lost to a concurrent edit raises 409 out of the workflow.
Committing == {"prepare", "pick", "ask", "wait", "position", "machine", "cnc",
               "send", "monitor", "finish"}
ThreadConflicts(c) ==
    /\ co[c].pc \in Committing
    /\ co[c].pc \in TokenChecked => TokenActive(c)
    /\ Fails(c)
    /\ UNCHANGED <<run, safety, tokens, board, cell, seen>>

\* _prepare_run_mode
Prepare(c) ==
    /\ co[c].pc = "prepare" /\ TokenActive(c)
    /\ \/ /\ queue # <<>> \/ (InMill # {} /\ run.loaded # "none")
          /\ mill.program = "none"
          /\ Goes(c, "loaded")
          /\ Shows("starting")
       \/ /\ MayRetry(c)
          /\ Becomes(c, [co[c] EXCEPT !.tries = @ + 1])
          /\ Shows("recovering_startup_telemetry")
       \/ Fails(c) /\ UNCHANGED run
    /\ UNCHANGED <<safety, tokens, board, cell, seen>>

\* _run_mode_handle_loaded_machine_pallet
HandleLoaded(c) ==
    /\ co[c].pc = "loaded" /\ TokenActive(c)
    /\ IF run.loaded = "none" \/ InMill = {} THEN Goes(c, "pick")
       ELSE \E p \in InMill :
              LET leg == IF run.loaded = "run_machine_program" THEN "machining"
                                                               ELSE "unloading"
              IN Becomes(c, [co[c] EXCEPT !.pc = "ask", !.leg = leg, !.act = leg,
                                          !.job = run.loaded, !.pallet = p])
    /\ UNCHANGED <<run, safety, tokens, board, cell, seen>>

\* The head of the loop in execute_run_mode
Pick(c) ==
    /\ co[c].pc = "pick" /\ TokenActive(c)
    /\ \/ /\ queue = <<>>
          /\ Shows("idle_waiting_queue")
          /\ Ends(c)
       \/ /\ queue # <<>> /\ loc[Head(queue)] = "pool"
          /\ Shows("preparing")
          /\ Becomes(c, [co[c] EXCEPT !.pc = "ask", !.leg = "loading",
                                      !.act = "loading", !.job = "queue",
                                      !.pallet = Head(queue)])
       \/ /\ queue # <<>> /\ loc[Head(queue)] # "pool"
          /\ Fails(c)
          /\ UNCHANGED run
    /\ UNCHANGED <<safety, tokens, board, cell, seen>>

\* Where an approved action leads.
After(action) ==
    CASE action \in {"loading", "unloading"} -> "position"
      [] action = "machining"                -> "machine"
      [] action = "retry_robot_transfer"     -> "transfer"
      [] OTHER                               -> "cnc"

\* _await_run_mode_action: without confirmation the action is shown and taken.
Ask(c) ==
    /\ co[c].pc = "ask" /\ TokenActive(c)
    /\ IF safety \/ co[c].act \in Retries
       THEN /\ Goes(c, "wait")
            /\ run' = [run EXCEPT !.state = "working",
                         !.pending = co[c].act, !.asker = c, !.granted = FALSE]
       ELSE Goes(c, After(co[c].act)) /\ Shows(co[c].act)
    /\ UNCHANGED <<safety, tokens, board, cell, seen>>

Granted(c) ==
    /\ co[c].pc = "wait" /\ TokenActive(c) /\ run.asker = c /\ run.granted
    /\ run' = [NoPrompt(run) EXCEPT !.state = Shown(run.pending)]
    /\ Goes(c, After(run.pending))
    /\ UNCHANGED <<safety, tokens, board, cell, seen>>

\* The session that shows positioning_mill reads no token.
Position(c) ==
    /\ co[c].pc = "position"
    /\ Shows("positioning_mill")
    /\ Becomes(c, [co[c] EXCEPT !.pc = "cnc", !.tries = 0])
    /\ UNCHANGED <<safety, tokens, board, cell, seen>>

\* The first session of _run_mode_machine_cycle; files may be refused.
Machine(c) ==
    /\ co[c].pc = "machine" /\ TokenActive(c)
    /\ \/ /\ loc[co[c].pallet] = "machine"
          /\ Becomes(c, [co[c] EXCEPT !.pc = "cnc", !.tries = 0])
       \/ Fails(c)
    /\ UNCHANGED <<run, safety, tokens, board, cell, seen>>

\* _run_mode_cnc_cycle up to the dispatch: token, freshness, Idle.
CheckMill(c) ==
    /\ co[c].pc = "cnc" /\ TokenActive(c)
    /\ \/ mill.program = "none" /\ Goes(c, "send") /\ UNCHANGED run
       \/ /\ MayRetry(c)
          /\ Becomes(c, [co[c] EXCEPT !.tries = @ + 1])
          /\ Shows("recovering_cnc_telemetry")
       \/ /\ co[c].tries = RetryLimit
          /\ Asks(c, "retry_cnc_preflight")
          /\ UNCHANGED run
       \/ /\ co[c].leg # "machining"       \* the position program is not current
          /\ Fails(c)
          /\ UNCHANGED run
    /\ UNCHANGED <<safety, tokens, board, cell, seen>>

\* run_linuxcnc_program, as the mill's agent does it too: nothing starts unless
\* PathPilot is Idle, and a start is confirmed only once it was observed; one that
\* is not confirmed, or whose confirmation is lost, may have happened or not.
Launches(starts, confirmed) ==
    (starts => mill.program = "none") /\ (confirmed => starts)

\* The alarm, the reservation of a sequence and the dispatch: no token is read,
\* and a reservation that conflicts is retried on the row as it is now.
Send(c) ==
    LET machining == co[c].leg = "machining"
        owns == run.enabled /\ run.token = co[c].token
    IN /\ co[c].pc = "send"
       /\ \E starts \in BOOLEAN, next \in {"monitor", "ask", "ending"} :
            /\ Launches(starts, next = "monitor")
            /\ IF next = "ending" THEN Fails(c)
               ELSE Becomes(c, [co[c] EXCEPT !.pc = next,
                      !.act = IF next = "ask" THEN "retry_cnc_program" ELSE "none",
                      !.cmd = IF next = "monitor" THEN "running" ELSE "none",
                      !.late = IF starts /\ ~owns THEN @ + 1 ELSE @])
            /\ IF starts
               THEN /\ mill' = [program |-> IF machining THEN co[c].pallet
                                                         ELSE "position",
                                late |-> ~owns]
                    /\ begun' = IF machining /\ owns
                                THEN [begun EXCEPT ![co[c].pallet] = @ + 1] ELSE begun
               ELSE UNCHANGED <<mill, begun>>
       /\ UNCHANGED <<run, safety, tokens, board, motion, machined>>

\* Faulty variant: an outage of the telemetry is taken for Idle.
CycleEnded_Outage(c) == co[c].cmd # "stopped"
\* A terminal event with a fresh completion record, or Idle after a start.
CycleEnded(c) == co[c].cmd = "completed"

\* Faulty variant: a stopped program is sent again without asking.
OnFault_Retries(c) == Goes(c, "cnc")
OnFault(c) == Asks(c, "retry_cnc_program")

\* Where the end of a mill program leads: after a rerun of the assigned program
\* execute_run_mode_recovery goes on without waiting for the manual pause.
AfterCycle(c) ==
    IF co[c].leg # "machining"
    THEN Becomes(c, [co[c] EXCEPT !.pc = "transfer", !.tries = 0, !.cmd = "none"])
    ELSE Becomes(c, [co[c] EXCEPT !.leg = "unloading", !.cmd = "none",
                       !.pc = IF Recovering(c) THEN "position" ELSE "pause"])

\* The observation loop of _run_cnc_cycle and of its supervisor variant
Monitor(c) ==
    /\ co[c].pc = "monitor" /\ TokenActive(c)
    /\ \/ CycleEnded(c) /\ AfterCycle(c) /\ UNCHANGED run
       \/ co[c].cmd = "stopped" /\ OnFault(c) /\ UNCHANGED run
       \/ co[c].cmd = "running" /\ Fails(c) /\ UNCHANGED run   \* timeout
       \/ /\ co[c].cmd = "running"
          /\ run.state # "telemetry_unavailable"
          /\ Shows("telemetry_unavailable") /\ UNCHANGED co
    /\ UNCHANGED <<safety, tokens, board, cell, seen>>

\* _wait_for_manual_robot_pause
PauseWait(c) ==
    /\ co[c].pc = "pause" /\ TokenActive(c) /\ ~run.paused
    /\ Asks(c, "unloading")
    /\ UNCHANGED <<run, safety, tokens, board, cell, seen>>

\* start_mill_pallet_transfer as the coordinator calls it
MayTransfer(c) ==
    /\ ~Locked
    /\ IF co[c].leg = "loading" THEN loc[co[c].pallet] = "pool" /\ InMill = {}
                               ELSE loc[co[c].pallet] = "machine"
\* _run_mode_start_robot_transfer; its commit may lose, like any refusal.
Transfer(c) ==
    /\ co[c].pc = "transfer" /\ TokenActive(c)
    /\ \/ /\ MayTransfer(c)
          /\ motion' = [status |-> "running", pallet |-> co[c].pallet,
                        op |-> IF co[c].leg = "loading" THEN "load" ELSE "unload"]
          /\ Shows(co[c].leg)
          /\ Goes(c, "motion")
       \/ /\ MayRetry(c)
          /\ Shows("recovering_robot_telemetry")
          /\ Becomes(c, [co[c] EXCEPT !.tries = @ + 1])
          /\ UNCHANGED motion
       \/ /\ Shows(co[c].leg)
          /\ Asks(c, "retry_robot_transfer")
          /\ UNCHANGED motion
    /\ UNCHANGED <<safety, tokens, board, mill, seen>>

\* execute_pallet_motion in the coordinator's thread, up to _finish_motion
MotionDone(c) ==
    LET p == motion.pallet
    IN /\ co[c].pc = "motion" /\ motion.status = "running"
       /\ motion' = NoMotion
       /\ IF motion.op = "load"
          THEN /\ loc' = [loc EXCEPT ![p] = "machine"]
               /\ queue' = Without(queue, p)
               /\ NewStay(p)
               /\ Becomes(c, [co[c] EXCEPT !.pc = "ask", !.leg = "machining",
                                           !.act = "machining"])
          ELSE /\ loc' = [loc EXCEPT ![p] = "pool"]
               /\ NewStay(p)
               /\ Becomes(c, [co[c] EXCEPT !.pc = "finish", !.earned = p \in machined])
               /\ UNCHANGED queue
       /\ UNCHANGED <<run, safety, tokens, complete, edits, mill>>

MotionFaults(c) ==
    /\ co[c].pc = "motion" /\ motion.status = "running"
    /\ motion' = [motion EXCEPT !.status = "faulted"]
    /\ Fails(c)
    /\ UNCHANGED <<run, safety, tokens, board, mill, seen>>

\* _run_mode_handle_loaded_machine_pallet ends: the choice of the start is carried out.
LoadedAfter(c) == IF co[c].job \in LoadedActions THEN "none" ELSE run.loaded

\* The session after the unload.  It reads no token; every recovery strategy
\* and every job but "unload_then_queue" marks the pallet complete.
Finish(c) ==
    LET p == co[c].pallet  recovery == Recovering(c)
    IN /\ co[c].pc = "finish"
       /\ complete' = IF co[c].job = "unload_then_queue" THEN complete
                                                         ELSE complete \cup {p}
       /\ IF recovery /\ queue = <<>>
          THEN Fails(c) /\ UNCHANGED run
          ELSE /\ run' = [run EXCEPT !.state = "working",
                             !.loaded = LoadedAfter(c)]
               /\ Becomes(c, [Off EXCEPT !.token = co[c].token, !.late = co[c].late,
                                         !.pc = IF recovery THEN "prepare" ELSE "pick"])
       /\ UNCHANGED <<safety, tokens, queue, loc, edits, cell, seen>>

\* _finish_run_mode: nothing for another token; a commit that conflicts is
\* raised out of the handler, and the thread dies with the run still enabled.
Ending(c) ==
    /\ co[c].pc = "ending"
    /\ Ends(c)
    /\ \/ /\ run.token = co[c].token
          /\ \E state \in {"faulted", "complete"} :
                run' = [NoPrompt(run) EXCEPT !.enabled = FALSE, !.state = state,
                          !.token = 0, !.paused = FALSE, !.loaded = "none"]
       \/ UNCHANGED run
    /\ UNCHANGED <<safety, tokens, board, cell, seen>>

-----------------------------------------------------------------------------
(* The operator's handlers.                                                *)

\* Thread(target=execute_run_mode or execute_run_mode_recovery).start()
Spawn(start) == \E c \in Threads : ~Alive(c) /\ Becomes(c, start)

Ready(p) == loc[p] = "pool" /\ p \notin complete

\* start_run_mode; the page sends a choice exactly when a pallet is in the mill.
Start(loaded, safe) ==
    /\ ~run.enabled /\ ~Locked /\ tokens < MaxToken
    /\ \A p \in ToSet(queue) : Ready(p)
    /\ (InMill # {}) = (loaded # "none")
    /\ InMill # {} /\ loaded = "unload_then_queue" => queue # <<>>
    /\ tokens' = tokens + 1
    /\ safety' = safe
    /\ LET work == queue # <<>> \/ InMill # {}
       IN /\ run' = [NoPrompt(run) EXCEPT !.enabled = TRUE, !.token = tokens + 1,
                       !.paused = FALSE, !.loaded = loaded,
                       !.state = IF work THEN "working"
                                         ELSE "idle_waiting_queue"]
          /\ IF work THEN Spawn([Off EXCEPT !.pc = "prepare", !.token = tokens + 1])
                     ELSE UNCHANGED co
    /\ begun' = IF loaded = "run_machine_program"
                THEN [p \in Pallets |-> IF p \in InMill THEN 0 ELSE begun[p]]
                ELSE begun
    /\ UNCHANGED <<board, cell, machined>>

\* stop_run_mode: the token stays in the row.
Stopped(r) == [NoPrompt(r) EXCEPT !.enabled = FALSE, !.state = "stopped",
                                  !.paused = FALSE, !.loaded = "none"]
Stop ==
    /\ run.enabled
    /\ run' = Stopped(run)
    /\ UNCHANGED <<safety, tokens, board, cell, co, seen>>

\* cancel_run_mode_recovery has no guard; bound: only of a paused or faulted run.
CancelRecovery ==
    /\ run.enabled \/ run.state \in {"faulted", "interrupted"}
    /\ run' = [Stopped(run) EXCEPT !.loaded = run.loaded]
    /\ UNCHANGED <<safety, tokens, board, cell, co, seen>>

\* confirm_run_mode_action; the displayed token is the one in the row.
Approve ==
    /\ run.enabled /\ run.asker # NoThread /\ ~run.granted
    /\ run' = [run EXCEPT !.granted = TRUE, !.state = "working"]
    /\ begun' = IF run.pending = "retry_cnc_program"
                THEN [p \in Pallets |-> IF p \in InMill THEN 0 ELSE begun[p]]
                ELSE begun
    /\ UNCHANGED <<safety, tokens, board, cell, co, machined>>

Decline ==
    /\ run.enabled /\ run.asker # NoThread
    /\ run' = [Stopped(run) EXCEPT !.loaded = run.loaded]
    /\ UNCHANGED <<safety, tokens, board, cell, co, seen>>

ClearStatus ==
    /\ ~run.enabled /\ run.state \in {"faulted", "interrupted"}
    /\ run' = [NoPrompt(run) EXCEPT !.state = "idle"]
    /\ UNCHANGED <<safety, tokens, board, cell, co, seen>>

\* start_run_mode_recovery and the head of execute_run_mode_recovery
StartRecovery(strategy) ==
    /\ ~run.enabled /\ run.state \in {"faulted", "interrupted", "stopped"}
    /\ ~Locked /\ tokens < MaxToken
    /\ tokens' = tokens + 1
    /\ run' = [NoPrompt(run) EXCEPT !.enabled = TRUE, !.token = tokens + 1,
                 !.state = "working"]
    /\ \E p \in InMill :
         /\ Spawn([Off EXCEPT
              !.token = tokens + 1, !.pallet = p,
              !.job = IF strategy = "retry_robot_only" THEN strategy ELSE "recovery",
              !.leg = IF strategy = "rerun_assigned_program" THEN "machining"
                                                             ELSE "unloading",
              !.pc = CASE strategy = "retry_robot_only"       -> "transfer"
                       [] strategy = "rerun_assigned_program" -> "machine"
                       [] OTHER                               -> "position"])
         /\ begun' = IF strategy = "rerun_assigned_program"
                     THEN [begun EXCEPT ![p] = 0] ELSE begun
    /\ UNCHANGED <<safety, board, cell, machined>>

\* pause_run_mode_for_manual_robot_control, called by the watchdog
PauseForManual ==
    /\ run.enabled /\ ~run.paused /\ ~Locked
    /\ run.state \in {"machining", "manual_robot_pause"}
    /\ run' = [run EXCEPT !.paused = TRUE, !.state = "manual_robot_pause"]
    /\ UNCHANGED <<safety, tokens, board, cell, co, seen>>

ResumeManual ==
    /\ run.enabled /\ run.paused /\ ~Locked
    /\ run' = [run EXCEPT !.paused = FALSE, !.state = "working"]
    /\ UNCHANGED <<safety, tokens, board, cell, co, seen>>

\* assert_pallet_manageable_during_run
Manageable(p) == run.enabled => loc[p] # "machine"

\* Faulty variant: an enabled run is taken for an idle one.
Armed_Enabled == run.enabled
Armed == run.enabled /\ run.state = "idle_waiting_queue"

\* resume_armed_run_mode, in the states the commit before it left behind; its
\* own commit may lose and leaves the run armed.
ResumeArmed(q, place, done) ==
    \/ /\ Armed /\ q # <<>>
       /\ \A p \in ToSet(q) : place[p] = "pool" /\ p \notin done
       /\ run' = [run EXCEPT !.state = "working"]
       /\ Spawn([Off EXCEPT !.pc = "prepare", !.token = run.token])
    \/ UNCHANGED <<run, co>>

Edited == edits < MaxEdits /\ edits' = edits + 1

\* queue_pallet, at any position
QueuePallet(p) ==
    /\ Edited
    /\ Manageable(p) /\ motion.pallet # p /\ loc[p] \notin Elsewhere
    /\ \E i \in 1..Len(queue) + 1, convert \in BOOLEAN :
         LET others == Without(queue, p)
             q2 == InsertAt(others, IF i > Len(others) THEN Len(others) + 1 ELSE i, p)
             l2 == [loc EXCEPT ![p] = "pool"]
             c2 == IF convert THEN complete \ {p} ELSE complete
         IN /\ queue' = q2 /\ loc' = l2 /\ complete' = c2
            /\ ResumeArmed(q2, l2, c2)
    /\ IF loc[p] = "machine" THEN NewStay(p) ELSE UNCHANGED seen
    /\ UNCHANGED <<safety, tokens, cell>>

Dequeue(p) ==
    /\ Edited
    /\ p \in ToSet(queue) /\ Manageable(p) /\ motion.pallet # p
    /\ queue' = Without(queue, p)
    /\ UNCHANGED <<run, safety, tokens, loc, complete, cell, co, seen>>

\* update_pallet: the content status an operator sets
UpdatePallet(p) ==
    /\ Edited
    /\ Manageable(p)
    /\ \E done \in {complete \cup {p}, complete \ {p}} :
         complete' = done /\ ResumeArmed(queue, loc, done)
    /\ UNCHANGED <<safety, tokens, queue, loc, cell, seen>>

\* move_pallet between the pool, the mill and the other places, and
\* manually_return_mill_pallet_to_pool
Relocate(p, place) ==
    /\ Edited
    /\ ~Locked /\ Manageable(p) /\ loc[p] # place
    /\ place = "machine" => ~run.enabled /\ InMill = {}
    /\ loc' = [loc EXCEPT ![p] = place]
    /\ queue' = IF place = "machine" THEN Without(queue, p) ELSE queue
    /\ NewStay(p)
    /\ UNCHANGED <<run, safety, tokens, complete, cell, co>>

\* recover_pallet_motion
RecoverMotion(place) ==
    LET p == motion.pallet
    IN /\ motion.status = "faulted"
       /\ place = "machine" => InMill \subseteq {p}
       /\ loc' = [loc EXCEPT ![p] = place]
       /\ motion' = NoMotion
       /\ IF place = loc[p] THEN UNCHANGED seen ELSE NewStay(p)
       /\ UNCHANGED <<run, safety, tokens, queue, complete, edits, mill, co>>

-----------------------------------------------------------------------------
(* The mill and the process.                                               *)

\* The thread that watches the program sees its end.
Observed(end) == [c \in Threads |-> IF co[c].cmd = "running"
                                    THEN [co[c] EXCEPT !.cmd = end] ELSE co[c]]

\* The program ends normally, or with an alarm, an abort or an E-stop.
MillEnds(normal) ==
    /\ mill.program # "none"
    /\ mill' = IdleMill
    /\ machined' = IF normal /\ mill.program \in Pallets
                   THEN machined \cup {mill.program} ELSE machined
    /\ co' = Observed(IF normal THEN "completed" ELSE "stopped")
    /\ UNCHANGED <<run, safety, tokens, board, motion, begun>>

\* An end of a program that its thread has yet to poll; an alarm of a pallet's own
\* program is no end for it, there is no completion record.
Unpolled(c) ==
    co[c].cmd = "completed" \/ (co[c].cmd = "stopped" /\ co[c].leg # "machining")

\* run_debug_mill_program: a program of the debug page, other than the queue's. It
\* looks at neither Run Mode nor the movement. A thread that did not poll in between
\* takes it for the program it watches.
DebugProgram ==
    /\ mill.program = "none"
    /\ mill' = [program |-> "debug", late |-> FALSE]
    /\ \E missed \in SUBSET {c \in Threads : Unpolled(c)} :
         co' = [c \in Threads |-> IF c \in missed
                                  THEN [co[c] EXCEPT !.cmd = "running"] ELSE co[c]]
    /\ UNCHANGED <<run, safety, tokens, board, motion, seen>>

\* abort_linuxcnc_program waits for Idle.
Aborts == mill.program # "none" /\ mill' = IdleMill

\* control_mill("stop"): Run Mode is stopped, then PathPilot aborted.
ControlMillStop ==
    /\ Aborts
    /\ run' = IF run.enabled THEN Stopped(run) ELSE run
    /\ co' = Observed("stopped")
    /\ UNCHANGED <<safety, tokens, board, motion, seen>>

\* interrupt_run_mode and interrupt_active_pallet_motion at the next start
Restart ==
    /\ \E c \in Threads : Alive(c)
    /\ co' = [c \in Threads |-> Off]
    /\ run' = IF run.enabled
              THEN [NoPrompt(run) EXCEPT !.enabled = FALSE, !.state = "interrupted",
                      !.token = 0, !.paused = FALSE, !.loaded = "none"]
              ELSE run
    /\ motion' = IF motion.status = "running"
                 THEN [motion EXCEPT !.status = "faulted"] ELSE motion
    /\ UNCHANGED <<safety, tokens, board, mill, machined, begun>>

-----------------------------------------------------------------------------
Init ==
    /\ run = [enabled |-> FALSE, state |-> "interrupted", token |-> 0, pending |-> "",
              asker |-> NoThread, granted |-> FALSE, paused |-> FALSE,
              loaded |-> "none"]
    /\ safety = TRUE /\ tokens = 0
    /\ queue \in {q \in BoundedSeq(Pallets, Cardinality(Pallets)) : IsInjective(q)}
    /\ loc \in [Pallets -> Places]
    /\ complete \in SUBSET Pallets /\ edits = 0
    /\ Cardinality(InMill) <= 1
    /\ \A p \in ToSet(queue) : loc[p] # "machine" /\ p \notin complete
    /\ motion = NoMotion /\ mill = IdleMill
    /\ co = [c \in Threads |-> Off]
    /\ machined = {} /\ begun = [p \in Pallets |-> 0]

ThreadStep(c) ==
    \/ GivesUp(c) \/ Prepare(c) \/ HandleLoaded(c) \/ Pick(c)
    \/ Ask(c) \/ Granted(c) \/ Position(c) \/ Machine(c) \/ CheckMill(c)
    \/ Send(c) \/ Monitor(c) \/ PauseWait(c) \/ Transfer(c)
    \/ MotionDone(c) \/ MotionFaults(c) \/ Finish(c) \/ Ending(c)

Operator ==
    \/ \E loaded \in LoadedActions \cup {"none"}, safe \in BOOLEAN : Start(loaded, safe)
    \/ \E strategy \in Strategies : StartRecovery(strategy)
    \/ Stop \/ CancelRecovery \/ Approve \/ Decline \/ ClearStatus \/ ResumeManual
    \/ \E p \in Pallets : QueuePallet(p) \/ Dequeue(p) \/ UpdatePallet(p)
    \/ \E p \in Pallets, place \in Places : Relocate(p, place)
    \/ \E place \in Places : RecoverMotion(place)
    \/ ControlMillStop \/ DebugProgram

Next ==
    \/ \E c \in Threads : ThreadStep(c) \/ ThreadConflicts(c)
    \/ Operator
    \/ PauseForManual
    \/ \E normal \in BOOLEAN : MillEnds(normal)
    \/ Restart

\* The threads of a process that keeps running are scheduled.
Spec == Init /\ [][Next]_vars /\ \A c \in Threads : WF_vars(ThreadStep(c))
-----------------------------------------------------------------------------
\* The state is well formed.
RunTypeOK ==
    /\ run.enabled \in BOOLEAN /\ run.paused \in BOOLEAN /\ run.granted \in BOOLEAN
    /\ run.token \in 0..tokens /\ tokens \in 0..MaxToken
    /\ run.asker \in Threads \cup {NoThread}
    /\ run.loaded \in LoadedActions \cup {"none"}
    /\ safety \in BOOLEAN /\ complete \subseteq Pallets /\ machined \subseteq Pallets
    /\ queue \in Seq(Pallets) /\ IsInjective(queue)
    /\ loc \in [Pallets -> Places]
    /\ motion.status \in {"none", "running", "faulted"}
    /\ motion.pallet \in Pallets \cup {NoPallet}
    /\ mill.program \in Pallets \cup {"position", "debug", "none"}
    /\ \A c \in Threads : /\ co[c].token \in 0..tokens
                          /\ co[c].leg \in Legs /\ co[c].job \in Jobs
                          /\ co[c].tries \in 0..RetryLimit
                          /\ co[c].cmd \in {"none", "running", "completed", "stopped"}

\* At most one live thread holds the token of an enabled run, whatever stopped
\* threads are still waiting for their robot when the next run is started
\* (start_run_mode, resume_armed_run_mode).
OneCoordinator ==
    \A c, d \in Threads :
        Alive(c) /\ Alive(d) /\ run.enabled
          /\ co[c].token = run.token /\ co[d].token = run.token => c = d

\* A thread whose run is over begins at most the one program it was about to
\* send, and no robot transfer (stop_run_mode, the checks of the token).
OverIsOver ==
    [][\A c \in Threads :
         /\ co'[c].late <= 1
         /\ co[c].pc # "motion" /\ co'[c].pc = "motion"
              => run.enabled /\ run.token = co[c].token]_vars

\* While the robot moves a pallet in or out of the mill no program of Run Mode is still
\* running, unless the operator chose to move the robot alone or a stopped thread began
\* it. A program of the debug page may run: nothing looks for the robot before it (9807).
ProgramEndsBeforeTransfer ==
    motion.status = "running" /\ mill.program \notin {"none", "debug"}
      => \/ \E c \in Threads : co[c].pc = "motion" /\ co[c].job = "retry_robot_only"
         \/ mill.late

\* A pallet becomes complete when its program ended normally since it was put in
\* the mill, or when an operator's recovery or edit says so.
CompletionIsEarned ==
    [][\A p \in complete' \ complete :
         \/ \E c \in Threads : co[c].pc = "finish" /\ co[c].pallet = p
                              /\ (co[c].earned \/ Recovering(c))
         \/ UpdatePallet(p)]_vars

\* Between two requests of an operator a pallet's program is begun once, and
\* only while that pallet is in the mill.
OneRunPerRequest ==
    [][\A p \in Pallets :
         begun'[p] > begun[p] => begun[p] = 0 /\ loc[p] = "machine"]_vars

\* A thread whose run is over ends.
StoppedThreadEnds ==
    \A c \in Threads : Alive(c) /\ ~TokenActive(c) ~> ~Alive(c)

-----------------------------------------------------------------------------
(* The inductive invariant behind the safety properties.                   *)

States == Read \cup {"working"}
Pcs == {"off", "prepare", "loaded", "pick", "ask", "wait", "position", "machine",
        "cnc", "send", "monitor", "pause", "transfer", "motion", "finish", "ending"}

RunRow == [enabled : BOOLEAN, state : States, token : Nat,
           pending : Legs \cup Retries \cup {""}, asker : Threads \cup {NoThread},
           granted : BOOLEAN, paused : BOOLEAN, loaded : LoadedActions \cup {"none"}]
Coordinators == [pc : Pcs, token : Nat, leg : Legs, act : Legs \cup Retries \cup {"none"},
                 job : Jobs, pallet : Pallets \cup {NoPallet}, tries : 0..RetryLimit,
                 cmd : {"none", "running", "completed", "stopped"}, late : Nat,
                 earned : BOOLEAN]
Motions == [status : {"none", "running", "faulted"}, op : {"load", "unload"},
            pallet : Pallets \cup {NoPallet}]

RunTyped ==
    /\ tokens \in 0..MaxToken /\ edits \in Nat /\ safety \in BOOLEAN
    /\ run \in RunRow /\ co \in [Threads -> Coordinators]
    /\ queue \in Seq(Pallets) /\ IsInjective(queue)
    /\ loc \in [Pallets -> Places] /\ complete \subseteq Pallets
    /\ motion \in Motions
    /\ mill \in [program : Pallets \cup {"position", "debug", "none"}, late : BOOLEAN]
    /\ machined \subseteq Pallets /\ begun \in [Pallets -> Nat]

\* A token is handed out once: one thread works under it, and an armed run has none.
TokensOK ==
    /\ run.token <= tokens /\ (run.enabled => run.token > 0)
    /\ \A c \in Threads : co[c].token <= tokens /\ (Alive(c) => co[c].token > 0)
    /\ \A c, d \in Threads : Alive(c) /\ Alive(d) /\ co[c].token = co[d].token => c = d
    /\ Armed => \A c \in Threads : Alive(c) => co[c].token # run.token

\* A thread that has a pallet in hand, what it is about to be allowed to do, and
\* where in the cycle each leg can be.
Works(c) == co[c].pc \notin {"off", "prepare", "loaded", "pick", "ending"}
Prompted(c) == co[c].pc = "wait" /\ run.asker = c
Wants(c, action) ==
    (co[c].pc = "ask" /\ co[c].act = action) \/ (Prompted(c) /\ run.pending = action)

LegAt(c) ==
    /\ Works(c) => co[c].pallet \in Pallets
    /\ co[c].pc = "ask" => co[c].act # "none"
    /\ Prompted(c) => run.pending # ""
    /\ \A leg \in Legs : Wants(c, leg) => co[c].leg = leg
    /\ Wants(c, "retry_robot_transfer") \/ co[c].pc \in {"position", "transfer", "motion"} =>
         co[c].leg # "machining"
    /\ co[c].pc = "machine" => co[c].leg = "machining"
    /\ co[c].pc = "pause" => co[c].leg = "unloading"
    /\ co[c].cmd # "none" => co[c].pc = "monitor"
LegsOK == \A c \in Threads : LegAt(c)

\* A program that a thread began after its run was over is its last.
LateAt(c) ==
    co[c].late # 0 =>
      co[c].late = 1 /\ co[c].pc \in {"monitor", "ask"} /\ ~TokenActive(c)
LateOK == \A c \in Threads : LateAt(c)

\* The thread whose run is in force, if there is one.
Active(c) == Alive(c) /\ TokenActive(c)

\* The locked motion is one thread's; the run in force does nothing else meanwhile.
MotionAt(c) ==
    /\ co[c].pc = "motion" =>
         /\ motion.status = "running" /\ motion.pallet = co[c].pallet
         /\ motion.op = "load" <=> co[c].leg = "loading"
         /\ run.enabled => run.token = co[c].token
    /\ Locked /\ Active(c) => co[c].pc \in {"motion", "ending"}
MotionOK ==
    /\ \A c \in Threads : MotionAt(c)
    /\ motion.status = "running" => \E c \in Threads : co[c].pc = "motion"
    /\ \A c, d \in Threads : co[c].pc = "motion" /\ co[d].pc = "motion" => c = d
    /\ Locked => ~Armed

\* At most one pallet is in the mill, and it stays while the run in force
\* machines or unloads it.
StayAt(c) ==
    /\ Works(c) /\ co[c].pc # "finish" /\ co[c].leg # "loading"
         /\ (Active(c) \/ co[c].pc = "motion") => loc[co[c].pallet] = "machine"
    /\ co[c].pc = "finish" /\ Active(c) => InMill = {}
StayOK ==
    /\ \A p, q \in InMill : p = q
    /\ motion.status = "running" /\ motion.op = "load" => InMill = {}
    /\ \A c \in Threads : StayAt(c)

\* When the run in force moves the robot, no program runs that it began.
Idling(c) ==
    mill.program \in {"none", "debug"} \/ mill.late \/ co[c].job = "retry_robot_only"
MillAt(c) ==
    /\ co[c].cmd = "running" =>
         mill.program \in {IF co[c].leg = "machining" THEN co[c].pallet ELSE "position", "debug"}
    /\ Active(c) /\ (co[c].cmd = "completed" \/ co[c].pc = "transfer"
                     \/ Wants(c, "retry_robot_transfer")) => Idling(c)
    /\ co[c].pc = "motion" => Idling(c)
MillOK == \A c \in Threads : MillAt(c)

\* A pallet that the queue's cycle unloads was machined since it came in.
Earning(c) == co[c].job \in {"queue", "run_machine_program"}
EarnedAt(c) ==
    /\ Active(c) /\ co[c].leg = "machining"
         /\ (co[c].cmd = "completed" \/ (co[c].cmd = "running" /\ mill.program = "debug")) =>
         co[c].pallet \in machined
    /\ Works(c) /\ co[c].pc # "finish" /\ co[c].leg = "unloading" /\ Earning(c)
         /\ (Active(c) \/ co[c].pc = "motion") => co[c].pallet \in machined
    /\ co[c].pc = "finish" /\ Earning(c) => co[c].earned
EarnedOK == \A c \in Threads : EarnedAt(c)

\* A program that is about to be begun was not begun since it was asked for.
LoadedFresh == run.loaded = "run_machine_program" => \A p \in InMill : begun[p] = 0
Sending(c) ==
    \/ co[c].pc \in {"machine", "cnc", "send"}
    \/ co[c].pc = "ask" /\ co[c].act # "retry_cnc_program"
    \/ Prompted(c) /\ (run.pending # "retry_cnc_program" \/ run.granted)
FreshAt(c) == Active(c) =>
    /\ co[c].pc \in {"prepare", "loaded", "pick"} => LoadedFresh
    /\ co[c].leg = "machining" /\ Sending(c) => begun[co[c].pallet] = 0
FreshOK == (Armed => LoadedFresh) /\ \A c \in Threads : FreshAt(c)

RunInv ==
    /\ RunTyped /\ TokensOK /\ LegsOK /\ LateOK
    /\ MotionOK /\ StayOK /\ MillOK /\ EarnedOK /\ FreshOK
-----------------------------------------------------------------------------
(* What a comment or a text of the page says and the code does not keep.   *)

\* What the text shown with the manual pause promises: "MPS will not start
\* another robot action" until the operator resumes.
NoRobotWhileTaught == run.paused => motion.status # "running"
=============================================================================
