---------------------------- MODULE RecoveryProofs ----------------------------
(***************************************************************************)
(* Theorems about GuidedRecovery, for every number of requests, answerers, *)
(* watchdogs, sessions and events: types, one session in each active       *)
(* status, and that the ledger's word on a movement agrees with the cell.  *)
(***************************************************************************)
EXTENDS GuidedRecovery, TLAPS

-----------------------------------------------------------------------------
(* Movements and what an operator sees.                                    *)

\* The steps and their ends.
LEMMA Ends ==
  /\ Moving = {"pick_pool", "put_pool", "load_mill", "unload_mill"}
  /\ \A s \in Moving : From[s] \in Places /\ To[s] \in Places /\ s # Align /\ s # "none"
  /\ \A s \in {Align, "bootstrap_restart", "clear_latch", "enter_maintenance", "none"} : s \notin Moving
  /\ \A s \in Moving \cup {Align}, p \in Places : Before(s, p) \in Places /\ After(s, p) \in Places
BY DEF Moving, From, To, Places, Align, Before, After

\* The movements.
LEMMA Movements ==
  /\ Motions = {"pick", "put", "load_mill", "unload_mill"} /\ "none" \notin Motions
  /\ Steps["pick"] = <<"pick_pool">> /\ Steps["put"] = <<"put_pool">>
  /\ Steps["load_mill"] = <<"pick_pool", "load_mill">>
  /\ Steps["unload_mill"] = <<"unload_mill", "put_pool">>
BY DEF Motions, Steps

\* Their first and last steps.
LEMMA FirstAndLast ==
  /\ Head(Steps["pick"]) = "pick_pool" /\ Last(Steps["pick"]) = "pick_pool"
  /\ Head(Steps["put"]) = "put_pool" /\ Last(Steps["put"]) = "put_pool"
  /\ Head(Steps["load_mill"]) = "pick_pool" /\ Last(Steps["load_mill"]) = "load_mill"
  /\ Head(Steps["unload_mill"]) = "unload_mill" /\ Last(Steps["unload_mill"]) = "put_pool"
<1>1. \A a : Head(<<a>>) = a /\ Last(<<a>>) = a
  BY DEF Last
<1>2. \A a, b : Head(<<a, b>>) = a /\ Last(<<a, b>>) = b
  BY DEF Last
<1>. QED
  BY <1>1, <1>2, Movements

\* A movement has one step, or a second that begins where the first ends.
LEMMA StepsOf ==
  ASSUME NEW op \in Motions
  PROVE  /\ Head(Steps[op]) \in Moving /\ Last(Steps[op]) \in Moving
         /\ Head(Steps[op]) # Last(Steps[op]) => To[Head(Steps[op])] = From[Last(Steps[op])]
<1>1. /\ op = "pick" => Head(Steps[op]) = "pick_pool" /\ Last(Steps[op]) = "pick_pool"
      /\ op = "put" => Head(Steps[op]) = "put_pool" /\ Last(Steps[op]) = "put_pool"
      /\ op = "load_mill" => Head(Steps[op]) = "pick_pool" /\ Last(Steps[op]) = "load_mill"
      /\ op = "unload_mill" => Head(Steps[op]) = "unload_mill" /\ Last(Steps[op]) = "put_pool"
  BY FirstAndLast
<1>2. To["pick_pool"] = From["load_mill"] /\ To["unload_mill"] = From["put_pool"]
  BY DEF From, To
<1>. QED
  BY <1>1, <1>2, Movements, Ends

\* What the operator answers is what he saw.
LEMMA SeenIs ==
  ASSUME NEW op, NEW p \in Places
  PROVE  /\ RecordedPlace(Seen(op, p)) = p
         /\ Seen(op, p) \in {"source_pool", "robot_held", "machine", "destination_pool"}
BY DEF Places, RecordedPlace, Seen

\* And the verdict drawn from it is true of either step of the movement.
LEMMA VerdictIsTrue ==
  ASSUME NEW op \in Motions, NEW s \in {Head(Steps[op]), Last(Steps[op])}, NEW p \in {From[s], To[s]}
  PROVE  SupervisorOperationCompleted(s, Seen(op, p)) <=> p = To[s]
<1>1. /\ op = "pick" => s = "pick_pool"
      /\ op = "put" => s = "put_pool"
      /\ op = "load_mill" => s \in {"pick_pool", "load_mill"}
      /\ op = "unload_mill" => s \in {"unload_mill", "put_pool"}
  BY FirstAndLast
<1>. QED
  BY <1>1, Movements DEF SupervisorOperationCompleted, CompletedBy, Seen, From, To

-----------------------------------------------------------------------------
(* Threads.                                                                *)

\* The places of the program a thread can be at.
LEMMA Points ==
  /\ {"idle", "insert", "await_program"} \subseteq Pcs /\ Handling \subseteq Pcs /\ Services \subseteq Pcs
  /\ Bootstrap \subseteq Pcs /\ Later \subseteq Pcs
  /\ {"place", "stop_run", "end_run", "verdict"} \cap Services = {}
  /\ {"place", "stop_run", "end_run", "verdict"} \cap Later = {}
BY DEF Pcs, Handling, Services, Bootstrap, Later

\* A thread at rest, and one that has just read the settings.
LEMMA Fresh ==
  /\ Idle \in Minds /\ Idle.pc = "idle" /\ Idle.fresh = FALSE /\ Idle.orig \in [verified : BOOLEAN, maintenance : BOOLEAN]
  /\ settings \in Trunks => Reading \in Minds /\ Reading.pc = "idle" /\ Reading.chooses = FALSE
<1>1. /\ Idle \in Minds /\ Idle.pc = "idle" /\ Idle.fresh = FALSE /\ Idle.chooses = FALSE
      /\ Idle.orig \in [verified : BOOLEAN, maintenance : BOOLEAN]
  BY Points DEF Idle, Minds, Statuses, Later, Places
<1>2. ASSUME settings \in Trunks
      PROVE  Reading \in Minds /\ Reading.pc = "idle" /\ Reading.chooses = FALSE
  BY <1>1, <1>2 DEF Reading, Minds, Trunks
<1>. QED
  BY <1>1, <1>2

\* A thread that goes on: it keeps what it knows while it handles the operator's answers.
LEMMA OnIs ==
  ASSUME NEW th \in Minds, NEW pc \in Pcs
  PROVE  /\ On(th, pc) \in Minds /\ On(th, pc).pc = pc
         /\ pc \notin Services \cup {"idle"} => /\ On(th, pc) = [th EXCEPT !.pc = pc]
                                                /\ On(th, pc).fresh = th.fresh /\ On(th, pc).chooses = th.chooses
                                                /\ On(th, pc).look = th.look /\ On(th, pc).said = th.said
<1>1. CASE pc = "idle"
  BY <1>1, Fresh DEF On
<1>2. CASE pc # "idle" /\ pc \in Services
  <2>1. On(th, pc) = [th EXCEPT !.pc = pc, !.chooses = FALSE, !.look = "pool", !.handled = FALSE,
                                !.said = "none", !.then = "idle", !.orig = Idle.orig]
    BY <1>2 DEF On
  <2>2. PICK o \in [verified : BOOLEAN, maintenance : BOOLEAN] : o = Idle.orig
    BY Fresh
  <2>3. PICK q \in Minds : q = [th EXCEPT !.pc = pc, !.chooses = FALSE, !.look = "pool", !.handled = FALSE]
    BY DEF Minds, Places
  <2>4. On(th, pc) = [q EXCEPT !.said = "none", !.then = "idle", !.orig = o]
    BY <2>1, <2>2, <2>3
  <2>5. On(th, pc) \in Minds
    BY <2>4 DEF Minds, Later
  <2>. QED
    BY <1>2, <2>1, <2>5 DEF Minds
<1>3. CASE pc # "idle" /\ pc \notin Services
  <2>1. On(th, pc) = [th EXCEPT !.pc = pc]
    BY <1>3 DEF On
  <2>. QED
    BY <1>3, <2>1 DEF Minds
<1>. QED
  BY <1>1, <1>2, <1>3

\* What a thread still knows after a step, it knew before.
Recalls(th, ph) == /\ Looked(ph) => Looked(th) /\ ph.look = th.look
                   /\ Judges(ph) => Judges(th) /\ ph.said = th.said
Recall == \A t \in Threads : Recalls(threads[t], threads'[t])

\* A thread that others overtook, or that is not handling answers, relies on nothing.
LEMMA Relies ==
  /\ \A th, ph : ph.fresh = FALSE \/ ph.pc \notin {"stop_run", "end_run", "place", "verdict"} => Recalls(th, ph)
  /\ \A th : Recalls(th, th)
  /\ \A th, ph : th.pc \in {"stop_run", "end_run"} /\ ph.pc \in {"end_run", "place"}
                 /\ ph.fresh = th.fresh /\ ph.chooses = th.chooses /\ ph.look = th.look => Recalls(th, ph)
<1>1. \A th, ph : ph.fresh = FALSE \/ ph.pc \notin {"stop_run", "end_run", "place", "verdict"} => Recalls(th, ph)
  BY DEF Recalls, Looked, Judges
<1>2. \A th : Recalls(th, th)
  BY Zenon DEF Recalls, Looked, Judges
<1>3. ASSUME NEW th, NEW ph, th.pc \in {"stop_run", "end_run"}, ph.pc \in {"end_run", "place"},
             ph.fresh = th.fresh, ph.chooses = th.chooses, ph.look = th.look
      PROVE  Recalls(th, ph)
  <2>1. ~Judges(ph)
    BY <1>3 DEF Judges
  <2>2. th.pc \in {"stop_run", "end_run", "place"}
    BY <1>3
  <2>3. Looked(ph) => Looked(th) /\ ph.look = th.look
    BY <1>3, <2>2, Zenon DEF Looked
  <2>. QED
    BY <2>1, <2>3 DEF Recalls
<1>. QED
  BY <1>1, <1>2, <1>3

\* A thread whose settings row is out of date.
LEMMA Overtaken ==
  ASSUME NEW th \in Minds
  PROVE  [th EXCEPT !.fresh = FALSE] \in Minds /\ [th EXCEPT !.fresh = FALSE].fresh = FALSE
BY DEF Minds

\* One thread changes.
LEMMA MindIs ==
  ASSUME MindsTyped, NEW t \in Threads, NEW new \in Minds, threads' = [threads EXCEPT ![t] = new]
  PROVE  /\ MindsTyped' /\ threads'[t] = new /\ \A u \in Threads \ {t} : threads'[u] = threads[u]
         /\ Recalls(threads[t], new) => Recall
<1>1. MindsTyped' /\ threads'[t] = new /\ \A u \in Threads \ {t} : threads'[u] = threads[u]
  BY DEF MindsTyped
<1>2. ASSUME Recalls(threads[t], new)
      PROVE  Recall
  BY <1>1, <1>2, Relies DEF Recall
<1>. QED
  BY <1>1, <1>2

\* One thread commits, and the settings row of every other one is out of date.
LEMMA BumpsIs ==
  ASSUME MindsTyped, NEW t \in Threads, NEW new \in Minds, Bumps(t, new)
  PROVE  /\ MindsTyped' /\ threads'[t] = new /\ \A u \in Threads \ {t} : threads'[u].fresh = FALSE
         /\ Recalls(threads[t], new) => Recall
<1>1. /\ threads' = [Others(t) EXCEPT ![t] = new]
      /\ Others(t) = [u \in Threads |-> IF u = t THEN threads[u] ELSE [threads[u] EXCEPT !.fresh = FALSE]]
  BY DEF Bumps, Others
<1>2. \A u \in Threads : [threads[u] EXCEPT !.fresh = FALSE] \in Minds /\ threads[u] \in Minds
  BY Overtaken DEF MindsTyped
<1>3. \A u \in Threads : [threads[u] EXCEPT !.fresh = FALSE].fresh = FALSE
  BY Overtaken DEF MindsTyped
<1>4. MindsTyped' /\ threads'[t] = new
  BY <1>1, <1>2 DEF MindsTyped
<1>5. \A u \in Threads \ {t} : threads'[u] = [threads[u] EXCEPT !.fresh = FALSE]
  BY <1>1
<1>6. \A u \in Threads \ {t} : threads'[u].fresh = FALSE
  BY <1>3, <1>5
<1>7. ASSUME Recalls(threads[t], new)
      PROVE  Recall
  BY <1>4, <1>6, <1>7, Relies DEF Recall
<1>. QED
  BY <1>4, <1>6, <1>7

\* Something commits that is none of these threads.
LEMMA AllStale ==
  ASSUME MindsTyped, BumpedByOthers
  PROVE  MindsTyped' /\ Recall /\ \A u \in Threads : threads'[u].fresh = FALSE
<1>1. threads' = [u \in Threads |-> [threads[u] EXCEPT !.fresh = FALSE]]
  BY DEF BumpedByOthers
<1>2. \A u \in Threads : [threads[u] EXCEPT !.fresh = FALSE] \in Minds
  BY Overtaken DEF MindsTyped
<1>3. \A u \in Threads : [threads[u] EXCEPT !.fresh = FALSE].fresh = FALSE
  BY Overtaken DEF MindsTyped
<1>4. MindsTyped' /\ \A u \in Threads : threads'[u].fresh = FALSE
  BY <1>1, <1>2, <1>3 DEF MindsTyped
<1>. QED
  BY <1>4, Relies DEF Recall

\* A thread goes on.
LEMMA GoesIs ==
  ASSUME MindsTyped, NEW t \in Threads, NEW pc \in Pcs, Goes(t, pc),
         \/ pc \notin {"stop_run", "end_run", "place", "verdict"}
         \/ threads[t].pc \in {"stop_run", "end_run"} /\ pc \in {"end_run", "place"}
  PROVE  MindsTyped' /\ Recall /\ threads'[t].pc = pc
<1>1. threads[t] \in Minds /\ threads' = [threads EXCEPT ![t] = On(threads[t], pc)]
  BY DEF MindsTyped, Goes
<1>2. /\ On(threads[t], pc) \in Minds /\ On(threads[t], pc).pc = pc
  BY <1>1, OnIs
<1>3. Recalls(threads[t], On(threads[t], pc))
  <2>1. CASE pc \notin {"stop_run", "end_run", "place", "verdict"}
    BY <1>2, <2>1, Relies
  <2>2. CASE threads[t].pc \in {"stop_run", "end_run"} /\ pc \in {"end_run", "place"}
    <3>1. pc \notin Services \cup {"idle"}
      BY <2>2, Points
    <3>2. /\ On(threads[t], pc).fresh = threads[t].fresh /\ On(threads[t], pc).chooses = threads[t].chooses
          /\ On(threads[t], pc).look = threads[t].look
      BY <1>1, <3>1, OnIs
    <3>. QED
      BY <1>2, <2>2, <3>2, Relies
  <2>. QED
    BY <2>1, <2>2
<1>. QED
  BY <1>1, <1>2, <1>3, MindIs

\* What the state is.
LEMMA StateIs ==
  ASSUME RecoveryInv
  PROVE  /\ CellTyped /\ RestTyped /\ MindsTyped /\ OneOfEach
         /\ settings \in Trunks /\ mill \in Mills /\ sessions \in [Sessions -> Rows]
         /\ motion \in [op : Motions \cup {"none"}, status : {"none", "active", "faulted"}, restarted : BOOLEAN]
         /\ board \in Places /\ command \in Orders /\ cell \in Cells /\ robot \in Robots
         /\ \A t \in Threads : threads[t] \in Minds
BY DEF RecoveryInv, RecoveryTyped, CellTyped, RestTyped, MindsTyped

\* A step that leaves the movement, the board, the command and the cell alone.
LEMMA CellStays ==
  ASSUME RecoveryInv, UNCHANGED <<motion, board, command, cell>>, robot' \in Robots, robot'.knows => robot.knows
  PROVE  /\ CellTyped' /\ MotionOK' /\ StepOK' /\ VerdictOK'
         /\ Recall => ThreadsOK'
<1>1. /\ CellTyped /\ MotionOK /\ StepOK /\ VerdictOK /\ ThreadsOK
      /\ UNCHANGED <<motion, board, command, cell>>
  BY DEF RecoveryInv, RecoveryTyped
<1>2. CellTyped'
  BY <1>1 DEF CellTyped
<1>3. MotionOK' /\ StepOK' /\ VerdictOK'
  BY <1>1 DEF MotionOK, StepOK, VerdictOK, LockedMotion, Unresolved
<1>4. ASSUME Recall
      PROVE  ThreadsOK'
  <2>1. ASSUME NEW t \in Threads
        PROVE  LookOK(threads[t])'
    <3>1. LookOK(threads[t]) /\ Recalls(threads[t], threads'[t])
      BY <1>1, <1>4 DEF ThreadsOK, Recall
    <3>. QED
      BY <1>1, <3>1 DEF LookOK, Recalls, LockedMotion
  <2>. QED
    BY <2>1 DEF ThreadsOK
<1>. QED
  BY <1>2, <1>3, <1>4

\* And in which no thread learns anything.
LEMMA Routine ==
  ASSUME RecoveryInv, UNCHANGED <<motion, board, command, cell>>, robot' \in Robots, robot'.knows => robot.knows,
         RestTyped', OneOfEach', MindsTyped', Recall
  PROVE  RecoveryInv'
BY CellStays DEF RecoveryInv, RecoveryTyped

\* A step that leaves everything alone but what a thread thinks.
LEMMA Thinks ==
  ASSUME RecoveryInv, UNCHANGED <<settings, motion, board, command, cell, robot, mill, sessions>>, MindsTyped', Recall
  PROVE  RecoveryInv'
<1>1. RestTyped' /\ OneOfEach'
  BY StateIs DEF RestTyped, OneOfEach
<1>. QED
  BY <1>1, StateIs, Routine

\* Passes and Refused.
LEMMA PassesKeeps ==
  ASSUME RecoveryInv, NEW t \in Threads, NEW pc \in Pcs, Passes(t, pc),
         \/ pc \notin {"stop_run", "end_run", "place", "verdict"}
         \/ threads[t].pc \in {"stop_run", "end_run"} /\ pc \in {"end_run", "place"}
  PROVE  RecoveryInv'
<1>1. Goes(t, pc) /\ UNCHANGED <<settings, motion, board, command, cell, robot, mill, sessions>>
  BY DEF Passes
<1>. QED
  BY <1>1, StateIs, GoesIs, Thinks

-----------------------------------------------------------------------------
(* Sessions.                                                               *)

\* What the unique index allows leaves one session in each active status.
LEMMA SessionWritten ==
  ASSUME RestTyped, OneOfEach, NEW s, NEW status, s \in Sessions => status \in Statuses, IndexAllows(s, status),
         sessions' = [sessions EXCEPT ![s].status = status]
  PROVE  sessions' \in [Sessions -> Rows] /\ OneOfEach'
<1>1. sessions \in [Sessions -> Rows]
  BY DEF RestTyped
<1>2. CASE s \notin Sessions
  <2>1. sessions' = sessions
    BY <1>1, <1>2
  <2>. QED
    BY <1>1, <2>1 DEF OneOfEach
<1>3. CASE s \in Sessions
  <2>1. /\ sessions' \in [Sessions -> Rows] /\ sessions'[s].status = status
        /\ \A o \in Sessions \ {s} : sessions'[o] = sessions[o]
    BY <1>1, <1>3 DEF Rows
  <2>2. ASSUME NEW r \in Sessions, NEW o \in Sessions, r # o, sessions'[r].status \in Active
        PROVE  sessions'[r].status # sessions'[o].status
    <3>1. CASE r = s
      BY <2>1, <2>2, <3>1 DEF IndexAllows
    <3>2. CASE o = s
      BY <2>1, <2>2, <3>2 DEF IndexAllows
    <3>3. CASE r # s /\ o # s
      BY <2>1, <2>2, <3>3 DEF OneOfEach
    <3>. QED
      BY <3>1, <3>2, <3>3
  <2>. QED
    BY <2>1, <2>2 DEF OneOfEach
<1>. QED
  BY <1>2, <1>3

\* A thread saves its session and goes on, or is refused and ends.
LEMMA SavesIs ==
  ASSUME RecoveryInv, NEW t \in Threads, NEW status \in Statuses, NEW pc \in {"idle", "services"}, Saves(t, status, pc)
  PROVE  sessions' \in [Sessions -> Rows] /\ OneOfEach' /\ MindsTyped' /\ Recall
<1>1. /\ RestTyped /\ OneOfEach /\ MindsTyped /\ threads[t] \in Minds /\ sessions \in [Sessions -> Rows]
      /\ pc \in Pcs /\ "idle" \in Pcs
  BY StateIs, Points DEF Services
<1>. DEFINE s == threads[t].sid
            written == IF status = threads[t].status THEN sessions[s].status ELSE status
            th == [threads[t] EXCEPT !.status = status]
<1>2. CASE /\ IndexAllows(s, written) /\ sessions' = [sessions EXCEPT ![s].status = written]
           /\ threads' = [threads EXCEPT ![t] = On(th, pc)]
  <2>1. s \in Sessions => written \in Statuses
    BY <1>1 DEF Rows
  <2>2. sessions' \in [Sessions -> Rows] /\ OneOfEach'
    <3>. HIDE DEF s, written
    <3>. QED
      BY <1>1, <1>2, <2>1, SessionWritten
  <2>3. th \in Minds
    BY <1>1 DEF Minds
  <2>4. /\ On(th, pc) \in Minds /\ On(th, pc).pc = pc
    BY <1>1, <2>3, OnIs
  <2>5. Recalls(threads[t], On(th, pc))
    BY <2>4, Relies
  <2>6. MindsTyped' /\ Recall
    <3>. HIDE DEF th
    <3>. QED
      BY <1>1, <1>2, <2>4, <2>5, MindIs
  <2>. QED
    BY <2>2, <2>6
<1>3. CASE UNCHANGED sessions /\ Goes(t, "idle")
  <2>1. MindsTyped' /\ Recall
    BY <1>1, <1>3, GoesIs
  <2>. QED
    BY <1>1, <1>3, <2>1 DEF OneOfEach
<1>. QED
  BY <1>2, <1>3 DEF Saves

\* Which keeps the invariant, beside a change of the settings or none.
LEMMA SavesKeeps ==
  ASSUME RecoveryInv, NEW t \in Threads, NEW status \in Statuses, NEW pc \in {"idle", "services"}, Saves(t, status, pc),
         UNCHANGED <<motion, board, command, cell, robot, mill>>, settings' \in Trunks
  PROVE  RecoveryInv'
<1>1. /\ sessions' \in [Sessions -> Rows] /\ OneOfEach' /\ MindsTyped' /\ Recall
  BY SavesIs
<1>2. RestTyped'
  BY <1>1, StateIs DEF RestTyped
<1>. QED
  BY <1>1, <1>2, StateIs, Routine

\* A status is one of the statuses.
LEMMA StatusNames == {"awaiting_safety", "running", "handoff", "ready", "completed", "cancelled"} \subseteq Statuses
BY DEF Statuses, Active

\* A failure is recorded as a handoff, or logged by the watchdog.
LEMMA RaisesIs ==
  ASSUME RecoveryInv, NEW t \in Threads, Raises(t)
  PROVE  sessions' \in [Sessions -> Rows] /\ OneOfEach' /\ MindsTyped' /\ Recall
<1>1. CASE Goes(t, "idle") /\ UNCHANGED sessions
  <2>1. MindsTyped' /\ Recall
    BY <1>1, StateIs, Points, GoesIs
  <2>. QED
    BY <1>1, <2>1, StateIs DEF OneOfEach
<1>2. CASE Saves(t, "handoff", "idle")
  BY <1>2, StatusNames, SavesIs
<1>. QED
  BY <1>1, <1>2 DEF Raises

\* A session is begun, refused or cancelled.
LEMMA SessionsKeep ==
  ASSUME RecoveryInv,
         \/ \E t \in Requests : StartRecovery(t) \/ InsertSession(t) \/ InsertRefused(t)
         \/ \E s \in Sessions : CancelSession(s)
  PROVE  RecoveryInv'
<1>1. ASSUME NEW t \in Requests, StartRecovery(t) \/ InsertRefused(t)
      PROVE  RecoveryInv'
  <2>1. \E pc \in {"insert", "idle"} :
          Goes(t, pc) /\ UNCHANGED <<settings, motion, board, command, cell, robot, mill, sessions>>
    BY <1>1 DEF StartRecovery, InsertRefused
  <2>2. MindsTyped' /\ Recall
    BY <2>1, StateIs, Points, GoesIs DEF Threads
  <2>. QED
    BY <2>1, <2>2, Thinks
<1>2. ASSUME NEW t \in Requests, InsertSession(t)
      PROVE  RecoveryInv'
  <2>1. /\ IndexAllows(NextId, "awaiting_safety") /\ Goes(t, "idle")
        /\ sessions' = [sessions EXCEPT ![NextId].status = "awaiting_safety"]
        /\ UNCHANGED <<settings, motion, board, command, cell, robot, mill>>
    BY <1>2 DEF InsertSession
  <2>2. PICK s : s = NextId
    OBVIOUS
  <2>3. sessions' \in [Sessions -> Rows] /\ OneOfEach'
    BY <2>1, <2>2, StateIs, StatusNames, SessionWritten
  <2>4. MindsTyped' /\ Recall
    BY <2>1, StateIs, Points, GoesIs DEF Threads
  <2>5. RestTyped'
    BY <2>1, <2>3, StateIs DEF RestTyped
  <2>. QED
    BY <2>1, <2>3, <2>4, <2>5, StateIs, Routine
<1>3. ASSUME NEW s \in Sessions, CancelSession(s)
      PROVE  RecoveryInv'
  <2>1. /\ sessions' = [sessions EXCEPT ![s].status = "cancelled"]
        /\ UNCHANGED <<settings, motion, board, command, cell, robot, mill, threads>>
    BY <1>3 DEF CancelSession
  <2>2. IndexAllows(s, "cancelled")
    BY DEF IndexAllows, Active
  <2>3. sessions' \in [Sessions -> Rows] /\ OneOfEach'
    BY <2>1, <2>2, StateIs, StatusNames, SessionWritten
  <2>4. MindsTyped' /\ Recall
    BY <2>1, StateIs, Relies DEF MindsTyped, Recall
  <2>5. RestTyped'
    BY <2>1, <2>3, StateIs DEF RestTyped
  <2>. QED
    BY <2>1, <2>3, <2>4, <2>5, StateIs, Routine
<1>. QED
  BY <1>1, <1>2, <1>3

-----------------------------------------------------------------------------
(* An answer, and what a request does with it.                             *)

\* An answer closes a session that is ready, and notes a retry.
LEMMA AnswersSession ==
  ASSUME RecoveryInv, NEW s \in Sessions, NEW r \in BOOLEAN,
         sessions' = [sessions EXCEPT ![s].retry = r, ![s].status = IF @ = "ready" THEN "completed" ELSE @]
  PROVE  sessions' \in [Sessions -> Rows] /\ OneOfEach'
<1>1. sessions \in [Sessions -> Rows] /\ OneOfEach /\ "completed" \in Statuses /\ "completed" \notin Active
  BY StateIs, StatusNames DEF Active
<1>2. PICK e \in Statuses : e = IF sessions[s].status = "ready" THEN "completed" ELSE sessions[s].status
  BY <1>1 DEF Rows
<1>3. /\ sessions' \in [Sessions -> Rows] /\ sessions'[s].status = e
      /\ \A o \in Sessions \ {s} : sessions'[o] = sessions[o]
  BY <1>1, <1>2 DEF Rows
<1>4. \A o \in Sessions : sessions'[o].status = sessions[o].status \/ sessions'[o].status \notin Active
  BY <1>1, <1>2, <1>3
<1>5. ASSUME NEW o \in Sessions, NEW q \in Sessions, o # q, sessions'[o].status \in Active
      PROVE  sessions'[o].status # sessions'[q].status
  BY <1>1, <1>4, <1>5 DEF OneOfEach
<1>. QED
  BY <1>3, <1>5 DEF OneOfEach

\* The operator looks at a cell that stands still.
LEMMA AnswerKeeps ==
  ASSUME RecoveryInv, NEW t \in Threads, NEW s \in Sessions, NEW confirms \in BOOLEAN, NEW chooses \in BOOLEAN,
         Answer(t, s, confirms, chooses)
  PROVE  RecoveryInv'
<1>1. /\ cell.doing = "none" /\ sessions[s].status \in Active
      /\ UNCHANGED <<settings, motion, board, command, cell, robot, mill>>
  BY DEF Answer
<1>2. PICK r \in BOOLEAN : r = (sessions[s].retry \/ (sessions[s].status = "handoff" /\ confirms))
  BY StateIs DEF Rows
<1>3. sessions' = [sessions EXCEPT ![s].retry = r, ![s].status = IF @ = "ready" THEN "completed" ELSE @]
  BY <1>2 DEF Answer
<1>4. sessions' \in [Sessions -> Rows] /\ OneOfEach' /\ RestTyped'
  BY <1>1, <1>3, AnswersSession, StateIs DEF RestTyped
<1>5. CASE UNCHANGED threads
  <2>1. MindsTyped' /\ Recall
    BY <1>5, StateIs, Relies DEF MindsTyped, Recall
  <2>. QED
    BY <1>1, <1>4, <2>1, StateIs, Routine
<1>6. CASE threads' = [threads EXCEPT ![t] =
             [Reading EXCEPT !.pc = FirstPc(sessions[s].status), !.sid = s, !.status = sessions[s].status,
                             !.chooses = chooses, !.look = IF chooses THEN cell.at ELSE "pool"]]
  <2>1. PICK p \in Places : p = IF chooses THEN cell.at ELSE "pool"
    BY StateIs DEF Cells, Places
  <2>2. PICK c \in Pcs \ {"verdict"} : c = FirstPc(sessions[s].status)
    BY Points DEF FirstPc, Handling, Services
  <2>3. PICK e \in Statuses : e = sessions[s].status
    BY StateIs DEF Rows
  <2>. DEFINE new == [Reading EXCEPT !.pc = c, !.sid = s, !.status = e, !.chooses = chooses, !.look = p]
  <2>4. threads' = [threads EXCEPT ![t] = new]
    BY <1>6, <2>1, <2>2, <2>3
  <2>5. new \in Minds /\ new.pc = c /\ new.chooses = chooses /\ new.look = p
    BY StateIs, Fresh DEF Minds
  <2>. HIDE DEF new
  <2>6. MindsTyped' /\ threads'[t] = new /\ \A u \in Threads \ {t} : threads'[u] = threads[u]
    BY <2>4, <2>5, StateIs, MindIs
  <2>7. Looked(new) => new.look = cell.at
    BY <2>1, <2>5 DEF Looked
  <2>8. ~Judges(new)
    BY <2>2, <2>5 DEF Judges
  <2>9. ASSUME NEW u \in Threads
        PROVE  LookOK(threads[u])'
    <3>1. CASE u = t
      BY <1>1, <2>6, <2>7, <2>8, <3>1 DEF LookOK
    <3>2. CASE u # t
      <4>1. LookOK(threads[u]) /\ threads'[u] = threads[u]
        BY <2>6, <3>2 DEF RecoveryInv, ThreadsOK
      <4>. QED
        BY <1>1, <4>1 DEF LookOK, LockedMotion
    <3>. QED
      BY <3>1, <3>2
  <2>10. CellTyped' /\ MotionOK' /\ StepOK' /\ VerdictOK'
    BY <1>1, StateIs, CellStays
  <2>. QED
    BY <1>4, <2>6, <2>9, <2>10 DEF RecoveryInv, RecoveryTyped, ThreadsOK
<1>. QED
  BY <1>5, <1>6 DEF Answer

\* A choice that was not made, or is refused.
LEMMA NotChosenKeeps ==
  ASSUME RecoveryInv, NEW t \in Threads, NotChosen(t) \/ Refused(t)
  PROVE  RecoveryInv'
<1>1. CASE NotChosen(t)
  <2>1. /\ Saves(t, threads[t].status, "idle")
        /\ UNCHANGED <<settings, motion, board, command, cell, robot, mill>>
    BY <1>1 DEF NotChosen, Keeps
  <2>2. threads[t].status \in Statuses
    BY StateIs DEF Minds
  <2>3. PICK e \in Statuses : e = threads[t].status
    BY <2>2
  <2>4. Saves(t, e, "idle")
    BY <2>1, <2>3
  <2>. QED
    BY <2>1, <2>4, StateIs, SavesKeeps
<1>2. CASE Refused(t)
  <2>1. Goes(t, "idle") /\ UNCHANGED <<settings, motion, board, command, cell, robot, mill, sessions>>
    BY <1>2 DEF Refused
  <2>. QED
    BY <2>1, StateIs, Points, GoesIs, Thinks
<1>. QED
  BY <1>1, <1>2

\* The run is stopped: the thread that commits goes on to the next question.
LEMMA RunStopped ==
  ASSUME RecoveryInv, NEW t \in Threads, NEW new \in Minds, Bumps(t, new), Recalls(threads[t], new),
         UNCHANGED <<motion, board, command, cell, robot, sessions>>, settings' \in Trunks, mill' \in Mills
  PROVE  RecoveryInv'
<1>1. MindsTyped' /\ Recall
  BY StateIs, BumpsIs
<1>2. RestTyped' /\ OneOfEach'
  BY StateIs DEF RestTyped, OneOfEach
<1>. QED
  BY <1>1, <1>2, StateIs, Routine

\* StopRun keeps the invariant.
LEMMA StopRunKeeps ==
  ASSUME RecoveryInv, NEW t \in Threads, StopRun(t)
  PROVE  RecoveryInv'
<1>1. threads[t].pc = "stop_run" /\ "end_run" \in Pcs
  BY Points DEF StopRun, At, Handling
<1>2. CASE Passes(t, "end_run")
  BY <1>1, <1>2, PassesKeeps
<1>3. CASE NotChosen(t) \/ Refused(t)
  BY <1>3, NotChosenKeeps
<1>4. CASE /\ settings' = [settings EXCEPT !.run = FALSE, !.halted = FALSE]
           /\ Bumps(t, [threads[t] EXCEPT !.pc = "end_run", !.run = FALSE, !.halted = FALSE, !.handled = TRUE])
           /\ UNCHANGED <<motion, board, command, cell, robot, mill, sessions, troubles, starts>>
  <2>1. PICK new \in Minds : new = [threads[t] EXCEPT !.pc = "end_run", !.run = FALSE, !.halted = FALSE, !.handled = TRUE]
    BY <1>1, StateIs DEF Minds
  <2>2. /\ new.pc = "end_run" /\ new.fresh = threads[t].fresh /\ new.chooses = threads[t].chooses
        /\ new.look = threads[t].look
    BY <2>1, StateIs DEF Minds
  <2>3. Recalls(threads[t], new)
    BY <1>1, <2>2, Relies
  <2>4. settings' \in Trunks
    BY <1>4, StateIs DEF Trunks
  <2>. QED
    BY <1>4, <2>1, <2>3, <2>4, StateIs, RunStopped
<1>. QED
  BY <1>2, <1>3, <1>4 DEF StopRun

\* EndRun keeps the invariant.
LEMMA EndRunKeeps ==
  ASSUME RecoveryInv, NEW t \in Threads, EndRun(t)
  PROVE  RecoveryInv'
<1>1. threads[t].pc = "end_run" /\ "place" \in Pcs
  BY Points DEF EndRun, At, Handling
<1>2. CASE Passes(t, "place")
  BY <1>1, <1>2, PassesKeeps
<1>3. CASE Refused(t)
  BY <1>3, NotChosenKeeps
<1>4. CASE /\ settings' = [settings EXCEPT !.run = FALSE, !.halted = FALSE]
           /\ Bumps(t, [threads[t] EXCEPT !.pc = "place", !.run = FALSE, !.halted = FALSE, !.handled = TRUE])
           /\ UNCHANGED <<motion, board, command, cell, robot, mill, sessions, troubles, starts>>
  <2>1. PICK new \in Minds : new = [threads[t] EXCEPT !.pc = "place", !.run = FALSE, !.halted = FALSE, !.handled = TRUE]
    BY <1>1, StateIs DEF Minds
  <2>2. /\ new.pc = "place" /\ new.fresh = threads[t].fresh /\ new.chooses = threads[t].chooses
        /\ new.look = threads[t].look
    BY <2>1, StateIs DEF Minds
  <2>3. Recalls(threads[t], new)
    BY <1>1, <2>2, Relies
  <2>4. settings' \in Trunks
    BY <1>4, StateIs DEF Trunks
  <2>. QED
    BY <1>4, <2>1, <2>3, <2>4, StateIs, RunStopped
<1>. QED
  BY <1>2, <1>3, <1>4 DEF EndRun

\* MillCommand keeps the invariant.
LEMMA MillCommandKeeps ==
  ASSUME RecoveryInv, NEW t \in Threads, MillCommand(t)
  PROVE  RecoveryInv'
<1>1. "decide" \in Pcs /\ "idle" \in Pcs
  BY Points DEF Handling
<1>2. CASE Passes(t, "decide") \/ Passes(t, "idle")
  BY <1>1, <1>2, PassesKeeps
<1>3. CASE NotChosen(t) \/ Refused(t)
  BY <1>3, NotChosenKeeps
<1>4. CASE /\ mill' = [mill EXCEPT !.pending = FALSE]
           /\ Bumps(t, [threads[t] EXCEPT !.pc = "decide", !.handled = TRUE])
           /\ UNCHANGED <<settings, motion, board, command, cell, robot, sessions, troubles, starts>>
  <2>1. PICK new \in Minds : new = [threads[t] EXCEPT !.pc = "decide", !.handled = TRUE]
    BY <1>1, StateIs DEF Minds
  <2>2. new.pc = "decide"
    BY <2>1, StateIs DEF Minds
  <2>3. Recalls(threads[t], new) /\ mill' \in Mills
    BY <1>4, <2>2, Relies, StateIs DEF Mills
  <2>. QED
    BY <1>4, <2>1, <2>3, StateIs, RunStopped
<1>. QED
  BY <1>2, <1>3, <1>4 DEF MillCommand

\* The request saves the session's next status, or goes on without.
LEMMA SavingKeeps ==
  ASSUME RecoveryInv, NEW t \in Threads, Safety(t) \/ Decide(t) \/ Finish(t)
  PROVE  RecoveryInv'
<1>1. CASE Safety(t)
  <2>1. /\ Saves(t, "handoff", "idle") \/ Saves(t, "running", "services")
        /\ UNCHANGED <<settings, motion, board, command, cell, robot, mill>>
    BY <1>1 DEF Safety
  <2>. QED
    BY <2>1, StatusNames, StateIs, SavesKeeps
<1>2. CASE Decide(t)
  <2>1. /\ (Goes(t, "idle") /\ UNCHANGED sessions) \/ Saves(t, "running", "services")
        /\ UNCHANGED <<settings, motion, board, command, cell, robot, mill>>
    BY <1>2 DEF Decide
  <2>2. CASE Goes(t, "idle") /\ UNCHANGED sessions
    BY <2>1, <2>2, StateIs, Points, GoesIs, Thinks
  <2>3. CASE Saves(t, "running", "services")
    BY <2>1, <2>3, StatusNames, StateIs, SavesKeeps
  <2>. QED
    BY <2>1, <2>2, <2>3
<1>3. CASE Finish(t)
  <2>1. /\ Saves(t, "ready", "idle")
        /\ UNCHANGED <<settings, motion, board, command, cell, robot, mill>>
    BY <1>3 DEF Finish
  <2>. QED
    BY <2>1, StatusNames, StateIs, SavesKeeps
<1>. QED
  BY <1>1, <1>2, <1>3

-----------------------------------------------------------------------------
(* Steps of the services, of a bootstrap and of the devices that leave the *)
(* movement, the board, the command and the cell alone.                    *)

\* A thread goes on, committing or not, to a place where it relies on nothing it saw.
LEMMA TurnsTo ==
  ASSUME RecoveryInv, NEW t \in Threads, NEW new \in Minds,
         threads' = [threads EXCEPT ![t] = new] \/ Bumps(t, new),
         new.pc \notin {"stop_run", "end_run", "place", "verdict"},
         UNCHANGED <<motion, board, command, cell>>, robot' \in Robots, robot'.knows => robot.knows,
         RestTyped', OneOfEach'
  PROVE  RecoveryInv'
<1>1. MindsTyped /\ Recalls(threads[t], new)
  BY StateIs, Relies
<1>2. MindsTyped' /\ Recall
  <2>1. CASE threads' = [threads EXCEPT ![t] = new]
    BY <1>1, <2>1, MindIs
  <2>2. CASE Bumps(t, new)
    BY <1>1, <2>2, BumpsIs
  <2>. QED
    BY <2>1, <2>2
<1>. QED
  BY <1>2, Routine

\* The same, with nothing else changed but the settings or the mill.
LEMMA TurnsAlone ==
  ASSUME RecoveryInv, NEW t \in Threads, NEW new \in Minds,
         threads' = [threads EXCEPT ![t] = new] \/ Bumps(t, new),
         new.pc \notin {"stop_run", "end_run", "place", "verdict"},
         UNCHANGED <<motion, board, command, cell, robot, sessions>>, settings' \in Trunks, mill' \in Mills
  PROVE  RecoveryInv'
<1>1. RestTyped' /\ OneOfEach' /\ robot' \in Robots /\ robot'.knows = robot.knows
  BY StateIs DEF RestTyped, OneOfEach
<1>. QED
  BY <1>1, TurnsTo

\* Deferred and BootsFor.
LEMMA DefersOrBoots ==
  ASSUME RecoveryInv, NEW t \in Threads,
         \/ \E pc \in {"mill_link", "judge"} : Deferred(t, pc)
         \/ \E then \in Later : BootsFor(t, then)
  PROVE  RecoveryInv'
<1>1. threads[t] \in Minds /\ threads \in [Threads -> Minds]
  BY StateIs DEF MindsTyped
<1>2. ASSUME NEW pc \in {"mill_link", "judge"}, Deferred(t, pc)
      PROVE  RecoveryInv'
  <2>1. PICK new \in Minds : new = [threads[t] EXCEPT !.pc = pc, !.deferred = TRUE]
    BY <1>1, Points DEF Minds, Services
  <2>2. threads' = [threads EXCEPT ![t] = new] /\ new.pc = pc
    BY <1>1, <1>2, <2>1 DEF Deferred, Minds
  <2>. QED
    BY <1>2, <2>2, StateIs, TurnsAlone DEF Deferred
<1>3. ASSUME NEW then \in Later, BootsFor(t, then)
      PROVE  RecoveryInv'
  <2>1. PICK new \in Minds : new = [threads[t] EXCEPT !.pc = "mark", !.then = then]
    BY <1>1, Points DEF Minds, Bootstrap
  <2>2. threads' = [threads EXCEPT ![t] = new] /\ new.pc = "mark"
    BY <1>1, <1>3, <2>1 DEF BootsFor, Minds
  <2>. QED
    BY <1>3, <2>2, StateIs, TurnsAlone DEF BootsFor
<1>. QED
  BY <1>2, <1>3

\* A failed bootstrap.
LEMMA BootFailsIs ==
  ASSUME RecoveryInv, NEW t \in Threads, BootFails(t)
  PROVE  sessions' \in [Sessions -> Rows] /\ OneOfEach' /\ MindsTyped' /\ Recall
<1>1. CASE Raises(t)
  BY <1>1, RaisesIs
<1>2. CASE /\ UNCHANGED sessions
           /\ threads' = [threads EXCEPT ![t] = On([@ EXCEPT !.deferred = threads[t].then # "idle"], threads[t].then)]
  <2>1. threads[t] \in Minds /\ threads[t].then \in Later /\ MindsTyped
    BY StateIs DEF Minds
  <2>2. PICK d \in BOOLEAN : d = (threads[t].then # "idle")
    OBVIOUS
  <2>3. PICK th \in Minds : th = [threads[t] EXCEPT !.deferred = d]
    BY <2>1 DEF Minds
  <2>4. PICK pc \in Later : pc = threads[t].then
    BY <2>1
  <2>5. threads' = [threads EXCEPT ![t] = On(th, pc)]
    BY <1>2, <2>2, <2>3, <2>4
  <2>6. On(th, pc) \in Minds /\ On(th, pc).pc = pc
    BY Points, OnIs
  <2>7. Recalls(threads[t], On(th, pc))
    BY <2>6, Points, Relies
  <2>8. MindsTyped' /\ Recall
    BY <2>1, <2>5, <2>6, <2>7, MindIs
  <2>. QED
    BY <1>2, <2>8, StateIs DEF OneOfEach
<1>. QED
  BY <1>1, <1>2 DEF BootFails

\* A failure, beside a change of the settings or none.
LEMMA FailsKeeps ==
  ASSUME RecoveryInv, NEW t \in Threads, Raises(t) \/ BootFails(t),
         UNCHANGED <<motion, board, command, cell, robot, mill>>, settings' \in Trunks
  PROVE  RecoveryInv'
<1>1. sessions' \in [Sessions -> Rows] /\ OneOfEach' /\ MindsTyped' /\ Recall
  BY RaisesIs, BootFailsIs
<1>2. RestTyped'
  BY <1>1, StateIs DEF RestTyped
<1>. QED
  BY <1>1, <1>2, StateIs, Routine

\* The service steps of a thread.
LEMMA ServicesKeep ==
  ASSUME RecoveryInv, NEW t \in Threads, BeginServices(t) \/ Judge(t) \/ Rebuild(t) \/ MillProgram(t)
  PROVE  RecoveryInv'
<1>1. threads[t] \in Minds /\ threads \in [Threads -> Minds] /\ "handoff" \in Statuses
  BY StateIs, StatusNames DEF MindsTyped
<1>2. CASE BeginServices(t)
  <2>1. UNCHANGED <<settings, motion, board, command, cell, robot, mill>>
    BY <1>2 DEF BeginServices
  <2>2. CASE Saves(t, "handoff", "idle")
    BY <1>1, <2>1, <2>2, StateIs, SavesKeeps
  <2>3. CASE /\ threads' = [threads EXCEPT ![t].pc = "robot_link", ![t].calm = ~threads[t].run /\ ~ActiveMotion]
             /\ UNCHANGED sessions
    <3>1. PICK c \in BOOLEAN : c = (~threads[t].run /\ ~ActiveMotion)
      OBVIOUS
    <3>2. PICK new \in Minds : new = [threads[t] EXCEPT !.pc = "robot_link", !.calm = c]
      BY <1>1, Points DEF Minds, Services
    <3>3. threads' = [threads EXCEPT ![t] = new] /\ new.pc = "robot_link"
      BY <1>1, <2>3, <3>1, <3>2 DEF Minds
    <3>. QED
      BY <2>1, <2>3, <3>3, StateIs, TurnsAlone
  <2>. QED
    BY <1>2, <2>2, <2>3 DEF BeginServices
<1>3. CASE Judge(t)
  <2>1. UNCHANGED <<settings, motion, board, command, cell, robot, mill>>
    BY <1>3 DEF Judge
  <2>2. CASE Saves(t, "handoff", "idle")
    BY <1>1, <2>1, <2>2, StateIs, SavesKeeps
  <2>3. CASE UNCHANGED sessions /\ (Goes(t, "idle") \/ Goes(t, "rebuild"))
    <3>1. MindsTyped' /\ Recall
      BY <1>1, <2>3, StateIs, Points, GoesIs DEF Services
    <3>. QED
      BY <2>1, <2>3, <3>1, Thinks
  <2>. QED
    BY <1>3, <2>2, <2>3 DEF Judge
<1>4. CASE Rebuild(t)
  <2>1. CASE BootsFor(t, "mill_program")
    BY <2>1, DefersOrBoots DEF Later
  <2>2. CASE Raises(t) /\ UNCHANGED <<settings, motion, board, command, cell, robot, mill, troubles, starts>>
    BY <2>2, StateIs, FailsKeeps
  <2>. QED
    BY <1>4, <2>1, <2>2 DEF Rebuild
<1>5. CASE MillProgram(t)
  BY <1>5, Points, PassesKeeps DEF MillProgram, Services
<1>. QED
  BY <1>2, <1>3, <1>4, <1>5

\* RobotLink and RobotWait keep the invariant.
LEMMA RobotServiceKeeps ==
  ASSUME RecoveryInv, NEW t \in Threads, RobotLink(t) \/ RobotWait(t)
  PROVE  RecoveryInv'
<1>1. threads[t] \in Minds /\ robot \in Robots /\ settings \in Trunks /\ mill \in Mills
  BY StateIs
<1>2. CASE RobotLink(t)
  <2>1. /\ Goes(t, "robot_wait") /\ robot' \in {ListenerRestarted, robot}
        /\ UNCHANGED <<settings, motion, board, command, cell, mill, sessions>>
    BY <1>2 DEF RobotLink
  <2>2. robot' \in Robots /\ robot'.knows = robot.knows
    BY <1>1, <2>1 DEF ListenerRestarted, Robots, Links
  <2>3. MindsTyped' /\ Recall
    BY <2>1, StateIs, Points, GoesIs DEF Services
  <2>4. RestTyped' /\ OneOfEach'
    BY <2>1, StateIs DEF RestTyped, OneOfEach
  <2>. QED
    BY <2>1, <2>2, <2>3, <2>4, Routine
<1>3. CASE Passes(t, "mill_link")
  BY <1>3, Points, PassesKeeps DEF Services
<1>4. CASE Deferred(t, "mill_link") \/ BootsFor(t, "mill_link")
  BY <1>4, DefersOrBoots DEF Later
<1>5. CASE /\ settings' = [settings EXCEPT !.verified = TRUE]
           /\ Bumps(t, [threads[t] EXCEPT !.pc = "mill_link"]) /\ UNCHANGED sessions
           /\ UNCHANGED <<motion, board, command, cell, robot, mill, troubles, starts>>
  <2>1. PICK new \in Minds : new = [threads[t] EXCEPT !.pc = "mill_link"]
    BY <1>1, Points DEF Minds, Services
  <2>2. new.pc = "mill_link" /\ settings' \in Trunks
    BY <1>1, <1>5, <2>1 DEF Minds, Trunks
  <2>. QED
    BY <1>1, <1>5, <2>1, <2>2, TurnsAlone
<1>6. CASE UNCHANGED settings /\ Raises(t) /\ UNCHANGED <<motion, board, command, cell, robot, mill, troubles, starts>>
  BY <1>1, <1>6, FailsKeeps
<1>7. CASE RobotWait(t)
  BY <1>3, <1>4, <1>5, <1>6, <1>7 DEF RobotWait, VerifiedRobot, UnverifiedRobot
<1>. QED
  BY <1>2, <1>7

\* MillLink keeps the invariant.
LEMMA MillLinkKeeps ==
  ASSUME RecoveryInv, NEW t \in Threads, MillLink(t)
  PROVE  RecoveryInv'
<1>1. threads[t] \in Minds /\ threads \in [Threads -> Minds] /\ mill \in Mills /\ settings \in Trunks
  BY StateIs DEF MindsTyped
<1>2. CASE Passes(t, "judge")
  BY <1>2, Points, PassesKeeps DEF Services
<1>3. CASE Deferred(t, "judge")
  BY <1>3, DefersOrBoots
<1>4. ASSUME NEW handshake \in BOOLEAN,
             mill' = [mill EXCEPT !.link = "live", !.verified = handshake],
             \/ Bumps(t, [threads[t] EXCEPT !.pc = "judge", !.deferred = @ \/ ~handshake])
             \/ threads' = [threads EXCEPT ![t].pc = "judge", ![t].deferred = TRUE],
             UNCHANGED <<settings, motion, board, command, cell, robot, sessions>>
      PROVE  RecoveryInv'
  <2>1. mill' \in Mills
    BY <1>1, <1>4 DEF Mills, Links
  <2>2. PICK d \in BOOLEAN : d = (threads[t].deferred \/ ~handshake)
    OBVIOUS
  <2>3. PICK new \in Minds : new = [threads[t] EXCEPT !.pc = "judge", !.deferred = d]
    BY <1>1, Points DEF Minds, Services
  <2>4. PICK other \in Minds : other = [threads[t] EXCEPT !.pc = "judge", !.deferred = TRUE]
    BY <1>1, Points DEF Minds, Services
  <2>5. new.pc = "judge" /\ other.pc = "judge"
    BY <1>1, <2>3, <2>4 DEF Minds
  <2>6. CASE Bumps(t, [threads[t] EXCEPT !.pc = "judge", !.deferred = @ \/ ~handshake])
    <3>1. Bumps(t, new)
      BY <2>2, <2>3, <2>6
    <3>. QED
      BY <1>1, <1>4, <2>1, <2>5, <3>1, TurnsAlone
  <2>7. CASE threads' = [threads EXCEPT ![t].pc = "judge", ![t].deferred = TRUE]
    <3>1. threads' = [threads EXCEPT ![t] = other]
      BY <1>1, <2>4, <2>7 DEF Minds
    <3>. QED
      BY <1>1, <1>4, <2>1, <2>5, <3>1, TurnsAlone
  <2>. QED
    BY <1>4, <2>6, <2>7
<1>5. CASE /\ mill' = [mill EXCEPT !.link = "live"] /\ Goes(t, "judge")
           /\ UNCHANGED <<settings, motion, board, command, cell, robot, sessions, troubles, starts>>
  <2>1. MindsTyped' /\ Recall
    BY <1>5, StateIs, Points, GoesIs DEF Services
  <2>2. mill' \in Mills
    BY <1>1, <1>5 DEF Mills, Links
  <2>3. RestTyped' /\ OneOfEach'
    BY <1>5, <2>2, StateIs DEF RestTyped, OneOfEach
  <2>. QED
    BY <1>5, <2>1, <2>3, StateIs, Routine
<1>6. PICK handshake \in BOOLEAN : handshake = (threads[t].fresh /\ mill.cycle = "idle" /\ ~mill.gap)
  OBVIOUS
<1>. QED
  BY <1>2, <1>3, <1>4, <1>5, <1>6 DEF MillLink

\* Mark keeps the invariant.
LEMMA MarkKeeps ==
  ASSUME RecoveryInv, NEW t \in Threads, Mark(t)
  PROVE  RecoveryInv'
<1>1. threads[t] \in Minds /\ mill \in Mills /\ settings \in Trunks
  BY StateIs
<1>2. CASE BootFails(t) /\ UNCHANGED settings
  <2>1. UNCHANGED <<motion, board, command, cell, robot, mill>>
    BY DEF Mark
  <2>. QED
    BY <1>1, <1>2, <2>1, FailsKeeps
<1>3. CASE /\ settings' = [settings EXCEPT !.maintenance = TRUE]
           /\ Bumps(t, [threads[t] EXCEPT !.pc = "stop_script",
                  !.orig = [verified |-> settings.verified, maintenance |-> settings.maintenance]])
           /\ UNCHANGED sessions
  <2>1. PICK o \in [verified : BOOLEAN, maintenance : BOOLEAN] :
           o = [verified |-> settings.verified, maintenance |-> settings.maintenance]
    BY <1>1 DEF Trunks
  <2>2. PICK new \in Minds : new = [threads[t] EXCEPT !.pc = "stop_script", !.orig = o]
    BY <1>1, Points DEF Minds, Bootstrap
  <2>3. Bumps(t, new) /\ new.pc = "stop_script"
    BY <1>1, <1>3, <2>1, <2>2 DEF Minds
  <2>4. settings' \in Trunks /\ UNCHANGED <<motion, board, command, cell, robot, mill, sessions>>
    BY <1>1, <1>3 DEF Trunks, Mark
  <2>. QED
    BY <1>1, <2>3, <2>4, TurnsAlone
<1>. QED
  BY <1>2, <1>3 DEF Mark

\* Connect keeps the invariant.
LEMMA ConnectKeeps ==
  ASSUME RecoveryInv, NEW t \in Threads, Connect(t)
  PROVE  RecoveryInv'
<1>1. /\ threads[t] \in Minds /\ threads[t].then \in Later /\ mill \in Mills /\ settings \in Trunks
      /\ UNCHANGED <<motion, board, command, cell, robot, mill>>
  BY StateIs DEF Connect, Minds
<1>2. CASE /\ settings' = [settings EXCEPT !.verified = TRUE, !.maintenance = FALSE]
           /\ Bumps(t, On(threads[t], threads[t].then)) /\ UNCHANGED sessions
  <2>1. PICK pc \in Later : pc = threads[t].then
    BY <1>1
  <2>2. PICK new \in Minds : new = On(threads[t], pc) /\ new.pc = pc
    <3>1. On(threads[t], pc) \in Minds /\ On(threads[t], pc).pc = pc
      BY <1>1, Points, OnIs
    <3>. QED
      BY <3>1
  <2>3. Bumps(t, new) /\ settings' \in Trunks
    BY <1>1, <1>2, <2>1, <2>2 DEF Trunks
  <2>. QED
    BY <1>1, <1>2, <2>2, <2>3, Points, TurnsAlone
<1>3. CASE BootFails(t) /\ UNCHANGED settings
  BY <1>1, <1>3, FailsKeeps
<1>4. CASE Restores(t) /\ UNCHANGED <<settings, sessions>>
  <2>1. MindsTyped' /\ Recall
    BY <1>4, StateIs, Points, GoesIs DEF Restores, Bootstrap
  <2>. QED
    BY <1>1, <1>4, <2>1, Thinks
<1>. QED
  BY <1>2, <1>3, <1>4 DEF Connect

\* Restore keeps the invariant.
LEMMA RestoreKeeps ==
  ASSUME RecoveryInv, NEW t \in Threads, Restore(t)
  PROVE  RecoveryInv'
<1>1. /\ threads[t] \in Minds /\ threads[t].then \in Later /\ mill \in Mills /\ settings \in Trunks
      /\ UNCHANGED <<motion, board, command, cell, robot, mill>>
  BY StateIs DEF Restore, Minds
<1>2. CASE BootFails(t) /\ UNCHANGED settings
  BY <1>1, <1>2, FailsKeeps
<1>3. ASSUME settings' = [settings EXCEPT !.verified = threads[t].orig.verified, !.maintenance = threads[t].orig.maintenance]
      PROVE  settings' \in Trunks
  <2>1. threads[t].orig \in [verified : BOOLEAN, maintenance : BOOLEAN]
    BY <1>1 DEF Minds
  <2>. QED
    BY <1>1, <1>3, <2>1 DEF Trunks
<1>4. CASE /\ settings' \in Trunks
           /\ sessions' = [sessions EXCEPT ![threads[t].sid].status =
                             IF IndexAllows(threads[t].sid, "handoff") THEN "handoff" ELSE @]
           /\ Bumps(t, Idle)
  <2>1. PICK s : s = threads[t].sid
    OBVIOUS
  <2>2. sessions' \in [Sessions -> Rows] /\ OneOfEach'
    <3>1. CASE IndexAllows(s, "handoff")
      BY <1>4, <2>1, <3>1, StateIs, StatusNames, SessionWritten
    <3>2. CASE ~IndexAllows(s, "handoff")
      <4>1. sessions' = sessions
        BY <1>4, <2>1, <3>2, StateIs DEF Rows
      <4>. QED
        BY <4>1, StateIs DEF OneOfEach
    <3>. QED
      BY <3>1, <3>2
  <2>3. RestTyped'
    BY <1>1, <1>4, <2>2 DEF RestTyped
  <2>. QED
    BY <1>1, <1>4, <2>2, <2>3, Fresh, StateIs, TurnsTo
<1>5. CASE settings' \in Trunks /\ UNCHANGED sessions /\ Bumps(t, On([threads[t] EXCEPT !.deferred = TRUE], threads[t].then))
  <2>1. PICK pc \in Later : pc = threads[t].then
    BY <1>1
  <2>2. PICK th \in Minds : th = [threads[t] EXCEPT !.deferred = TRUE]
    BY <1>1 DEF Minds
  <2>3. PICK new \in Minds : new = On(th, pc) /\ new.pc = pc
    BY Points, OnIs
  <2>4. Bumps(t, new)
    BY <1>5, <2>1, <2>2, <2>3
  <2>. QED
    BY <1>1, <1>5, <2>3, <2>4, Points, TurnsAlone
<1>. QED
  BY <1>2, <1>3, <1>4, <1>5 DEF Restore

\* A bootstrap or the services are begun by a thread that has just read the settings.
LEMMA BeginsAnew ==
  ASSUME RecoveryInv, NEW t \in Threads, NEW reads \in Minds,
         \/ threads' = [threads EXCEPT ![t] = [reads EXCEPT !.pc = "robot_link"]]
         \/ threads' = [threads EXCEPT ![t] = [reads EXCEPT !.pc = "mark", !.then = "idle"]],
         UNCHANGED <<settings, motion, board, command, cell, robot, mill, sessions>>
  PROVE  RecoveryInv'
<1>1. PICK new \in Minds : new = [reads EXCEPT !.pc = "robot_link"]
  BY Points DEF Minds, Services
<1>2. PICK boots \in Minds : boots = [reads EXCEPT !.pc = "mark", !.then = "idle"]
  BY Points DEF Minds, Bootstrap, Later
<1>3. new.pc = "robot_link" /\ boots.pc = "mark"
  BY <1>1, <1>2 DEF Minds
<1>4. CASE threads' = [threads EXCEPT ![t] = [reads EXCEPT !.pc = "robot_link"]]
  BY <1>1, <1>3, <1>4, StateIs, TurnsAlone
<1>5. CASE threads' = [threads EXCEPT ![t] = [reads EXCEPT !.pc = "mark", !.then = "idle"]]
  BY <1>2, <1>3, <1>5, StateIs, TurnsAlone
<1>. QED
  BY <1>4, <1>5

\* Which threads do that: the watchdog, a debug program's request and a reconnection.
LEMMA BeginnersKeep ==
  ASSUME RecoveryInv, NEW t \in Threads, WatchdogActs(t) \/ AwaitProgram(t) \/ ReconnectRobot(t)
  PROVE  RecoveryInv'
<1>1. Reading \in Minds /\ settings \in Trunks /\ mill \in Mills /\ robot \in Robots
  BY StateIs, Fresh
<1>2. CASE WatchdogActs(t)
  <2>1. PICK calm \in BOOLEAN : calm = (~settings.run /\ ~ActiveMotion)
    OBVIOUS
  <2>2. PICK reads \in Minds : reads = [Reading EXCEPT !.calm = calm]
    BY <1>1 DEF Minds
  <2>3. UNCHANGED <<settings, motion, board, command, cell, mill, sessions>>
    BY <1>2 DEF WatchdogActs
  <2>4. CASE /\ UNCHANGED robot
             /\ \/ threads' = [threads EXCEPT ![t] = [reads EXCEPT !.pc = "robot_link"]]
                \/ threads' = [threads EXCEPT ![t] = [reads EXCEPT !.pc = "mark", !.then = "idle"]]
    BY <2>3, <2>4, BeginsAnew
  <2>5. CASE robot' = ListenerRestarted /\ UNCHANGED threads
    <3>1. robot' \in Robots /\ robot'.knows = robot.knows
      BY <1>1, <2>5 DEF ListenerRestarted, Robots, Links
    <3>2. MindsTyped' /\ Recall
      BY <2>5, StateIs, Relies DEF MindsTyped, Recall
    <3>3. RestTyped' /\ OneOfEach'
      BY <2>3, StateIs DEF RestTyped, OneOfEach
    <3>. QED
      BY <2>3, <3>1, <3>2, <3>3, Routine
  <2>. QED
    BY <1>2, <2>1, <2>2, <2>4, <2>5 DEF WatchdogActs
<1>3. CASE AwaitProgram(t)
  <2>1. UNCHANGED <<settings, motion, board, command, cell, robot, mill, sessions>>
    BY <1>3 DEF AwaitProgram
  <2>2. CASE Goes(t, "idle")
    BY <2>1, <2>2, StateIs, Points, GoesIs, Thinks
  <2>3. CASE threads' = [threads EXCEPT ![t] = [Reading EXCEPT !.pc = "mark", !.then = "idle"]]
    BY <1>1, <2>1, <2>3, BeginsAnew
  <2>. QED
    BY <1>3, <2>2, <2>3 DEF AwaitProgram
<1>4. CASE ReconnectRobot(t)
  BY <1>1, <1>4, BeginsAnew DEF ReconnectRobot
<1>. QED
  BY <1>2, <1>3, <1>4

\* The devices, and the operator's commands that leave the cell alone.
LEMMA DevicesKeep ==
  ASSUME RecoveryInv,
         \/ RobotConnects \/ PendantDone \/ RestartListener \/ LeaveMaintenance
         \/ StartRun \/ RunFaults \/ MillDrops \/ MillRunsOther \/ MillCycleEnds
  PROVE  RecoveryInv'
<1>1. /\ settings \in Trunks /\ mill \in Mills /\ robot \in Robots /\ MindsTyped /\ OneOfEach
      /\ sessions \in [Sessions -> Rows]
  BY StateIs
<1>2. /\ UNCHANGED <<motion, board, command, cell, sessions>>
      /\ UNCHANGED threads \/ BumpedByOthers
  BY DEF RobotConnects, PendantDone, RestartListener, LeaveMaintenance, StartRun, RunFaults, MillDrops, MillRunsOther,
         MillCycleEnds
<1>3. MindsTyped' /\ Recall
  <2>1. CASE UNCHANGED threads
    BY <1>1, <2>1, Relies DEF MindsTyped, Recall
  <2>2. CASE BumpedByOthers
    BY <1>1, <2>2, AllStale
  <2>. QED
    BY <1>2, <2>1, <2>2
<1>4. robot' \in Robots /\ (robot'.knows => robot.knows)
  <2>1. CASE RobotConnects \/ PendantDone \/ RestartListener
    BY <1>1, <2>1 DEF RobotConnects, PendantDone, RestartListener, ListenerRestarted, Robots, Links
  <2>2. CASE LeaveMaintenance
    BY <2>2 DEF LeaveMaintenance, Robots, Links
  <2>3. CASE UNCHANGED robot
    BY <1>1, <2>3
  <2>. QED
    BY <2>1, <2>2, <2>3 DEF StartRun, RunFaults, MillDrops, MillRunsOther, MillCycleEnds
<1>5. settings' \in Trunks
  <2>1. CASE LeaveMaintenance
    BY <1>1, <2>1 DEF LeaveMaintenance, Trunks
  <2>2. CASE StartRun
    BY <1>1, <2>2 DEF StartRun, Trunks
  <2>3. CASE RunFaults
    BY <1>1, <2>3 DEF RunFaults, Trunks
  <2>4. CASE UNCHANGED settings
    BY <1>1, <2>4
  <2>. QED
    BY <2>1, <2>2, <2>3, <2>4 DEF RobotConnects, PendantDone, RestartListener, MillDrops, MillRunsOther, MillCycleEnds
<1>6. mill' \in Mills
  <2>1. CASE StartRun
    <3>1. PICK c \in {"idle", "ours", "other"} :
             c = IF board = "mill" /\ mill.verified /\ mill.cycle = "idle" THEN "ours" ELSE mill.cycle
      BY <1>1 DEF Mills
    <3>2. mill' = [mill EXCEPT !.cycle = c]
      BY <2>1, <3>1 DEF StartRun
    <3>. QED
      BY <1>1, <3>2 DEF Mills
  <2>2. CASE RunFaults
    BY <1>1, <2>2 DEF RunFaults, Mills
  <2>3. CASE MillDrops
    <3>1. PICK link \in {"stale", "down"}, gap \in BOOLEAN : mill' = [mill EXCEPT !.link = link, !.gap = @ \/ gap]
      BY <2>3 DEF MillDrops
    <3>2. PICK g \in BOOLEAN : g = (mill.gap \/ gap)
      OBVIOUS
    <3>3. mill' = [mill EXCEPT !.link = link, !.gap = g]
      BY <3>1, <3>2
    <3>. QED
      BY <1>1, <3>3 DEF Mills, Links
  <2>4. CASE MillRunsOther \/ MillCycleEnds
    BY <1>1, <2>4 DEF MillRunsOther, MillCycleEnds, Mills
  <2>5. CASE UNCHANGED mill
    BY <1>1, <2>5
  <2>. QED
    BY <2>1, <2>2, <2>3, <2>4, <2>5 DEF RobotConnects, PendantDone, RestartListener, LeaveMaintenance
<1>7. RestTyped' /\ OneOfEach'
  BY <1>1, <1>2, <1>5, <1>6 DEF RestTyped, OneOfEach
<1>. QED
  BY <1>2, <1>3, <1>4, <1>7, Routine

-----------------------------------------------------------------------------
(* Commands that move no pallet take the place of the latest one.          *)

\* A command that moves nothing, while the movement and the cell stay as they are.
LEMMA NewOrder ==
  ASSUME RecoveryInv, command' \in Orders, command'.op \notin Moving, command'.moves = FALSE,
         UNCHANGED <<motion, board, cell>>, robot' \in Robots, robot'.knows => robot.knows,
         RestTyped', OneOfEach', MindsTyped', Recall
  PROVE  RecoveryInv'
<1>1. /\ CellTyped /\ MotionOK /\ StepOK /\ ThreadsOK
  BY DEF RecoveryInv, RecoveryTyped
<1>2. CellTyped' /\ RecoveryTyped'
  BY <1>1 DEF CellTyped, RecoveryTyped
<1>3. MotionOK' /\ StepOK' /\ VerdictOK'
  BY <1>1 DEF MotionOK, StepOK, VerdictOK, LockedMotion
<1>4. ASSUME NEW t \in Threads
      PROVE  LookOK(threads[t])'
  <2>1. LookOK(threads[t]) /\ Recalls(threads[t], threads'[t])
    BY <1>1 DEF ThreadsOK, Recall
  <2>. QED
    BY <2>1 DEF LookOK, Recalls, LockedMotion
<1>. QED
  BY <1>2, <1>3, <1>4 DEF RecoveryInv, ThreadsOK

\* The orders that are given this way.
LEMMA OtherOrders ==
  /\ \A op \in {Align, "bootstrap_restart", "clear_latch", "enter_maintenance"},
        status \in {"sent", "uncertain", "completed", "operator_completed", "operator_faulted"} :
       LET order == [op |-> op, moves |-> FALSE, status |-> status]
       IN  order \in Orders /\ order.op \notin Moving /\ order.moves = FALSE
BY Ends DEF Orders

\* A thread gives it and commits, with the settings or without.
LEMMA OrdersAnew ==
  ASSUME RecoveryInv, NEW t \in Threads, NEW new \in Minds, Bumps(t, new),
         new.pc \notin {"stop_run", "end_run", "place", "verdict"},
         command' \in Orders, command'.op \notin Moving, command'.moves = FALSE,
         UNCHANGED <<motion, board, cell, mill, sessions>>, robot' \in Robots, robot'.knows => robot.knows,
         settings' \in Trunks
  PROVE  RecoveryInv'
<1>1. MindsTyped' /\ Recall
  BY StateIs, Relies, BumpsIs
<1>2. RestTyped' /\ OneOfEach'
  BY StateIs DEF RestTyped, OneOfEach
<1>. QED
  BY <1>1, <1>2, NewOrder

\* ClearLatch keeps the invariant.
LEMMA ClearLatchKeeps ==
  ASSUME RecoveryInv, NEW t \in Threads, ClearLatch(t)
  PROVE  RecoveryInv'
<1>1. threads[t] \in Minds /\ threads[t].then \in Later /\ robot \in Robots /\ settings \in Trunks
  BY StateIs DEF Minds
<1>2. CASE Passes(t, threads[t].then)
  <2>1. PICK pc \in Later : pc = threads[t].then
    BY <1>1
  <2>. QED
    BY <1>2, <2>1, Points, PassesKeeps
<1>3. CASE Passes(t, "idle")
  BY <1>3, Points, PassesKeeps
<1>4. CASE /\ robot' = [robot EXCEPT !.latched = FALSE, !.knows = FALSE]
           /\ command' = [op |-> "clear_latch", moves |-> FALSE, status |-> "completed"]
           /\ settings' = [settings EXCEPT !.verified = TRUE]
           /\ Bumps(t, [Reading EXCEPT !.pc = threads[t].then, !.sid = threads[t].sid, !.status = threads[t].status,
                           !.chooses = TRUE, !.look = threads[t].look, !.handled = TRUE])
           /\ UNCHANGED <<motion, board, cell, mill, sessions, troubles, starts>>
  <2>1. Reading \in Minds
    BY StateIs, Fresh
  <2>2. PICK pc \in Later : pc = threads[t].then
    BY <1>1
  <2>3. PICK q \in Minds : q = [Reading EXCEPT !.pc = pc, !.sid = threads[t].sid, !.status = threads[t].status]
    BY <1>1, <2>1, Points DEF Minds
  <2>4. PICK new \in Minds : new = [q EXCEPT !.chooses = TRUE, !.look = threads[t].look, !.handled = TRUE]
    BY <1>1 DEF Minds
  <2>5. new.pc = pc
    BY <2>1, <2>3, <2>4 DEF Minds
  <2>6. new = [Reading EXCEPT !.pc = threads[t].then, !.sid = threads[t].sid, !.status = threads[t].status,
                              !.chooses = TRUE, !.look = threads[t].look, !.handled = TRUE]
    BY <2>1, <2>2, <2>3, <2>4 DEF Minds
  <2>7. Bumps(t, new) /\ settings' \in Trunks /\ robot' \in Robots /\ ~robot'.knows
    BY <1>1, <1>4, <2>6 DEF Trunks, Robots
  <2>8. command' \in Orders /\ command'.op \notin Moving /\ command'.moves = FALSE
    BY <1>4, OtherOrders
  <2>. QED
    BY <1>4, <2>5, <2>7, <2>8, Points, OrdersAnew
<1>5. CASE /\ command' = [op |-> "clear_latch", moves |-> FALSE, status |-> "uncertain"]
           /\ robot' = [robot EXCEPT !.gap = "other", !.knows = FALSE]
           /\ Bumps(t, Idle)
           /\ UNCHANGED <<settings, motion, board, cell, mill, sessions, troubles, starts>>
  <2>1. robot' \in Robots /\ ~robot'.knows
    BY <1>1, <1>5 DEF Robots
  <2>2. command' \in Orders /\ command'.op \notin Moving /\ command'.moves = FALSE
    BY <1>5, OtherOrders
  <2>. QED
    BY <1>1, <1>5, <2>1, <2>2, Fresh, OrdersAnew
<1>. QED
  BY <1>2, <1>3, <1>4, <1>5 DEF ClearLatch

\* StopScript keeps the invariant.
LEMMA StopScriptKeeps ==
  ASSUME RecoveryInv, NEW t \in Threads, StopScript(t)
  PROVE  RecoveryInv'
<1>1. threads[t] \in Minds /\ robot \in Robots /\ settings \in Trunks
  BY StateIs
<1>2. CASE Passes(t, "send_script")
  BY <1>2, Points, PassesKeeps DEF Bootstrap
<1>3. CASE Restores(t) /\ UNCHANGED <<settings, motion, board, command, cell, robot, mill, sessions, troubles, starts>>
  <2>1. MindsTyped' /\ Recall
    BY <1>3, StateIs, Points, GoesIs DEF Restores, Bootstrap
  <2>. QED
    BY <1>3, <2>1, Thinks
<1>4. CASE (EndsProgram(t) \/ ProgramStays(t)) /\ UNCHANGED <<settings, motion, board, cell, mill, sessions, starts>>
  <2>1. PICK pc \in {"send_script", "restore"} : Bumps(t, [threads[t] EXCEPT !.pc = pc, !.fresh = TRUE])
    BY <1>4 DEF EndsProgram, ProgramStays
  <2>2. PICK new \in Minds : new = [threads[t] EXCEPT !.pc = pc, !.fresh = TRUE]
    BY <1>1, Points DEF Minds, Bootstrap
  <2>3. new.pc = pc /\ Bumps(t, new)
    BY <1>1, <2>1, <2>2 DEF Minds
  <2>4. robot' \in Robots /\ ~robot'.knows
    BY <1>1, <1>4 DEF EndsProgram, ProgramStays, Robots, Links
  <2>5. command' \in Orders /\ command'.op \notin Moving /\ command'.moves = FALSE
    BY <1>4, OtherOrders DEF EndsProgram, ProgramStays
  <2>. QED
    BY <1>1, <1>4, <2>3, <2>4, <2>5, OrdersAnew
<1>. QED
  BY <1>2, <1>3, <1>4 DEF StopScript

\* An order after which every thread's settings row is out of date.
LEMMA OrdersByOthers ==
  ASSUME RecoveryInv, BumpedByOthers,
         command' = command \/ (command' \in Orders /\ command'.op \notin Moving /\ command'.moves = FALSE),
         UNCHANGED <<motion, board, cell, mill, sessions>>, robot' \in Robots, robot'.knows => robot.knows,
         settings' \in Trunks
  PROVE  RecoveryInv'
<1>1. MindsTyped' /\ Recall
  BY StateIs, AllStale
<1>2. RestTyped' /\ OneOfEach'
  BY StateIs DEF RestTyped, OneOfEach
<1>. QED
  BY <1>1, <1>2, NewOrder, Routine

\* The command that ends the connected program, obeyed or not.
LEMMA MaintenanceIs ==
  ASSUME RecoveryInv, IgnoresMaintenance \/ \E program \in {"none", "other"} : ObeysMaintenance(program)
  PROVE  /\ command' \in Orders /\ command'.op \notin Moving /\ command'.moves = FALSE
         /\ robot' \in Robots /\ ~robot'.knows /\ settings' \in Trunks
<1>1. robot \in Robots /\ settings \in Trunks
  BY StateIs
<1>2. CASE IgnoresMaintenance
  BY <1>1, <1>2, OtherOrders DEF IgnoresMaintenance, Robots
<1>3. ASSUME NEW program \in {"none", "other"}, ObeysMaintenance(program)
      PROVE  /\ command' \in Orders /\ command'.op \notin Moving /\ command'.moves = FALSE
             /\ robot' \in Robots /\ ~robot'.knows /\ settings' \in Trunks
  <2>1. command' \in Orders /\ command'.op \notin Moving /\ command'.moves = FALSE
    BY <1>3, OtherOrders DEF ObeysMaintenance
  <2>2. robot' \in Robots /\ ~robot'.knows /\ settings' \in Trunks
    BY <1>1, <1>3 DEF ObeysMaintenance, Robots, Links, Trunks
  <2>. QED
    BY <2>1, <2>2
<1>. QED
  BY <1>2, <1>3

\* EnterMaintenance keeps the invariant.
LEMMA EnterMaintenanceKeeps ==
  ASSUME RecoveryInv, EnterMaintenance
  PROVE  RecoveryInv'
<1>1. /\ robot \in Robots /\ settings \in Trunks /\ BumpedByOthers
      /\ UNCHANGED <<motion, board, cell, mill, sessions>>
  BY StateIs DEF EnterMaintenance
<1>2. CASE settings' = [settings EXCEPT !.maintenance = TRUE] /\ UNCHANGED <<command, robot>>
  <2>1. settings' \in Trunks
    BY <1>1, <1>2 DEF Trunks
  <2>2. command' = command /\ robot' \in Robots /\ robot'.knows = robot.knows
    BY <1>1, <1>2
  <2>. QED
    BY <1>1, <2>1, <2>2, OrdersByOthers
<1>3. CASE ObeysMaintenance("none") \/ IgnoresMaintenance
  <2>1. /\ command' \in Orders /\ command'.op \notin Moving /\ command'.moves = FALSE
        /\ robot' \in Robots /\ ~robot'.knows /\ settings' \in Trunks
    BY <1>3, MaintenanceIs
  <2>. QED
    BY <1>1, <2>1, OrdersByOthers
<1>. QED
  BY <1>2, <1>3 DEF EnterMaintenance

\* RunDebugProgram keeps the invariant.
LEMMA RunDebugProgramKeeps ==
  ASSUME RecoveryInv, NEW t \in Threads, RunDebugProgram(t)
  PROVE  RecoveryInv'
<1>1. /\ robot \in Robots /\ settings \in Trunks /\ Reading \in Minds /\ Idle \in Minds
      /\ UNCHANGED <<motion, board, cell, mill, sessions>>
  BY StateIs, Fresh DEF RunDebugProgram
<1>2. CASE ObeysMaintenance("other") /\ Bumps(t, [Idle EXCEPT !.pc = "await_program"])
  <2>1. PICK new \in Minds : new = [Idle EXCEPT !.pc = "await_program"]
    BY <1>1, Points DEF Minds
  <2>2. new.pc = "await_program"
    BY <1>1, <2>1 DEF Minds
  <2>. QED
    BY <1>1, <1>2, <2>1, <2>2, MaintenanceIs, OrdersAnew
<1>3. CASE ObeysMaintenance("none") /\ Bumps(t, [Reading EXCEPT !.pc = "mark", !.then = "idle"])
  <2>1. PICK new \in Minds : new = [Reading EXCEPT !.pc = "mark", !.then = "idle"]
    BY <1>1, Points DEF Minds, Bootstrap, Later
  <2>2. new.pc = "mark"
    BY <1>1, <2>1 DEF Minds
  <2>. QED
    BY <1>1, <1>3, <2>1, <2>2, MaintenanceIs, OrdersAnew
<1>4. CASE IgnoresMaintenance /\ BumpedByOthers
  BY <1>1, <1>4, MaintenanceIs, OrdersByOthers
<1>5. CASE robot' = [robot EXCEPT !.program = "other"] /\ UNCHANGED <<settings, command, threads>>
  <2>1. robot' \in Robots /\ robot'.knows = robot.knows
    BY <1>1, <1>5 DEF Robots
  <2>2. MindsTyped' /\ Recall
    BY <1>5, StateIs, Relies DEF MindsTyped, Recall
  <2>3. RestTyped' /\ OneOfEach'
    BY <1>1, <1>5, StateIs DEF RestTyped, OneOfEach
  <2>. QED
    BY <1>1, <1>5, <2>1, <2>2, <2>3, Routine
<1>. QED
  BY <1>2, <1>3, <1>4, <1>5 DEF RunDebugProgram

\* AlignHeard keeps the invariant.
LEMMA AlignHeardKeeps ==
  ASSUME RecoveryInv, AlignHeard
  PROVE  RecoveryInv'
<1>1. command \in Orders /\ robot \in Robots /\ command.op = Align /\ MotionOK
  BY StateIs DEF AlignHeard, RecoveryInv
<1>2. command.moves = FALSE
  BY <1>1, Ends DEF MotionOK, Orders
<1>3. command' \in Orders /\ command'.op \notin Moving /\ command'.moves = FALSE
  BY <1>1, <1>2, Ends DEF AlignHeard, Orders
<1>4. UNCHANGED <<settings, motion, board, cell, robot, mill, sessions, threads>>
  BY DEF AlignHeard
<1>5. MindsTyped' /\ Recall /\ RestTyped' /\ OneOfEach'
  BY <1>4, StateIs, Relies DEF MindsTyped, Recall, RestTyped, OneOfEach
<1>. QED
  BY <1>1, <1>3, <1>4, <1>5, NewOrder

-----------------------------------------------------------------------------
(* The operator's word on a command and on a movement.                     *)

\* No thread relies on what it saw.
LEMMA Unseen ==
  ASSUME \A u \in Threads : ~Looked(threads'[u]) /\ ~Judges(threads'[u])
  PROVE  ThreadsOK'
<1>1. ASSUME NEW u \in Threads
      PROVE  LookOK(threads[u])'
  <2>1. ~Looked(threads[u])' /\ ~Judges(threads[u])'
    BY DEF Looked, Judges
  <2>. QED
    BY <2>1 DEF LookOK
<1>. QED
  BY <1>1 DEF ThreadsOK

\* The parts of the invariant, put together.
LEMMA AllParts ==
  ASSUME CellTyped', RestTyped', MindsTyped', OneOfEach', MotionOK', StepOK', VerdictOK', ThreadsOK'
  PROVE  RecoveryInv'
BY DEF RecoveryInv, RecoveryTyped

\* A thread that has committed is the only one that may rely on what it saw.
LEMMA OnlyCommitter ==
  ASSUME RecoveryInv, NEW t \in Threads, NEW new \in Minds, Bumps(t, new)
  PROVE  /\ MindsTyped' /\ threads'[t] = new
         /\ \A u \in Threads \ {t} : ~Looked(threads'[u]) /\ ~Judges(threads'[u])
BY StateIs, BumpsIs DEF Looked, Judges

\* A verdict that is true of a command that is still open, while no movement is locked.
LEMMA JudgedRight ==
  ASSUME RecoveryInv, NEW t \in Threads, NEW new \in Minds, Bumps(t, new), new.pc = "latch", ~LockedMotion,
         NEW done \in BOOLEAN, command.moves => (done <=> cell.at = To[command.op]),
         command' = [command EXCEPT !.status = IF done THEN "operator_completed" ELSE "operator_faulted"],
         UNCHANGED <<settings, motion, board, cell, robot, mill, sessions>>
  PROVE  RecoveryInv'
<1>1. /\ CellTyped /\ MotionOK /\ StepOK /\ command \in Orders /\ RestTyped /\ OneOfEach
  BY StateIs DEF RecoveryInv
<1>2. PICK status \in {"operator_completed", "operator_faulted"} :
         /\ command' = [command EXCEPT !.status = status]
         /\ status = "operator_completed" => done
         /\ status = "operator_faulted" => ~done
  BY DEF Orders
<1>3. command' \in Orders /\ command'.op = command.op /\ command'.moves = command.moves /\ command'.status = status
  BY <1>1, <1>2 DEF Orders
<1>4. CellTyped' /\ RestTyped' /\ OneOfEach'
  BY <1>1, <1>3 DEF CellTyped, RestTyped, OneOfEach
<1>5. MotionOK'
  BY <1>1, <1>3 DEF MotionOK, LockedMotion
<1>6. command.moves => cell.doing = "none"
  BY <1>1, Ends DEF MotionOK, StepOK
<1>7. StepOK' /\ VerdictOK'
  BY <1>1, <1>2, <1>3, <1>6 DEF StepOK, VerdictOK
<1>8. MindsTyped' /\ threads'[t] = new /\ \A u \in Threads \ {t} : ~Looked(threads'[u]) /\ ~Judges(threads'[u])
  BY OnlyCommitter
<1>9. ~Looked(new) /\ ~Judges(new)
  BY DEF Looked, Judges
<1>10. ThreadsOK'
  BY <1>8, <1>9, Unseen
<1>. QED
  BY <1>4, <1>5, <1>7, <1>8, <1>10, AllParts

\* Verdict keeps the invariant.
LEMMA VerdictKeeps ==
  ASSUME RecoveryInv, NEW t \in Threads, Verdict(t)
  PROVE  RecoveryInv'
<1>1. threads[t] \in Minds /\ threads[t].pc = "verdict" /\ LookOK(threads[t])
  BY StateIs DEF Verdict, At, RecoveryInv, ThreadsOK
<1>2. CASE Passes(t, "idle")
  BY <1>2, Points, PassesKeeps
<1>3. CASE /\ threads[t].fresh
           /\ command' = [command EXCEPT !.status =
                IF SupervisorOperationCompleted(command.op, threads[t].said)
                THEN "operator_completed" ELSE "operator_faulted"]
           /\ Bumps(t, [threads[t] EXCEPT !.pc = "latch", !.then = "command"])
           /\ UNCHANGED <<settings, motion, board, cell, robot, mill, sessions, troubles, starts>>
  <2>1. PICK done \in BOOLEAN : done <=> SupervisorOperationCompleted(command.op, threads[t].said)
    OBVIOUS
  <2>2. ~LockedMotion /\ (command.moves => (done <=> cell.at = To[command.op]))
    BY <1>1, <1>3, <2>1 DEF LookOK, Judges
  <2>3. PICK new \in Minds : new = [threads[t] EXCEPT !.pc = "latch", !.then = "command"]
    BY <1>1, Points DEF Minds, Handling, Later
  <2>4. new.pc = "latch" /\ Bumps(t, new)
    BY <1>1, <1>3, <2>3 DEF Minds
  <2>5. command' = [command EXCEPT !.status = IF done THEN "operator_completed" ELSE "operator_faulted"]
    BY <1>3, <2>1
  <2>. QED
    BY <1>3, <2>2, <2>4, <2>5, JudgedRight
<1>. QED
  BY <1>2, <1>3 DEF Verdict

\* Command keeps the invariant: the operator sees where the pallet went.
LEMMA CommandKeeps ==
  ASSUME RecoveryInv, NEW t \in Threads, Command(t)
  PROVE  RecoveryInv'
<1>1. threads[t] \in Minds
  BY StateIs
<1>2. CASE Passes(t, "mill") \/ Passes(t, "idle")
  BY <1>2, Points, PassesKeeps DEF Handling
<1>3. CASE NotChosen(t) \/ Refused(t)
  BY <1>3, NotChosenKeeps
<1>4. CASE /\ ~LockedMotion
           /\ \E done \in IF command.moves THEN {cell.at = To[command.op]} ELSE BOOLEAN :
                command' = [command EXCEPT !.status = IF done THEN "operator_completed" ELSE "operator_faulted"]
           /\ Bumps(t, [threads[t] EXCEPT !.pc = "latch", !.then = "mill", !.handled = TRUE])
           /\ UNCHANGED <<settings, motion, board, cell, robot, mill, sessions, troubles, starts>>
  <2>1. PICK done \in IF command.moves THEN {cell.at = To[command.op]} ELSE BOOLEAN :
           command' = [command EXCEPT !.status = IF done THEN "operator_completed" ELSE "operator_faulted"]
    BY <1>4
  <2>2. done \in BOOLEAN /\ (command.moves => (done <=> cell.at = To[command.op]))
    BY <2>1, Zenon
  <2>3. PICK new \in Minds : new = [threads[t] EXCEPT !.pc = "latch", !.then = "mill", !.handled = TRUE]
    BY <1>1, Points DEF Minds, Handling, Later
  <2>4. new.pc = "latch" /\ Bumps(t, new)
    BY <1>1, <1>4, <2>3 DEF Minds
  <2>5. PICK yes \in BOOLEAN : yes = done
    BY <2>2
  <2>6. command' = [command EXCEPT !.status = IF yes THEN "operator_completed" ELSE "operator_faulted"]
    BY <2>1, <2>5
  <2>. QED
    BY <1>4, <2>2, <2>4, <2>5, <2>6, JudgedRight
<1>. QED
  BY <1>2, <1>3, <1>4 DEF Command

\* Place keeps the invariant: the operator's answer is where the pallet is, because nobody committed since.
LEMMA PlaceKeeps ==
  ASSUME RecoveryInv, NEW t \in Threads, Place(t)
  PROVE  RecoveryInv'
<1>1. /\ threads[t] \in Minds /\ threads[t].pc = "place" /\ LookOK(threads[t]) /\ cell \in Cells /\ command \in Orders
      /\ MotionOK /\ StepOK /\ VerdictOK /\ CellTyped /\ RestTyped /\ OneOfEach
  BY StateIs DEF Place, At, RecoveryInv, ThreadsOK
<1>2. CASE Passes(t, "command")
  BY <1>2, Points, PassesKeeps DEF Handling
<1>3. CASE NotChosen(t) \/ Refused(t)
  BY <1>3, NotChosenKeeps
<1>4. CASE /\ UNCHANGED <<motion, board>> /\ Goes(t, "idle")
           /\ UNCHANGED <<settings, command, cell, robot, mill, sessions, troubles, starts>>
  BY <1>4, StateIs, Points, GoesIs, Thinks
<1>. DEFINE said == Seen(motion.op, threads[t].look)
<1>5. CASE /\ motion.status = "faulted" /\ Chosen(t)
           /\ motion' = NoMotion /\ board' = RecordedPlace(said)
           /\ Bumps(t, [threads[t] EXCEPT !.handled = TRUE, !.said = said,
                           !.pc = IF command.moves /\ Unresolved THEN "verdict" ELSE "command"])
           /\ UNCHANGED <<settings, command, cell, robot, mill, sessions, troubles, starts>>
  <2>1. Looked(threads[t]) /\ threads[t].look = cell.at /\ cell.doing = "none" /\ LockedMotion /\ motion.op \in Motions
    BY <1>1, <1>5 DEF Looked, LookOK, Chosen, LockedMotion, MotionOK
  <2>2. said \in {"source_pool", "robot_held", "machine", "destination_pool"} /\ RecordedPlace(said) = cell.at
    BY <1>1, <2>1, SeenIs DEF Cells
  <2>3. PICK pc \in {"verdict", "command"} : pc = IF command.moves /\ Unresolved THEN "verdict" ELSE "command"
    OBVIOUS
  <2>4. PICK answer : answer = said
    OBVIOUS
  <2>5. PICK new \in Minds : new = [threads[t] EXCEPT !.handled = TRUE, !.said = answer, !.pc = pc]
    <3>. HIDE DEF said
    <3>. QED
      BY <1>1, <2>2, <2>4, Points DEF Minds, Handling
  <2>6. new.pc = pc /\ new.said = said /\ Bumps(t, new)
    <3>1. new.pc = pc /\ new.said = answer
      BY <1>1, <2>5 DEF Minds
    <3>2. Bumps(t, new)
      BY <1>5, <2>3, <2>4, <2>5
    <3>. QED
      BY <2>4, <3>1, <3>2
  <2>7. /\ motion'.op = "none" /\ motion'.status = "none" /\ ~LockedMotion' /\ board' = cell.at
        /\ motion' \in [op : Motions \cup {"none"}, status : {"none", "active", "faulted"}, restarted : BOOLEAN]
        /\ UNCHANGED <<settings, command, cell, robot, mill, sessions>>
    BY <1>5, <2>2 DEF NoMotion, LockedMotion
  <2>8. CellTyped' /\ RestTyped' /\ OneOfEach'
    BY <1>1, <2>7 DEF CellTyped, RestTyped, OneOfEach, Cells
  <2>9. MotionOK' /\ StepOK' /\ VerdictOK'
    BY <1>1, <2>1, <2>7, Movements DEF MotionOK, StepOK, VerdictOK, Unresolved
  <2>10. command.moves => (SupervisorOperationCompleted(command.op, said) <=> cell.at = To[command.op])
    BY <1>1, <2>1, VerdictIsTrue DEF MotionOK, StepOK
  <2>11. ~Looked(new)
    BY <2>3, <2>6 DEF Looked
  <2>12. LookOK(threads[t])'
    <3>1. threads'[t] = new
      BY <2>6, OnlyCommitter
    <3>2. Judges(new) /\ command'.moves => (SupervisorOperationCompleted(command'.op, new.said) <=> cell'.at = To[command'.op])
      BY <2>6, <2>7, <2>10
    <3>. QED
      BY <2>7, <2>11, <3>1, <3>2 DEF LookOK
  <2>13. MindsTyped' /\ \A u \in Threads \ {t} : ~Looked(threads'[u]) /\ ~Judges(threads'[u])
    BY <2>6, OnlyCommitter
  <2>14. ASSUME NEW u \in Threads
         PROVE  LookOK(threads[u])'
    BY <2>12, <2>13 DEF LookOK
  <2>15. ThreadsOK'
    BY <2>14 DEF ThreadsOK
  <2>. QED
    BY <2>8, <2>9, <2>13, <2>15, AllParts
<1>. QED
  BY <1>2, <1>3, <1>4, <1>5 DEF Place

-----------------------------------------------------------------------------
(* The robot and the movement.                                             *)

\* What no action that cuts a step short, faults a movement or leaves a command uncertain undoes.
Kept == /\ cell' \in Cells /\ cell'.doing \in {"none", cell.doing}
        /\ cell.doing = "none" \/ cell'.doing # "none" => cell' = cell
        /\ ~LockedMotion => cell'.at = cell.at
        /\ command.moves => cell'.at \in {From[command.op], To[command.op]}
        /\ command.moves /\ ~Unresolved => cell' = cell
        /\ motion' \in [op : Motions \cup {"none"}, status : {"none", "active", "faulted"}, restarted : BOOLEAN]
        /\ motion'.op = motion.op /\ (motion'.status = "none" <=> motion.status = "none")
        /\ command' \in Orders /\ command'.op = command.op /\ command'.moves = command.moves
        /\ command'.status = command.status \/ (command.status = "sent" /\ command'.status = "uncertain")
        /\ robot' \in Robots /\ (robot'.knows => robot.knows)
        /\ UNCHANGED <<board, sessions, mill>> /\ settings' \in Trunks

\* Such an action keeps everything, when no thread learns anything.
LEMMA KeptKeeps ==
  ASSUME RecoveryInv, Kept, MindsTyped', Recall
  PROVE  RecoveryInv'
<1>1. /\ CellTyped /\ MotionOK /\ StepOK /\ VerdictOK /\ ThreadsOK /\ RestTyped /\ OneOfEach
      /\ board \in Places /\ command \in Orders
  BY StateIs DEF RecoveryInv
<1>2. CellTyped' /\ RestTyped' /\ OneOfEach'
  BY <1>1 DEF CellTyped, RestTyped, OneOfEach, Kept
<1>3. LockedMotion' <=> LockedMotion
  BY DEF Kept, LockedMotion
<1>4. MotionOK'
  BY <1>1, <1>3 DEF MotionOK, Kept
<1>5. Unresolved => Unresolved'
  BY DEF Unresolved, Kept
<1>6. StepOK'
  <2>1. command'.moves => cell'.at \in {From[command'.op], To[command'.op]}
    BY DEF Kept
  <2>2. command'.moves /\ cell'.doing # "none" => Unresolved' /\ cell'.doing = command'.op /\ cell'.at = From[command'.op]
    BY <1>1, <1>5 DEF StepOK, Kept
  <2>3. robot'.knows => cell'.doing = "none" /\ (command'.moves => cell'.at = To[command'.op])
    BY <1>1 DEF StepOK, Kept
  <2>. QED
    BY <2>1, <2>2, <2>3 DEF StepOK
<1>7. VerdictOK'
  BY <1>1 DEF VerdictOK, Kept, Unresolved
<1>8. ASSUME NEW t \in Threads
      PROVE  LookOK(threads[t])'
  <2>1. LookOK(threads[t]) /\ Recalls(threads[t], threads'[t])
    BY <1>1 DEF ThreadsOK, Recall
  <2>2. Looked(threads'[t]) => threads'[t].look = cell'.at /\ cell'.doing = "none"
    BY <2>1 DEF LookOK, Recalls, Kept
  <2>3. Judges(threads'[t]) =>
          /\ ~LockedMotion'
          /\ command'.moves => (SupervisorOperationCompleted(command'.op, threads'[t].said) <=> cell'.at = To[command'.op])
    BY <1>3, <2>1 DEF LookOK, Recalls, Kept
  <2>. QED
    BY <2>2, <2>3 DEF LookOK, Looked, Judges
<1>9. ThreadsOK'
  BY <1>8 DEF ThreadsOK
<1>. QED
  BY <1>2, <1>4, <1>6, <1>7, <1>9, AllParts

\* MotionFaults and CommandUncertain.
LEMMA FaultedIs ==
  ASSUME RecoveryInv
  PROVE  /\ MotionFaults =>
              /\ motion' \in [op : Motions \cup {"none"}, status : {"none", "active", "faulted"}, restarted : BOOLEAN]
              /\ motion'.op = motion.op /\ (motion'.status = "none" <=> motion.status = "none")
         /\ CommandUncertain =>
              /\ command' \in Orders /\ command'.op = command.op /\ command'.moves = command.moves
              /\ command'.status = command.status \/ (command.status = "sent" /\ command'.status = "uncertain")
<1>1. /\ motion \in [op : Motions \cup {"none"}, status : {"none", "active", "faulted"}, restarted : BOOLEAN]
      /\ command \in Orders
  BY StateIs
<1>2. ASSUME MotionFaults
      PROVE  /\ motion' \in [op : Motions \cup {"none"}, status : {"none", "active", "faulted"}, restarted : BOOLEAN]
             /\ motion'.op = motion.op /\ (motion'.status = "none" <=> motion.status = "none")
  <2>1. CASE ActiveMotion
    BY <1>1, <1>2, <2>1 DEF MotionFaults, ActiveMotion
  <2>2. CASE ~ActiveMotion
    BY <1>1, <1>2, <2>2 DEF MotionFaults
  <2>. QED
    BY <2>1, <2>2
<1>3. ASSUME CommandUncertain
      PROVE  /\ command' \in Orders /\ command'.op = command.op /\ command'.moves = command.moves
             /\ command'.status = command.status \/ (command.status = "sent" /\ command'.status = "uncertain")
  <2>1. CASE command.status = "sent"
    BY <1>1, <1>3, <2>1 DEF CommandUncertain, Orders
  <2>2. CASE command.status # "sent"
    BY <1>1, <1>3, <2>2 DEF CommandUncertain
  <2>. QED
    BY <2>1, <2>2
<1>. QED
  BY <1>2, <1>3

\* What the robot does and where, at any time.
LEMMA DoingIs ==
  ASSUME RecoveryInv, cell.doing # "none"
  PROVE  /\ cell.doing \in Moving \cup {Align} /\ cell.at \in Places /\ robot.knows = FALSE
         /\ Before(cell.doing, cell.at) \in Places /\ After(cell.doing, cell.at) \in Places
         /\ ~LockedMotion => cell.doing = Align
         /\ cell.doing = Align => command.moves = FALSE /\ Before(cell.doing, cell.at) = cell.at
                                  /\ After(cell.doing, cell.at) = cell.at
         /\ command.moves => /\ Unresolved /\ cell.doing = command.op
                             /\ Before(cell.doing, cell.at) = From[command.op]
                             /\ After(cell.doing, cell.at) = To[command.op]
<1>1. cell \in Cells /\ command \in Orders /\ robot \in Robots /\ MotionOK /\ StepOK
  BY StateIs DEF RecoveryInv
<1>2. cell.doing \in Moving \cup {Align} /\ cell.at \in Places
  BY <1>1 DEF Cells
<1>3. Before(cell.doing, cell.at) \in Places /\ After(cell.doing, cell.at) \in Places
  BY <1>2, Ends
<1>4. command.moves => Unresolved /\ cell.doing = command.op /\ cell.doing # Align
  BY <1>1, Ends DEF StepOK, MotionOK
<1>5. command.moves \in BOOLEAN /\ robot.knows \in BOOLEAN
  BY <1>1 DEF Orders, Robots
<1>6. robot.knows = FALSE /\ (~LockedMotion => cell.doing = Align)
  BY <1>1, <1>5 DEF StepOK, MotionOK
<1>. QED
  BY <1>2, <1>3, <1>4, <1>5, <1>6 DEF Before, After

\* A step is cut short.
LEMMA CutShortIs ==
  ASSUME RecoveryInv, CutShort
  PROVE  /\ cell' \in Cells /\ cell'.doing = "none"
         /\ cell.doing = "none" => cell' = cell
         /\ ~LockedMotion => cell'.at = cell.at
         /\ command.moves => cell'.at \in {From[command.op], To[command.op]}
         /\ command.moves /\ ~Unresolved => cell' = cell
<1>1. cell \in Cells /\ StepOK
  BY StateIs DEF RecoveryInv
<1>2. CASE cell.doing = "none"
  <2>1. cell' = cell
    BY <1>2 DEF CutShort
  <2>. QED
    BY <1>1, <1>2, <2>1 DEF StepOK
<1>3. CASE cell.doing # "none"
  <2>1. PICK place \in {Before(cell.doing, cell.at), After(cell.doing, cell.at)} : cell' = [at |-> place, doing |-> "none"]
    BY <1>3 DEF CutShort
  <2>2. cell'.at = place /\ cell'.doing = "none"
    BY <2>1
  <2>3. place \in Places /\ (command.moves => Unresolved /\ place \in {From[command.op], To[command.op]})
        /\ (~LockedMotion => place = cell.at)
    BY <1>3, <2>1, DoingIs
  <2>4. cell' \in Cells
    BY <2>1, <2>3 DEF Cells
  <2>. QED
    BY <1>3, <2>2, <2>3, <2>4
<1>. QED
  BY <1>2, <1>3

\* Troubles of the robot: the movement faults, its command is uncertain, everybody's settings row is out of date.
LEMMA RobotTroubleKeeps ==
  ASSUME RecoveryInv, RobotDrops \/ RobotFaults \/ PendantStops
  PROVE  RecoveryInv'
<1>1. /\ MotionFaults /\ CommandUncertain /\ BumpedByOthers
      /\ UNCHANGED <<settings, board, mill, sessions>>
  BY DEF RobotDrops, RobotFaults, PendantStops
<1>2. robot \in Robots /\ cell \in Cells /\ settings \in Trunks /\ StepOK /\ MindsTyped' /\ Recall
  BY <1>1, StateIs, AllStale DEF RecoveryInv
<1>3. CASE RobotDrops
  <2>1. PICK link \in {"stale", "down"}, lost \in BOOLEAN, latched \in BOOLEAN :
          /\ lost => cell.doing = Align \/ (ActiveMotion /\ cell.doing = Head(Steps[motion.op]))
          /\ latched => cell.doing # "none" /\ ~lost
          /\ robot' = [robot EXCEPT !.link = link, !.gap = IF lost THEN "other" ELSE @, !.latched = @ \/ latched]
          /\ cell' = IF lost THEN [cell EXCEPT !.doing = "none"] ELSE cell
    BY <1>3 DEF RobotDrops
  <2>2. robot' \in Robots /\ robot'.knows = robot.knows
    <3>1. PICK gap \in {"none", "maintenance", "other"} : gap = IF lost THEN "other" ELSE robot.gap
      BY <1>2 DEF Robots
    <3>2. PICK l \in BOOLEAN : l = (robot.latched \/ latched)
      OBVIOUS
    <3>3. robot' = [robot EXCEPT !.link = link, !.gap = gap, !.latched = l]
      BY <2>1, <3>1, <3>2
    <3>. QED
      BY <1>2, <3>3 DEF Robots, Links
  <2>3. CASE lost
    <3>1. cell.doing # "none"
      <4>1. ActiveMotion => Head(Steps[motion.op]) \in Moving
        BY StateIs, StepsOf DEF RecoveryInv, MotionOK, ActiveMotion, LockedMotion
      <4>. QED
        BY <2>1, <2>3, <4>1, Ends DEF Align
    <3>2. cell' = [cell EXCEPT !.doing = "none"]
      BY <2>1, <2>3
    <3>3. cell' \in Cells /\ cell'.doing = "none" /\ cell'.at = cell.at
      BY <1>2, <3>2 DEF Cells
    <3>4. command.moves => Unresolved /\ cell.at = From[command.op]
      BY <1>2, <3>1 DEF StepOK
    <3>5. Kept
      BY <1>1, <1>2, <2>2, <3>1, <3>3, <3>4, FaultedIs DEF Kept
    <3>. QED
      BY <1>2, <3>5, KeptKeeps
  <2>4. CASE ~lost
    <3>1. cell' = cell
      BY <2>1, <2>4
    <3>2. Kept
      BY <1>1, <1>2, <2>2, <3>1, FaultedIs DEF Kept, StepOK
    <3>. QED
      BY <1>2, <3>2, KeptKeeps
  <2>. QED
    BY <2>3, <2>4
<1>4. CASE RobotFaults \/ PendantStops
  <2>1. robot' \in Robots /\ ~robot'.knows
    BY <1>2, <1>4 DEF RobotFaults, PendantStops, Robots, Links
  <2>2. CutShort
    BY <1>4 DEF RobotFaults, PendantStops
  <2>3. Kept
    BY <1>1, <1>2, <2>1, <2>2, CutShortIs, FaultedIs DEF Kept
  <2>. QED
    BY <1>2, <2>3, KeptKeeps
<1>. QED
  BY <1>3, <1>4

\* The application starts again: the threads are gone.
LEMMA RestartKeeps ==
  ASSUME RecoveryInv, Restart
  PROVE  RecoveryInv'
<1>1. /\ robot \in Robots /\ cell \in Cells /\ settings \in Trunks /\ StepOK /\ command \in Orders
      /\ motion \in [op : Motions \cup {"none"}, status : {"none", "active", "faulted"}, restarted : BOOLEAN]
      /\ CommandUncertain /\ UNCHANGED <<board, cell, mill, sessions>>
  BY StateIs DEF RecoveryInv, Restart
<1>2. robot' \in Robots /\ robot'.knows = robot.knows
  BY <1>1 DEF Restart, Robots, Links
<1>3. settings' \in Trunks
  <2>1. PICK h \in BOOLEAN : h = (settings.halted \/ settings.run)
    OBVIOUS
  <2>2. settings' = [settings EXCEPT !.run = FALSE, !.halted = h]
    BY <2>1 DEF Restart
  <2>. QED
    BY <1>1, <2>2 DEF Trunks
<1>4. /\ motion' \in [op : Motions \cup {"none"}, status : {"none", "active", "faulted"}, restarted : BOOLEAN]
      /\ motion'.op = motion.op /\ (motion'.status = "none" <=> motion.status = "none")
  <2>1. CASE ActiveMotion
    BY <1>1, <2>1 DEF Restart, ActiveMotion
  <2>2. CASE ~ActiveMotion
    BY <1>1, <2>2 DEF Restart
  <2>. QED
    BY <2>1, <2>2
<1>5. Kept
  BY <1>1, <1>2, <1>3, <1>4, FaultedIs DEF Kept, StepOK
<1>6. threads' = [u \in Threads |-> Idle]
  BY DEF Restart
<1>7. MindsTyped' /\ \A u \in Threads : threads'[u] = Idle
  BY <1>6, Fresh DEF MindsTyped
<1>8. Recall
  BY <1>7, Fresh, Relies DEF Recall
<1>. QED
  BY <1>5, <1>7, <1>8, KeptKeeps

\* SendScript keeps the invariant: a thread that looked at the cell found it at rest, so nothing is cut short.
LEMMA SendScriptKeeps ==
  ASSUME RecoveryInv, NEW t \in Threads, SendScript(t)
  PROVE  RecoveryInv'
<1>1. UNCHANGED <<settings, board, mill, sessions>> /\ settings \in Trunks
  BY StateIs DEF SendScript
<1>2. CASE /\ \E gap \in {"none", "other"} :
                robot' = [link |-> "down", latched |-> FALSE, gap |-> gap, program |-> "supervisor", knows |-> FALSE]
           /\ CutShort /\ MotionFaults /\ CommandUncertain /\ Goes(t, "connect")
  <2>1. robot' \in Robots /\ ~robot'.knows
    BY <1>2 DEF Robots, Links
  <2>2. Kept
    BY <1>1, <1>2, <2>1, CutShortIs, FaultedIs DEF Kept
  <2>3. MindsTyped' /\ Recall
    BY <1>2, StateIs, Points, GoesIs DEF Bootstrap
  <2>. QED
    BY <2>2, <2>3, KeptKeeps
<1>3. CASE Restores(t) /\ UNCHANGED <<robot, cell, motion, command>>
  <2>1. MindsTyped' /\ Recall
    BY <1>3, StateIs, Points, GoesIs DEF Restores, Bootstrap
  <2>. QED
    BY <1>1, <1>3, <2>1, Thinks
<1>. QED
  BY <1>2, <1>3 DEF SendScript

\* StepEnds keeps the invariant: no thread had looked at a cell that moved.
LEMMA StepEndsKeeps ==
  ASSUME RecoveryInv, StepEnds
  PROVE  RecoveryInv'
<1>1. /\ CellTyped /\ MotionOK /\ StepOK /\ VerdictOK /\ ThreadsOK /\ RestTyped /\ OneOfEach /\ MindsTyped
      /\ cell.doing # "none" /\ cell.at \in Places /\ command \in Orders /\ robot \in Robots
      /\ cell' = [at |-> After(cell.doing, cell.at), doing |-> "none"]
      /\ UNCHANGED <<settings, motion, board, command, mill, sessions, threads>>
  BY StateIs, DoingIs DEF RecoveryInv, StepEnds
<1>2. /\ cell' \in Cells /\ cell'.doing = "none" /\ cell'.at = After(cell.doing, cell.at)
  BY <1>1, DoingIs DEF Cells
<1>3. PICK k \in BOOLEAN : robot' = [robot EXCEPT !.knows = k] /\ (k => command.op = cell.doing)
  BY DEF StepEnds
<1>4. robot' \in Robots /\ robot'.knows = k
  BY <1>1, <1>3 DEF Robots
<1>5. CellTyped' /\ RestTyped' /\ OneOfEach' /\ MindsTyped'
  BY <1>1, <1>2, <1>4 DEF CellTyped, RestTyped, OneOfEach, MindsTyped
<1>6. ~LockedMotion => cell'.at = cell.at
  BY <1>1, <1>2, DoingIs
<1>7. MotionOK' /\ StepOK' /\ VerdictOK'
  <2>1. MotionOK'
    BY <1>1, <1>2, <1>6 DEF MotionOK, LockedMotion
  <2>2. command.moves => cell'.at = To[command.op]
    BY <1>1, <1>2, DoingIs
  <2>3. StepOK' /\ VerdictOK'
    BY <1>1, <1>2, <1>4, <2>2, DoingIs DEF StepOK, VerdictOK, Unresolved
  <2>. QED
    BY <2>1, <2>3
<1>8. ASSUME NEW t \in Threads
      PROVE  LookOK(threads[t])'
  <2>1. LookOK(threads[t]) /\ threads'[t] = threads[t]
    BY <1>1 DEF ThreadsOK
  <2>2. ~Looked(threads[t])
    BY <1>1, <2>1 DEF LookOK
  <2>3. Judges(threads[t]) => ~LockedMotion' /\ command'.moves = FALSE
    BY <1>1, <2>1, DoingIs DEF LookOK, LockedMotion
  <2>. QED
    BY <2>1, <2>2, <2>3 DEF LookOK, Looked, Judges
<1>9. ThreadsOK'
  BY <1>8 DEF ThreadsOK
<1>. QED
  BY <1>5, <1>7, <1>9, AllParts

\* What the operator's and the movement's commits have in common.
LEMMA CommittedByOthers ==
  ASSUME RecoveryInv, BumpedByOthers, CellTyped', MotionOK', StepOK', VerdictOK', UNCHANGED <<settings, mill, sessions>>
  PROVE  RecoveryInv'
<1>1. MindsTyped' /\ \A u \in Threads : threads'[u].fresh = FALSE
  BY StateIs, AllStale
<1>2. ThreadsOK'
  BY <1>1, Unseen DEF Looked, Judges
<1>3. RestTyped' /\ OneOfEach'
  BY StateIs DEF RestTyped, OneOfEach
<1>. QED
  BY <1>1, <1>2, <1>3, AllParts

\* StartMotion keeps the invariant.
LEMMA StartMotionKeeps ==
  ASSUME RecoveryInv, StartMotion
  PROVE  RecoveryInv'
<1>1. /\ robot \in Robots /\ cell \in Cells /\ board \in Places /\ BumpedByOthers
      /\ UNCHANGED <<settings, board, mill, sessions>>
  BY StateIs DEF StartMotion
<1>2. PICK op \in Motions :
       /\ From[Head(Steps[op])] = board /\ board = cell.at
       /\ motion' = [op |-> op, status |-> "active", restarted |-> FALSE]
       /\ command' = [op |-> Head(Steps[op]), moves |-> TRUE, status |-> "sent"]
       /\ cell' = [cell EXCEPT !.doing = Head(Steps[op])]
  BY DEF StartMotion
<1>3. Head(Steps[op]) \in Moving
  BY StepsOf
<1>4. PICK s \in Moving : s = Head(Steps[op])
  BY <1>3
<1>5. /\ command' \in Orders /\ command'.op = s /\ command'.moves = TRUE /\ command'.status = "sent"
  BY <1>2, <1>4 DEF Orders
<1>6. cell' \in Cells /\ cell'.doing = s /\ cell'.at = cell.at
  BY <1>1, <1>2, <1>4 DEF Cells
<1>7. robot' \in Robots /\ robot'.knows = FALSE
  BY <1>1 DEF StartMotion, Robots
<1>8. /\ motion' \in [op : Motions \cup {"none"}, status : {"none", "active", "faulted"}, restarted : BOOLEAN]
      /\ motion'.op = op /\ motion'.status = "active"
  BY <1>2
<1>9. CellTyped'
  BY <1>1, <1>5, <1>6, <1>7, <1>8 DEF CellTyped
<1>10. MotionOK'
  BY <1>4, <1>5, <1>6, <1>8 DEF MotionOK, LockedMotion
<1>11. StepOK' /\ VerdictOK'
  BY <1>2, <1>4, <1>5, <1>6, <1>7 DEF StepOK, VerdictOK, Unresolved
<1>. QED
  BY <1>1, <1>9, <1>10, <1>11, CommittedByOthers

\* AlignRobot keeps the invariant.
LEMMA AlignRobotKeeps ==
  ASSUME RecoveryInv, AlignRobot
  PROVE  RecoveryInv'
<1>1. /\ robot \in Robots /\ cell \in Cells /\ BumpedByOthers /\ ~LockedMotion /\ MotionOK /\ CellTyped
      /\ UNCHANGED <<settings, motion, board, mill, sessions>>
  BY StateIs DEF AlignRobot, MotionReady, RecoveryInv
<1>2. command' \in Orders /\ command'.op \notin Moving /\ command'.moves = FALSE
  BY OtherOrders DEF AlignRobot
<1>3. cell' \in Cells /\ cell'.doing = Align /\ cell'.at = cell.at
  BY <1>1 DEF AlignRobot, Cells
<1>4. robot' \in Robots /\ robot'.knows = FALSE
  BY <1>1 DEF AlignRobot, Robots
<1>5. CellTyped' /\ MotionOK'
  BY <1>1, <1>2, <1>3, <1>4 DEF CellTyped, MotionOK, LockedMotion
<1>6. StepOK' /\ VerdictOK'
  BY <1>2, <1>4 DEF StepOK, VerdictOK
<1>. QED
  BY <1>1, <1>5, <1>6, CommittedByOthers

\* Hears keeps the invariant: the second step begins where the first ended, and the last one ends the movement.
LEMMA HearsKeeps ==
  ASSUME RecoveryInv, Hears
  PROVE  RecoveryInv'
<1>1. /\ robot \in Robots /\ cell \in Cells /\ command \in Orders /\ BumpedByOthers
      /\ CellTyped /\ MotionOK /\ StepOK /\ VerdictOK
      /\ command.moves /\ command.status = "sent" /\ robot.knows /\ LockedMotion
      /\ UNCHANGED <<settings, mill, sessions>>
  BY StateIs DEF Hears, RecoveryInv, ActiveMotion, LockedMotion
<1>2. /\ motion.op \in Motions /\ cell.doing = "none" /\ cell.at = To[command.op] /\ command.op \in Moving
      /\ command.op \in {Head(Steps[motion.op]), Last(Steps[motion.op])}
  BY <1>1 DEF MotionOK, StepOK
<1>3. CASE Finished /\ command' = [command EXCEPT !.status = "completed"] /\ UNCHANGED <<cell, robot>>
  <2>1. /\ motion'.op = "none" /\ motion'.status = "none" /\ board' = To[command.op]
        /\ motion' \in [op : Motions \cup {"none"}, status : {"none", "active", "faulted"}, restarted : BOOLEAN]
    BY <1>3 DEF Finished, NoMotion
  <2>2. /\ command' \in Orders /\ command'.op = command.op /\ command'.moves = command.moves
        /\ command'.status = "completed"
    BY <1>1, <1>3 DEF Orders
  <2>3. CellTyped' /\ MotionOK'
    BY <1>1, <1>2, <1>3, <2>1, <2>2, Movements, Ends DEF CellTyped, MotionOK, LockedMotion
  <2>4. StepOK' /\ VerdictOK'
    BY <1>1, <1>2, <1>3, <2>2 DEF StepOK, VerdictOK
  <2>. QED
    BY <1>1, <2>3, <2>4, CommittedByOthers
<1>4. CASE /\ command.op # Last(Steps[motion.op])
           /\ command' = [command EXCEPT !.op = Last(Steps[motion.op])]
           /\ cell' = [cell EXCEPT !.doing = Last(Steps[motion.op])]
           /\ robot' = [robot EXCEPT !.knows = FALSE]
           /\ UNCHANGED <<motion, board>>
  <2>1. PICK s \in Moving : s = Last(Steps[motion.op]) /\ From[s] = cell.at
    BY <1>2, <1>4, StepsOf
  <2>2. /\ command' \in Orders /\ command'.op = s /\ command'.moves = command.moves /\ command'.status = "sent"
    BY <1>1, <1>4, <2>1 DEF Orders
  <2>3. cell' \in Cells /\ cell'.doing = s /\ cell'.at = cell.at
    BY <1>1, <1>4, <2>1 DEF Cells
  <2>4. robot' \in Robots /\ robot'.knows = FALSE
    BY <1>1, <1>4 DEF Robots
  <2>5. CellTyped' /\ MotionOK'
    BY <1>1, <1>2, <1>4, <2>1, <2>2, <2>3, <2>4 DEF CellTyped, MotionOK, LockedMotion
  <2>6. StepOK' /\ VerdictOK'
    BY <2>1, <2>2, <2>3, <2>4 DEF StepOK, VerdictOK, Unresolved
  <2>. QED
    BY <1>1, <2>5, <2>6, CommittedByOthers
<1>. QED
  BY <1>3, <1>4 DEF Hears

\* Superseded keeps the invariant.
LEMMA SupersededKeeps ==
  ASSUME RecoveryInv, Superseded
  PROVE  RecoveryInv'
<1>1. /\ BumpedByOthers /\ CellTyped /\ MotionOK /\ StepOK /\ VerdictOK /\ cell.doing = "none" /\ command.moves = FALSE
      /\ UNCHANGED <<settings, command, cell, robot, mill, sessions>>
  BY StateIs DEF Superseded, RecoveryInv, Orders
<1>2. StepOK' /\ VerdictOK'
  BY <1>1 DEF StepOK, VerdictOK
<1>3. CASE MotionFaults /\ UNCHANGED board
  <2>1. /\ motion' \in [op : Motions \cup {"none"}, status : {"none", "active", "faulted"}, restarted : BOOLEAN]
        /\ motion'.op = motion.op /\ (motion'.status = "none" <=> motion.status = "none")
    BY <1>3, FaultedIs
  <2>2. CellTyped' /\ MotionOK'
    BY <1>1, <1>3, <2>1 DEF CellTyped, MotionOK, LockedMotion
  <2>. QED
    BY <1>1, <1>2, <2>2, CommittedByOthers
<1>4. CASE motion' = NoMotion /\ board' = cell.at
  <2>1. /\ motion' \in [op : Motions \cup {"none"}, status : {"none", "active", "faulted"}, restarted : BOOLEAN]
        /\ motion'.op = "none" /\ motion'.status = "none" /\ cell.at \in Places
    BY <1>4, StateIs DEF NoMotion, Cells
  <2>2. CellTyped' /\ MotionOK'
    BY <1>1, <1>4, <2>1, Movements DEF CellTyped, MotionOK, LockedMotion
  <2>. QED
    BY <1>1, <1>2, <2>2, CommittedByOthers
<1>. QED
  BY <1>3, <1>4 DEF Superseded

\* Poll keeps the invariant.
LEMMA PollKeeps ==
  ASSUME RecoveryInv, Poll
  PROVE  RecoveryInv'
<1>1. /\ CellTyped /\ MotionOK /\ StepOK /\ VerdictOK /\ ThreadsOK /\ RestTyped /\ OneOfEach /\ MindsTyped
      /\ command \in Orders /\ cell \in Cells /\ robot.knows
      /\ command' = [command EXCEPT !.status = "completed"]
      /\ UNCHANGED <<settings, cell, robot, mill, sessions>>
  BY StateIs DEF RecoveryInv, Poll, Reported
<1>2. cell.doing = "none" /\ (command.moves => cell.at = To[command.op])
  BY <1>1 DEF StepOK
<1>3. /\ command' \in Orders /\ command'.op = command.op /\ command'.moves = command.moves
      /\ command'.status = "completed"
  BY <1>1 DEF Orders
<1>4. StepOK' /\ VerdictOK'
  BY <1>1, <1>2, <1>3 DEF StepOK, VerdictOK
<1>5. CASE LockedMotion /\ command.moves /\ Finished /\ BumpedByOthers
  <2>1. /\ motion' \in [op : Motions \cup {"none"}, status : {"none", "active", "faulted"}, restarted : BOOLEAN]
        /\ motion'.op = "none" /\ motion'.status = "none" /\ board' = cell.at /\ cell.at \in Places
    BY <1>1, <1>2, <1>5 DEF Finished, NoMotion, Cells
  <2>2. CellTyped' /\ MotionOK'
    BY <1>1, <1>2, <1>3, <2>1, Movements DEF CellTyped, MotionOK, LockedMotion
  <2>. QED
    BY <1>1, <1>4, <1>5, <2>2, CommittedByOthers
<1>6. CASE UNCHANGED <<motion, board, threads>>
  <2>1. CellTyped' /\ MotionOK' /\ RestTyped' /\ OneOfEach' /\ MindsTyped'
    BY <1>1, <1>3, <1>6 DEF CellTyped, MotionOK, LockedMotion, RestTyped, OneOfEach, MindsTyped
  <2>2. ASSUME NEW t \in Threads
        PROVE  LookOK(threads[t])'
    <3>1. LookOK(threads[t]) /\ threads'[t] = threads[t]
      BY <1>1, <1>6 DEF ThreadsOK
    <3>. QED
      BY <1>1, <1>3, <1>6, <3>1 DEF LookOK, Looked, Judges, LockedMotion
  <2>3. ThreadsOK'
    BY <2>2 DEF ThreadsOK
  <2>. QED
    BY <1>4, <2>1, <2>3, AllParts
<1>. QED
  BY <1>5, <1>6 DEF Poll

-----------------------------------------------------------------------------
(* The theorems.                                                           *)

\* The invariant holds when the application begins.
LEMMA RecoveryBegins == Init => RecoveryInv
<1>. SUFFICES ASSUME Init PROVE RecoveryInv
  OBVIOUS
<1>1. PICK v \in BOOLEAN : settings = [run |-> FALSE, halted |-> FALSE, verified |-> v, maintenance |-> FALSE]
  BY VerifiedIsBoolean DEF Init
<1>2. settings \in Trunks /\ mill \in Mills
  BY <1>1 DEF Init, Trunks, Mills, Links
<1>3. /\ sessions \in [Sessions -> Rows] /\ \A s \in Sessions : sessions[s].status \notin Active
  BY DEF Init, Rows, Statuses, Active
<1>4. threads \in [Threads -> Minds] /\ \A t \in Threads : threads[t] = Idle
  BY Fresh DEF Init
<1>5. command \in Orders /\ command.op = "clear_latch" /\ command.moves = FALSE
  BY OtherOrders DEF Init
<1>6. /\ board \in Places /\ cell \in Cells /\ cell.at = board /\ cell.doing = "none"
      /\ robot \in Robots /\ robot.knows = FALSE
      /\ motion \in [op : Motions \cup {"none"}, status : {"none", "active", "faulted"}, restarted : BOOLEAN]
      /\ motion.op = "none" /\ motion.status = "none"
  BY DEF Init, Cells, Robots, Links, NoMotion
<1>7. RecoveryTyped
  BY <1>2, <1>3, <1>4, <1>5, <1>6 DEF RecoveryTyped, CellTyped, RestTyped, MindsTyped, OneOfEach
<1>8. MotionOK /\ StepOK /\ VerdictOK
  BY <1>5, <1>6, Movements, Ends DEF MotionOK, StepOK, VerdictOK, LockedMotion
<1>9. ThreadsOK
  BY <1>4, Fresh DEF ThreadsOK, LookOK, Looked, Judges
<1>. QED
  BY <1>7, <1>8, <1>9 DEF RecoveryInv

\* The steps of a request.
LEMMA RequestStepKeeps ==
  ASSUME RecoveryInv, NEW t \in Requests, RequestStep(t)
  PROVE  RecoveryInv'
<1>1. t \in Threads
  BY DEF Threads
<1>2. CASE InsertSession(t) \/ InsertRefused(t)
  BY <1>2, SessionsKeep
<1>3. CASE Safety(t) \/ Decide(t) \/ Finish(t)
  BY <1>1, <1>3, SavingKeeps
<1>4. CASE StopRun(t)
  BY <1>1, <1>4, StopRunKeeps
<1>5. CASE EndRun(t)
  BY <1>1, <1>5, EndRunKeeps
<1>6. CASE Place(t)
  BY <1>1, <1>6, PlaceKeeps
<1>7. CASE Verdict(t)
  BY <1>1, <1>7, VerdictKeeps
<1>8. CASE ClearLatch(t)
  BY <1>1, <1>8, ClearLatchKeeps
<1>9. CASE Command(t)
  BY <1>1, <1>9, CommandKeeps
<1>10. CASE MillCommand(t)
  BY <1>1, <1>10, MillCommandKeeps
<1>11. CASE BeginServices(t) \/ Rebuild(t) \/ MillProgram(t)
  BY <1>1, <1>11, ServicesKeep
<1>12. CASE AwaitProgram(t)
  BY <1>1, <1>12, BeginnersKeep
<1>. QED
  BY <1>2, <1>3, <1>4, <1>5, <1>6, <1>7, <1>8, <1>9, <1>10, <1>11, <1>12 DEF RequestStep

\* The steps that a request and the watchdog share.
LEMMA SharedStepKeeps ==
  ASSUME RecoveryInv, NEW t \in Threads, SharedStep(t)
  PROVE  RecoveryInv'
<1>1. CASE RobotLink(t) \/ RobotWait(t)
  BY <1>1, RobotServiceKeeps
<1>2. CASE MillLink(t)
  BY <1>2, MillLinkKeeps
<1>3. CASE Judge(t)
  BY <1>3, ServicesKeep
<1>4. CASE Mark(t)
  BY <1>4, MarkKeeps
<1>5. CASE StopScript(t)
  BY <1>5, StopScriptKeeps
<1>6. CASE SendScript(t)
  BY <1>6, SendScriptKeeps
<1>7. CASE Connect(t)
  BY <1>7, ConnectKeeps
<1>8. CASE Restore(t)
  BY <1>8, RestoreKeeps
<1>. QED
  BY <1>1, <1>2, <1>3, <1>4, <1>5, <1>6, <1>7, <1>8 DEF SharedStep

\* The steps of the cell and its troubles.
LEMMA CellAndTroublesKeep ==
  ASSUME RecoveryInv, CellStep \/ TroubleStep
  PROVE  RecoveryInv'
<1>1. CASE StepEnds
  BY <1>1, StepEndsKeeps
<1>2. CASE AlignHeard
  BY <1>2, AlignHeardKeeps
<1>3. CASE Hears
  BY <1>3, HearsKeeps
<1>4. CASE Superseded
  BY <1>4, SupersededKeeps
<1>5. CASE Poll
  BY <1>5, PollKeeps
<1>6. CASE RobotConnects \/ PendantDone \/ MillCycleEnds \/ RunFaults \/ MillDrops \/ MillRunsOther
  BY <1>6, DevicesKeep
<1>7. CASE RobotDrops \/ RobotFaults \/ PendantStops
  BY <1>7, RobotTroubleKeeps
<1>8. CASE Restart
  BY <1>8, RestartKeeps
<1>. QED
  BY <1>1, <1>2, <1>3, <1>4, <1>5, <1>6, <1>7, <1>8 DEF CellStep, TroubleStep

\* Every step keeps the invariant.
LEMMA RecoveryStep == RecoveryInv /\ [Next]_vars => RecoveryInv'
<1>. SUFFICES ASSUME RecoveryInv, [Next]_vars PROVE RecoveryInv'
  OBVIOUS
<1>1. CASE UNCHANGED vars
  <2>1. UNCHANGED <<settings, motion, board, command, cell, robot, mill, sessions, threads>>
    BY <1>1 DEF vars
  <2>2. MindsTyped' /\ Recall
    BY <2>1, StateIs, Relies DEF MindsTyped, Recall
  <2>. QED
    BY <2>1, <2>2, Thinks
<1>2. ASSUME NEW t \in Requests, StartRecovery(t) \/ RequestStep(t)
      PROVE  RecoveryInv'
  BY <1>2, SessionsKeep, RequestStepKeeps
<1>3. ASSUME NEW t \in Requests \ Answerers, RunDebugProgram(t) \/ ReconnectRobot(t)
      PROVE  RecoveryInv'
  BY <1>3, RunDebugProgramKeeps, BeginnersKeep DEF Threads
<1>4. ASSUME NEW t \in Answerers, NEW s \in Sessions, NEW confirms \in BOOLEAN, NEW chooses \in BOOLEAN,
             Answer(t, s, confirms, chooses)
      PROVE  RecoveryInv'
  BY <1>4, ThreadsDiffer, AnswerKeeps DEF Threads
<1>5. ASSUME NEW s \in Sessions, CancelSession(s)
      PROVE  RecoveryInv'
  BY <1>5, SessionsKeep
<1>6. ASSUME NEW t \in Threads, SharedStep(t)
      PROVE  RecoveryInv'
  BY <1>6, SharedStepKeeps
<1>7. ASSUME NEW w \in Watchdogs, WatchdogActs(w)
      PROVE  RecoveryInv'
  BY <1>7, BeginnersKeep DEF Threads
<1>8. CASE StartMotion
  BY <1>8, StartMotionKeeps
<1>9. CASE AlignRobot
  BY <1>9, AlignRobotKeeps
<1>10. CASE StartRun \/ RestartListener \/ LeaveMaintenance
  BY <1>10, DevicesKeep
<1>11. CASE EnterMaintenance
  BY <1>11, EnterMaintenanceKeeps
<1>12. CASE CellStep \/ TroubleStep
  BY <1>12, CellAndTroublesKeep
<1>. QED
  BY <1>1, <1>2, <1>3, <1>4, <1>5, <1>6, <1>7, <1>8, <1>9, <1>10, <1>11, <1>12 DEF Next

\* A movement stays locked as long as the robot may carry out one of its steps, the pallet is at an end of the
\* step commanded last, and a thread whose settings row is the latest knows the cell as it is (service.py
\* 5196-5263), for any number of requests, watchdogs, sessions and events.
THEOREM RecoveryIsInvariant == Spec => []RecoveryInv
BY RecoveryBegins, RecoveryStep, PTL DEF Spec

\* Types, and one session in each active status (the unique index of recovery_sessions).
THEOREM RecoveryIsTyped == Spec => []RecoveryTypeOK
<1>1. RecoveryInv => RecoveryTypeOK
  <2>. SUFFICES ASSUME RecoveryInv PROVE RecoveryTypeOK
    OBVIOUS
  <2>1. \A t \in Threads : threads[t].pc \in Pcs /\ threads[t].sid \in Sessions \cup {"none"}
    BY StateIs DEF Minds
  <2>. QED
    BY <2>1, StateIs DEF RecoveryTypeOK, Trunks, Orders, Cells, Robots, Mills, Rows, Moving, OneOfEach
<1>. QED
  BY <1>1, RecoveryIsInvariant, PTL

\* The ledger says what happened: the pallet is recorded where it is, and a verdict on the movement's
\* command agrees with where the pallet went, however the reconciliation is interrupted, refused,
\* repeated or raced by a late result of the robot (service.py 5196-5263).
THEOREM VerdictIsTheCells == Spec => []VerdictMatchesCell
<1>1. RecoveryInv => VerdictMatchesCell
  BY DEF RecoveryInv, MotionOK, VerdictOK, VerdictMatchesCell
<1>. QED
  BY <1>1, RecoveryIsInvariant, PTL
=============================================================================
