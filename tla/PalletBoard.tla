---------------------------- MODULE PalletBoard ----------------------------
(***************************************************************************)
(* The pallet board of the Mongo Production System: the rows of the tables *)
(* pallets, app_settings and robot_motions as the handlers of              *)
(* app/service.py change them, with the thread that drives one persisted   *)
(* robot movement.                                                         *)
(*                                                                         *)
(* Every board handler checks the revision its client saw and bumps it, so *)
(* two handlers never interleave: each is one action here.  The thread of  *)
(* a movement is different.  It keeps the settings row it once read, and   *)
(* its next bump conflicts with every board edit made since: that is the   *)
(* field `stale` of worker.                                                *)
(***************************************************************************)
EXTENDS Integers, FiniteSets

CONSTANTS
  Pallets,    \* pallet identities that may exist
  NoPallet,   \* the motion's pallet when no motion is locked
  MaxSlots,   \* largest pool_slot_count an operator may configure
  Simulated,  \* robot_connection_mode is "simulated"
  DebugMenu   \* debug_menu_enabled

ASSUME BoardAssumption ==
  /\ IsFiniteSet(Pallets)
  /\ NoPallet \notin Pallets
  /\ MaxSlots \in Nat \ {0}
  /\ Simulated \in BOOLEAN
  /\ DebugMenu \in BOOLEAN

VARIABLES
  location,     \* Pallet.location, "absent" for a row that does not exist
  poolSlot,     \* Pallet.pool_slot_number
  returnSlot,   \* Pallet.return_pool_slot_number
  queuePos,     \* Pallet.queue_position
  slotCount,    \* AppSettings.pool_slot_count
  stations,     \* the enabled ones among on_deck and dripping
  runMode,      \* AppSettings.run_mode_enabled
  reliability,  \* the queue reliability test: idle, checked or active
  motion,       \* the RobotMotion whose status is requested, running or faulted
  worker        \* the thread executing that motion

rowVars      == <<location, poolSlot, returnSlot, queuePos>>
placeVars    == <<location, poolSlot, returnSlot>>
settingsVars == <<slotCount, stations, runMode>>
vars == <<rowVars, settingsVars, reliability, motion, worker>>

NoSlot    == 0
NotQueued == -1
Slots     == 1..MaxSlots

Places ==
  {"absent", "pool", "on_deck", "machine", "dripping", "storage", "robot_held"}
SoloPlaces == {"machine", "on_deck", "dripping", "robot_held"}
Operations == {"pick", "put", "load_mill", "unload_mill"}
Stages ==
  {"none", "spawned", "driving", "settling", "faulting", "aborting"}

CompletionAttempts == 3

NoMotion == [pallet |-> NoPallet, op |-> "none", source |-> NoSlot,
             dest |-> NoSlot, status |-> "none"]
NoWorker == [stage |-> "none", stale |-> FALSE, tries |-> 0]

TypeOK ==
  /\ location \in [Pallets -> Places]
  /\ poolSlot \in [Pallets -> {NoSlot} \cup Slots]
  /\ returnSlot \in [Pallets -> {NoSlot} \cup Slots]
  /\ queuePos \in [Pallets -> {NotQueued} \cup Nat]
  /\ slotCount \in Slots
  /\ stations \subseteq {"on_deck", "dripping"}
  /\ runMode \in BOOLEAN
  /\ reliability \in {"idle", "checked", "active"}
  /\ motion \in [pallet : Pallets \cup {NoPallet},
                 op     : Operations \cup {"none"},
                 source : {NoSlot} \cup Slots,
                 dest   : {NoSlot} \cup Slots,
                 status : {"none", "requested", "running", "faulted"}]
  /\ worker \in [stage : Stages, stale : BOOLEAN,
                 tries : 0..(CompletionAttempts - 1)]

-----------------------------------------------------------------------------
(* Slots: what a row occupies or reserves, and what is left to give away.  *)

Present == {p \in Pallets : location[p] # "absent"}
Queued  == {p \in Pallets : queuePos[p] # NotQueued}

\* The pool position a row occupies (Pool) or reserves (Machine, Robot-held).
Claim(p) ==
  IF location[p] = "pool" THEN poolSlot[p]
  ELSE IF location[p] \in {"machine", "robot_held"} THEN returnSlot[p]
  ELSE NoSlot

\* Faulty variant: reservations of pallets that are away are overlooked.
OpenSlots_OccupiedOnly(exclude) ==
  (1..slotCount) \ {poolSlot[q] : q \in Pallets \ {exclude}}

OpenSlots(exclude) ==
  (1..slotCount) \ {Claim(q) : q \in Pallets \ {exclude}}

\* {the least element}, {} when the pool is full.
Lowest(S) == {n \in S : \A m \in S : n <= m}

first_open_pool_slot(exclude) == Lowest(OpenSlots(exclude))

Distance(a, b) == IF a < b THEN b - a ELSE a - b

\* The open position nearest the reserved one, the lower of two equally near.
best_pool_return_slot(p) ==
  LET open == OpenSlots(p)
      preferred == returnSlot[p]
      Better(n, m) == \/ Distance(n, preferred) < Distance(m, preferred)
                      \/ Distance(n, preferred) = Distance(m, preferred) /\ n <= m
  IN  IF preferred = NoSlot THEN Lowest(open)
      ELSE {n \in open : \A m \in open : Better(n, m)}

-----------------------------------------------------------------------------
(* The queue is a column: a position per queued row.                       *)

Rank(p, Q) == Cardinality({q \in Q : queuePos[q] < queuePos[p]})

\* Faulty variant: the rows that stay keep their numbers.
compact_queue_LeavesGap(Q) ==
  [p \in Pallets |-> IF p \in Q THEN queuePos[p] ELSE NotQueued]

\* Q keeps its order and is renumbered 0, 1, ...; every other row leaves.
compact_queue(Q) ==
  [p \in Pallets |-> IF p \in Q THEN Rank(p, Q) ELSE NotQueued]

Inserted(p, k) ==
  LET others == Queued \ {p}
  IN  [q \in Pallets |->
        CASE q = p -> k
          [] q \in others -> IF Rank(q, others) < k THEN Rank(q, others)
                             ELSE Rank(q, others) + 1
          [] OTHER -> NotQueued]

-----------------------------------------------------------------------------
(* Guards and effects the handlers share.                                  *)

MotionLocked == motion.status # "none"

\* Faulty variants of two guards: a check is missing.
QueueEditable_AnyPallet(p) == reliability # "active"
Manageable_Always(p) == TRUE

\* _assert_no_locked_motion
BoardEditable == ~MotionLocked /\ reliability # "active"

\* _assert_queue_edit_allowed
QueueEditable(p) ==
  reliability # "active" /\ (MotionLocked => motion.pallet # p)

\* assert_pallet_manageable_during_run
Manageable(p) == runMode => location[p] # "machine"

\* bump: a worker that already holds the settings row now holds an old one.
Bump ==
  worker' = [worker EXCEPT !.stale = worker.stage \notin {"none", "spawned"}]

Place(p, place, slot, ret) ==
  /\ location' = [location EXCEPT ![p] = place]
  /\ poolSlot' = [poolSlot EXCEPT ![p] = slot]
  /\ returnSlot' = [returnSlot EXCEPT ![p] = ret]

\* Faulty variant: only the mill is checked for another pallet.
Vacant_MillOnly(place, p) ==
  place = "machine" => \A q \in Pallets \ {p} : location[q] # place

Vacant(place, p) == \A q \in Pallets \ {p} : location[q] # place

-----------------------------------------------------------------------------
(* Pallet rows.                                                            *)

create_pallet(p) ==
  /\ p \notin Present
  /\ \E n \in first_open_pool_slot(p) : Place(p, "pool", n, NoSlot)
  /\ Bump
  /\ UNCHANGED <<queuePos, settingsVars, reliability, motion>>

duplicate_pallet(p, source) ==
  /\ source \in Present
  /\ Manageable(source)
  /\ create_pallet(p)

\* Programs, weights and content are not board state; the bump is.
update_pallet(p) ==
  /\ p \in Present
  /\ Manageable(p)
  /\ Bump
  /\ UNCHANGED <<rowVars, settingsVars, reliability, motion>>

\* Faulty variant: the slot the operator named is not checked.
MoveSlots_NamedUnchecked(p, dest, named) ==
  IF dest # "pool" THEN {NoSlot} \cap {named}
  ELSE IF named = NoSlot THEN first_open_pool_slot(p)
  ELSE (1..slotCount) \cap {named}

\* Where a move puts the pallet in the pool: the slot the operator named, the
\* first open one, or none for any other destination.
MoveSlots(p, dest, named) ==
  IF dest # "pool" THEN {NoSlot} \cap {named}
  ELSE IF named = NoSlot THEN first_open_pool_slot(p)
  ELSE OpenSlots(p) \cap {named}

move_pallet(p, dest, named) ==
  LET reservation ==
        IF dest = "machine"
        THEN IF poolSlot[p] # NoSlot THEN poolSlot[p] ELSE returnSlot[p]
        ELSE IF dest = "pool" \/ location[p] = "machine" THEN NoSlot
        ELSE returnSlot[p]
  IN  /\ p \in Present
      /\ BoardEditable
      /\ Manageable(p)
      /\ runMode => dest # "machine"
      /\ location[p] # "robot_held"
      /\ dest \in {"pool", "machine", "storage"} \cup stations
      /\ dest \in SoloPlaces => Vacant(dest, p)
      /\ \E n \in MoveSlots(p, dest, named) : Place(p, dest, n, reservation)
      /\ queuePos' = IF p \in Queued /\ dest \notin {"pool", "on_deck"}
                     THEN compact_queue(Queued \ {p})
                     ELSE queuePos
      /\ Bump
      /\ UNCHANGED <<settingsVars, reliability, motion>>

manually_return_mill_pallet_to_pool(p) ==
  /\ BoardEditable
  /\ ~runMode
  /\ location[p] = "machine"
  /\ \E n \in best_pool_return_slot(p) : Place(p, "pool", n, NoSlot)
  /\ Bump
  /\ UNCHANGED <<queuePos, settingsVars, reliability, motion>>

delete_pallet(p) ==
  /\ p \in Present
  /\ BoardEditable
  /\ Manageable(p)
  /\ Place(p, "absent", NoSlot, NoSlot)
  /\ queuePos' = IF p \in Queued THEN compact_queue(Queued \ {p}) ELSE queuePos
  /\ Bump
  /\ UNCHANGED <<settingsVars, reliability, motion>>

-----------------------------------------------------------------------------
(* The queue.                                                              *)

queue_pallet(p, k) ==
  /\ p \in Present
  /\ QueueEditable(p)
  /\ Manageable(p)
  /\ k <= Cardinality(Queued \ {p})
  /\ \/ /\ location[p] = "machine"
        /\ \E n \in best_pool_return_slot(p) : Place(p, "pool", n, NoSlot)
     \/ /\ location[p] = "pool"
        /\ UNCHANGED placeVars
  /\ queuePos' = Inserted(p, k)
  /\ Bump
  /\ UNCHANGED <<settingsVars, reliability, motion>>

dequeue_pallet(p) ==
  /\ p \in Queued
  /\ QueueEditable(p)
  /\ Manageable(p)
  /\ queuePos' = compact_queue(Queued \ {p})
  /\ Bump
  /\ UNCHANGED <<placeVars, settingsVars, reliability, motion>>

\* order[p] is the index of p in the list the client sent.
reorder_queue(order) ==
  /\ reliability # "active"
  /\ \A p, q \in Queued : order[p] = order[q] => p = q
  /\ MotionLocked /\ motion.pallet \in Queued
       => order[motion.pallet] = queuePos[motion.pallet]
  /\ runMode => \A p \in Queued :
                   location[p] = "machine" => order[p] = queuePos[p]
  /\ queuePos' = [p \in Pallets |-> IF p \in Queued THEN order[p] ELSE NotQueued]
  /\ Bump
  /\ UNCHANGED <<placeVars, settingsVars, reliability, motion>>

-----------------------------------------------------------------------------
(* Settings, Run Mode and the reliability test, as far as the board sees   *)
(* them.                                                                   *)

\* Faulty variant: pallets that are away are not asked for.
ResizePool_PooledOnly(n) ==
  /\ reliability # "active"
  /\ ~runMode
  /\ \A p \in Pallets : location[p] = "pool" => poolSlot[p] <= n
  /\ slotCount' = n
  /\ Bump
  /\ UNCHANGED <<rowVars, stations, runMode, reliability, motion>>

\* update_settings with a new pool_slot_count.
ResizePool(n) ==
  /\ reliability # "active"
  /\ ~runMode
  /\ \A p \in Pallets :
       /\ location[p] = "pool" => poolSlot[p] <= n
       /\ returnSlot[p] <= n
  /\ slotCount' = n
  /\ Bump
  /\ UNCHANGED <<rowVars, stations, runMode, reliability, motion>>

\* update_settings with a station switched on or off.
ToggleStation(s) ==
  /\ reliability # "active"
  /\ ~runMode
  /\ s \in stations => \A p \in Pallets : location[p] # s
  /\ stations' = IF s \in stations THEN stations \ {s} ELSE stations \cup {s}
  /\ Bump
  /\ UNCHANGED <<rowVars, slotCount, runMode, reliability, motion>>

start_run_mode ==
  /\ ~runMode
  /\ BoardEditable
  /\ \A p \in Pallets : location[p] = "machine" => returnSlot[p] # NoSlot
  /\ \A p \in Queued : location[p] = "pool"
  /\ runMode' = TRUE
  /\ Bump
  /\ UNCHANGED <<rowVars, slotCount, stations, reliability, motion>>

\* The operator's Stop, and every way the coordinator ends by itself.
stop_run_mode ==
  /\ runMode
  /\ runMode' = FALSE
  /\ Bump
  /\ UNCHANGED <<rowVars, slotCount, stations, reliability, motion>>

\* start_robot_reliability_test reads everything it depends on, spends seconds
\* on telemetry and script comparison, ...
CheckReliabilityTest ==
  /\ reliability = "idle"
  /\ ~runMode
  /\ BoardEditable
  /\ Queued # {}
  /\ \A p \in Queued : location[p] = "pool"
  /\ reliability' = "checked"
  /\ UNCHANGED <<rowVars, settingsVars, motion, worker>>

\* ... and commits the run without touching the revision.
CommitReliabilityTest ==
  /\ reliability = "checked"
  /\ reliability' = "active"
  /\ UNCHANGED <<rowVars, settingsVars, motion, worker>>

\* A refused start, or any end of the test: the rows are never changed by it.
EndReliabilityTest ==
  /\ reliability # "idle"
  /\ reliability' = "idle"
  /\ UNCHANGED <<rowVars, settingsVars, motion, worker>>

\* simulate_signal: complete or out_of_spec.
simulate_signal(p) ==
  /\ DebugMenu
  /\ location[p] = "machine"
  /\ \E n \in best_pool_return_slot(p) : Place(p, "pool", n, NoSlot)
  /\ Bump
  /\ UNCHANGED <<queuePos, settingsVars, reliability, motion>>

-----------------------------------------------------------------------------
(* Commanding a movement.  A simulated movement completes in the handler,  *)
(* a physical one in a thread of its own.                                  *)

CommandMotion(p, op, source, dest) ==
  /\ motion' = [pallet |-> p, op |-> op, source |-> source, dest |-> dest,
                status |-> "requested"]
  /\ worker' = [stage |-> IF Simulated THEN "settling" ELSE "spawned",
                stale |-> FALSE, tries |-> 0]

\* Faulty variant: the destination is not reserved when the robot is commanded.
Reserve_Nothing(p, slot) == UNCHANGED returnSlot

Reserve(p, slot) == returnSlot' = [returnSlot EXCEPT ![p] = slot]

MotionFree == ~MotionLocked /\ reliability # "active"

StartPick(p) ==
  /\ ~runMode
  /\ MotionFree
  /\ location[p] = "pool"
  /\ poolSlot[p] <= slotCount
  /\ Reserve(p, poolSlot[p])
  /\ CommandMotion(p, "pick", poolSlot[p], NoSlot)
  /\ UNCHANGED <<location, poolSlot, queuePos, settingsVars, reliability>>

StartPut(p, n) ==
  /\ ~runMode
  /\ MotionFree
  /\ location[p] = "robot_held"
  /\ n \in OpenSlots(p)
  /\ Reserve(p, n)
  /\ CommandMotion(p, "put", NoSlot, n)
  /\ UNCHANGED <<location, poolSlot, queuePos, settingsVars, reliability>>

\* automated: commanded by the Run Mode coordinator, not by an operator.
StartLoad(p, automated) ==
  /\ automated = runMode
  /\ MotionFree
  /\ location[p] \in {"pool", "robot_held"}
  /\ \A q \in Pallets : location[q] # "machine"
  /\ LET source == IF location[p] = "pool" THEN poolSlot[p] ELSE NoSlot
     IN  /\ Reserve(p, IF source # NoSlot THEN source ELSE returnSlot[p])
         /\ CommandMotion(p, "load_mill", source, NoSlot)
  /\ UNCHANGED <<location, poolSlot, queuePos, settingsVars, reliability>>

StartUnload(p, n, automated) ==
  /\ automated = runMode
  /\ MotionFree
  /\ location[p] = "machine"
  /\ n \in OpenSlots(p)
  /\ Reserve(p, n)
  /\ CommandMotion(p, "unload_mill", NoSlot, n)
  /\ UNCHANGED <<location, poolSlot, queuePos, settingsVars, reliability>>

start_automatic_put_away(p) ==
  \E n \in best_pool_return_slot(p) : StartPut(p, n) \/ StartUnload(p, n, FALSE)

-----------------------------------------------------------------------------
(* The thread of a movement: execute_pallet_motion and _finish_motion.     *)

Active == motion.status \in {"requested", "running"}

ToStage(stage) ==
  worker' = [stage |-> stage, stale |-> worker.stale, tries |-> 0]

\* The thread opens its session and reads the settings row.
WorkerBegins ==
  /\ worker.stage = "spawned"
  /\ worker' = [NoWorker EXCEPT !.stage = "driving"]
  /\ UNCHANGED <<rowVars, settingsVars, reliability, motion>>

\* The robot accepted the program: a commit that does not touch the revision.
RobotStarts ==
  /\ worker.stage = "driving"
  /\ motion.status = "requested"
  /\ motion' = [motion EXCEPT !.status = "running"]
  /\ UNCHANGED <<rowVars, settingsVars, reliability, worker>>

\* _mark_pick_as_held_after_lift.  A lost commit is not retried here: it ends
\* in the worker's last exception handler.
LiftObserved ==
  LET p == motion.pallet
  IN  /\ worker.stage = "driving"
      /\ motion.status = "running"
      /\ motion.op = "pick"
      /\ location[p] = "pool" /\ poolSlot[p] = motion.source
      /\ Vacant("robot_held", p)
      /\ \/ /\ ~worker.stale
            /\ Place(p, "robot_held", NoSlot, motion.source)
            /\ UNCHANGED worker
         \/ /\ worker.stale
            /\ worker' = [NoWorker EXCEPT !.stage = "aborting"]
            /\ UNCHANGED placeVars
      /\ UNCHANGED <<queuePos, settingsVars, reliability, motion>>

RobotSettles ==
  /\ worker.stage = "driving"
  /\ motion.status = "running"
  /\ ToStage("settling")
  /\ UNCHANGED <<rowVars, settingsVars, reliability, motion>>

\* Refused or uncertain start, safety stop, wrong final pose, timeout.
RobotFails ==
  /\ worker.stage = "driving"
  /\ ToStage("faulting")
  /\ UNCHANGED <<rowVars, settingsVars, reliability, motion>>

\* What a confirmed movement writes into the row of its pallet.
ResultPlace ==
  CASE motion.op = "pick" -> "robot_held"
    [] motion.op = "load_mill" -> "machine"
    [] OTHER -> "pool"

\* Faulty variant: a pallet put away keeps its reservation.
ResultReturn_NotCleared ==
  IF motion.op = "pick" THEN motion.source ELSE returnSlot[motion.pallet]

ResultReturn ==
  CASE motion.op = "pick" -> motion.source
    [] motion.op = "load_mill" ->
         IF motion.source # NoSlot THEN motion.source ELSE returnSlot[motion.pallet]
    [] OTHER -> NoSlot

\* The unique indexes of the table pallets accept the result.
ResultFits ==
  LET p == motion.pallet
  IN  /\ ResultPlace \in SoloPlaces => Vacant(ResultPlace, p)
      /\ ResultPlace = "pool" =>
           \A q \in Pallets \ {p} :
             location[q] = "pool" => poolSlot[q] # motion.dest

FinishSucceeds ==
  LET p == motion.pallet
  IN  /\ worker.stage = "settling"
      /\ ~worker.stale
      /\ ResultFits
      /\ Place(p, ResultPlace, motion.dest, ResultReturn)
      /\ queuePos' = IF motion.op = "load_mill" /\ p \in Queued
                     THEN compact_queue(Queued \ {p})
                     ELSE queuePos
      /\ motion' = NoMotion
      /\ worker' = NoWorker
      /\ UNCHANGED <<settingsVars, reliability>>

FinishFaults ==
  /\ worker.stage \in {"faulting", "aborting"}
  /\ ~worker.stale
  /\ motion' = [motion EXCEPT !.status = "faulted"]
  /\ worker' = NoWorker
  /\ UNCHANGED <<rowVars, settingsVars, reliability>>

\* Faulty variant: one attempt more than the loop makes.
FinishConflicts_OneMore ==
  /\ worker.stage \in {"settling", "faulting", "aborting"} /\ worker.stale
  /\ worker' = IF worker.tries < CompletionAttempts
               THEN [worker EXCEPT !.stale = FALSE, !.tries = @ + 1]
               ELSE NoWorker
  /\ UNCHANGED <<rowVars, settingsVars, reliability, motion>>

\* commit_or_conflict rolled the completion back: read again, up to three
\* times.  Then the exception reaches the worker's last handler, which tries
\* to fault the motion, and when that is lost too the thread ends.
FinishConflicts ==
  /\ \/ worker.stage \in {"settling", "faulting", "aborting"} /\ worker.stale
     \/ worker.stage = "settling" /\ ~ResultFits
  /\ worker' =
       IF worker.tries < CompletionAttempts - 1
       THEN [worker EXCEPT !.stale = FALSE, !.tries = @ + 1]
       ELSE IF worker.stage = "aborting" \/ Simulated
       THEN NoWorker
       ELSE [NoWorker EXCEPT !.stage = "aborting"]
  /\ UNCHANGED <<rowVars, settingsVars, reliability, motion>>

-----------------------------------------------------------------------------
(* Recovery.                                                               *)

AllowedResolutions ==
  CASE motion.op = "pick" -> {"source_pool", "robot_held"}
    [] motion.op = "put" -> {"robot_held", "destination_pool"}
    [] motion.op = "load_mill" ->
         {"robot_held", "machine"}
           \cup (IF motion.source # NoSlot THEN {"source_pool"} ELSE {})
    [] OTHER -> {"machine", "robot_held", "destination_pool"}

\* Faulty variant: only the position the movement started from is remembered.
KeptReturn_SourceOnly == motion.source

\* The reservation that survives when the pallet ends in the mill or the gripper.
KeptReturn ==
  IF returnSlot[motion.pallet] # NoSlot THEN returnSlot[motion.pallet]
  ELSE IF motion.source # NoSlot THEN motion.source
  ELSE motion.dest

recover_pallet_motion(resolution) ==
  LET p == motion.pallet
      ToPool(slot) ==
        /\ \A q \in Pallets \ {p} : location[q] = "pool" => poolSlot[q] # slot
        /\ Place(p, "pool", slot, NoSlot)
  IN  /\ motion.status = "faulted"
      /\ resolution \in AllowedResolutions
      /\ \/ /\ resolution \in {"machine", "robot_held"}
            /\ Vacant(resolution, p)
            /\ Place(p, resolution, NoSlot, KeptReturn)
         \/ resolution = "source_pool" /\ ToPool(motion.source)
         \/ resolution = "destination_pool" /\ ToPool(motion.dest)
      /\ motion' = NoMotion
      /\ Bump
      /\ UNCHANGED <<queuePos, settingsVars, reliability>>

\* The process ends and starts again: interrupt_active_pallet_motion,
\* interrupt_robot_reliability_test and interrupt_run_mode.
Restart ==
  /\ motion' = IF Active THEN [motion EXCEPT !.status = "faulted"] ELSE motion
  /\ worker' = NoWorker
  /\ runMode' = FALSE
  /\ reliability' = "idle"
  /\ UNCHANGED <<rowVars, slotCount, stations>>

-----------------------------------------------------------------------------
Init ==
  /\ location = [p \in Pallets |-> "absent"]
  /\ poolSlot = [p \in Pallets |-> NoSlot]
  /\ returnSlot = [p \in Pallets |-> NoSlot]
  /\ queuePos = [p \in Pallets |-> NotQueued]
  /\ slotCount = MaxSlots
  /\ stations = {"on_deck", "dripping"}
  /\ runMode = FALSE
  /\ reliability = "idle"
  /\ motion = NoMotion
  /\ worker = NoWorker

BoardNext ==
  \/ \E p \in Pallets : create_pallet(p) \/ update_pallet(p) \/ delete_pallet(p)
  \/ \E p, source \in Pallets : duplicate_pallet(p, source)
  \/ \E p \in Pallets, dest \in Places, named \in {NoSlot} \cup Slots :
       move_pallet(p, dest, named)
  \/ \E p \in Pallets :
       manually_return_mill_pallet_to_pool(p) \/ simulate_signal(p)
  \/ \E n \in Slots : ResizePool(n)
  \/ \E s \in {"on_deck", "dripping"} : ToggleStation(s)

QueueNext ==
  \/ \E p \in Pallets, k \in 0..Cardinality(Pallets) : queue_pallet(p, k)
  \/ \E p \in Pallets : dequeue_pallet(p)
  \/ \E order \in [Queued -> 0..(Cardinality(Queued) - 1)] : reorder_queue(order)

ModeNext ==
  \/ start_run_mode \/ stop_run_mode
  \/ CheckReliabilityTest \/ CommitReliabilityTest \/ EndReliabilityTest

MotionNext ==
  \/ \E p \in Pallets : StartPick(p) \/ start_automatic_put_away(p)
  \/ \E p \in Pallets, n \in Slots : StartPut(p, n)
  \/ \E p \in Pallets, automated \in BOOLEAN : StartLoad(p, automated)
  \/ \E p \in Pallets, n \in Slots, automated \in BOOLEAN :
       StartUnload(p, n, automated)
  \/ \E resolution \in {"machine", "robot_held", "source_pool", "destination_pool"} :
       recover_pallet_motion(resolution)

WorkerNext ==
  \/ WorkerBegins \/ RobotStarts \/ LiftObserved \/ RobotSettles \/ RobotFails
  \/ FinishSucceeds \/ FinishFaults \/ FinishConflicts

Next == BoardNext \/ QueueNext \/ ModeNext \/ MotionNext \/ WorkerNext \/ Restart

Spec == Init /\ [][Next]_vars

-----------------------------------------------------------------------------
(* Safety.                                                                 *)

\* No pool position is promised twice: a position that a pallet occupies, or
\* that is reserved for the return of a pallet in the mill or in the gripper,
\* is neither occupied by nor reserved for another pallet.  Every handler
\* that hands out positions (create, duplicate, move, queue, put, unload,
\* automatic put-away, signals, recovery) has to look at both columns.
SlotsExclusive ==
  \A p, q \in Pallets :
    p # q /\ Claim(p) # NoSlot => Claim(p) # Claim(q)

\* A pool that is resized while pallets are away still has the position each
\* of them returns to, and a pallet in the pool has a real position.
ClaimsInsidePool ==
  \A p \in Pallets :
    /\ Claim(p) <= slotCount
    /\ location[p] = "pool" => poolSlot[p] # NoSlot

\* The mill, the gripper and the two stations hold one pallet each, also when a
\* recovery or the end of a movement decides where a pallet is.
OnePalletPerPlace ==
  \A p, q \in Pallets :
    p # q /\ location[p] \in SoloPlaces => location[q] # location[p]

\* A pallet in the gripper can always be put away: whatever happened to its
\* movement, some position is still reserved for it.
HeldPalletCanReturn ==
  \A p \in Pallets : location[p] = "robot_held" => returnSlot[p] # NoSlot

\* A reservation is held only by a pallet that is away, or by the pallet of the
\* movement that is about to take it away: no forgotten return slot comes back
\* to life, or blocks a resize, later.
NoForgottenReservation ==
  \A p \in Pallets :
    returnSlot[p] # NoSlot /\ location[p] \notin {"machine", "robot_held"} =>
      MotionLocked /\ motion.pallet = p

\* Until a movement is finished or reconciled, the positions it leaves and
\* leads to stay claimed by its pallet: the robot never places it on another
\* pallet, and recovery can record it at either end.
MotionKeepsItsSlots ==
  MotionLocked =>
    \A n \in {motion.source, motion.dest} \ {NoSlot} : Claim(motion.pallet) = n

\* Queue positions are 0, 1, ... without gap or repetition after any mix of
\* insertions, removals, moves, loads and reorders.
QueueIsContiguous ==
  /\ {queuePos[p] : p \in Queued} = 0..(Cardinality(Queued) - 1)
  /\ \A p \in Queued : location[p] # "absent"

\* While Run Mode is on, the pallet in the mill leaves it only through a robot
\* movement of that pallet, however the board is edited meanwhile (the debug
\* menu's signal is not guarded).
RunModeKeepsMillPallet ==
  [][\A p \in Pallets :
       runMode /\ runMode' /\ location[p] = "machine" /\ location'[p] # "machine"
         => \/ MotionLocked /\ motion.pallet = p
            \/ simulate_signal(p)]_vars

\* A board edit never moves the pallet of a locked movement: between command
\* and reconciliation its row changes place only by what the worker observed
\* or the operator confirmed, or by the debug menu's signal; and no queue edit
\* puts it into the queue or takes it out ("without changing the motion's
\* pallet"): only its arrival in the mill does.
LockedPalletMovesByMotionOnly ==
  [][MotionLocked =>
       /\ location'[motion.pallet] # location[motion.pallet] =>
            \/ motion' = NoMotion
            \/ motion.op = "pick" /\ location'[motion.pallet] = "robot_held"
            \/ simulate_signal(motion.pallet)
       /\ MotionLocked' => (motion.pallet \in Queued <=> motion.pallet \in Queued')]_vars

-----------------------------------------------------------------------------
(* The inductive invariant behind the safety properties.                   *)

Away == {"machine", "robot_held"}

\* The three columns of a row agree with each other and with the pool.
RowShape(p) ==
  /\ location[p] = "pool" <=> poolSlot[p] # NoSlot
  /\ location[p] = "robot_held" => returnSlot[p] # NoSlot
  /\ location[p] \notin Away => returnSlot[p] \in {NoSlot, poolSlot[p]}
  /\ poolSlot[p] <= slotCount /\ returnSlot[p] <= slotCount

\* A locked motion names a pallet that is at one of the two ends of it.
MotionShape ==
  LET at == location[motion.pallet]
      leaves == motion.source # NoSlot
      enters == motion.dest # NoSlot
  IN  IF ~MotionLocked THEN motion = NoMotion
      ELSE /\ motion.pallet \in Pallets
           /\ CASE motion.op = "pick" -> leaves /\ ~enters /\ at \in {"pool", "robot_held"}
                [] motion.op = "put"  -> enters /\ ~leaves /\ at = "robot_held"
                [] motion.op = "load_mill" ->
                     ~enters /\ at = (IF leaves THEN "pool" ELSE "robot_held")
                [] motion.op = "unload_mill" ->
                     enters /\ ~leaves /\ at \in {"machine", "pool"}
                [] OTHER -> FALSE

WorkerHasMotion == worker.stage # "none" => Active

BoardInv ==
  /\ TypeOK
  /\ \A p \in Pallets : RowShape(p)
  /\ SlotsExclusive
  /\ OnePalletPerPlace
  /\ NoForgottenReservation
  /\ MotionShape
  /\ MotionKeepsItsSlots
  /\ WorkerHasMotion

-----------------------------------------------------------------------------
(* Refinement.                                                             *)

Claims == [p \in Pallets |-> Claim(p)]

Pool == INSTANCE PoolAllocation WITH claim <- Claims, size <- slotCount

\* Seen through the claims, the board is an allocator of pool positions: every
\* handler, movement, recovery and restart takes a free position for one
\* pallet, gives one back, resizes above all claims, or changes no claim.
BoardAllocatesPool == Pool!Spec

-----------------------------------------------------------------------------
(* What comments, docs and the schema say and the code does not keep.      *)

\* "Moving a pallet into Machine or Storage removes it from the Queue."
MillPalletIsNotQueued ==
  \A p \in Pallets : location[p] = "machine" => p \notin Queued

\* The schema allows one Robot-held pallet: the robot is never sent to pick
\* one up while it holds another.
PickWithEmptyGripper ==
  Active /\ motion.source # NoSlot => Vacant("robot_held", motion.pallet)

\* "Every terminal outcome is committed for recovery": a motion that is still
\* requested or running has a thread that will decide it.
EveryOutcomeIsCommitted == Active => worker.stage # "none"

\* The reliability test and a commanded movement exclude each other.
ReliabilityExcludesMotion == ~(reliability = "active" /\ MotionLocked)
=============================================================================
