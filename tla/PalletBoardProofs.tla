------------------------- MODULE PalletBoardProofs -------------------------
(***************************************************************************)
(* Theorems about PalletBoard, for every set of pallets and every pool     *)
(* size: the tables are well typed, the queue is numbered without gap or   *)
(* repetition, BoardInv is inductive, and each safety invariant of         *)
(* PalletBoard follows from it, as do the two action properties about who  *)
(* moves a pallet.                                                         *)
(*                                                                         *)
(* Most handlers move one row: they are instances of Relocation.  What is  *)
(* left is the motion: StillStep is a step that leaves the rows alone,     *)
(* QuietRelocation one that moves a row no locked motion names.            *)
(***************************************************************************)
EXTENDS PalletBoard, FiniteSetTheorems, TLAPS

-----------------------------------------------------------------------------
(* What the shared operators return.                                       *)

SlotOrNone == {NoSlot} \cup Slots

\* A row written by Place is well typed.
LEMMA PlaceTyped ==
  ASSUME TypeOK, NEW p \in Pallets, NEW place \in Places,
         NEW slot \in SlotOrNone, NEW ret \in SlotOrNone,
         Place(p, place, slot, ret)
  PROVE  /\ location' \in [Pallets -> Places]
         /\ poolSlot' \in [Pallets -> SlotOrNone]
         /\ returnSlot' \in [Pallets -> SlotOrNone]
BY DEF TypeOK, Place, SlotOrNone

\* Open positions are positions of the pool as it is configured.
LEMMA OpenSlotsTyped ==
  ASSUME TypeOK, NEW p
  PROVE  OpenSlots(p) \subseteq Slots /\ OpenSlots(p) \subseteq 1..slotCount
BY BoardAssumption DEF TypeOK, OpenSlots, Slots

\* The slot a handler chooses by itself is an open one.
LEMMA ChosenSlotsAreOpen ==
  ASSUME TypeOK, NEW p
  PROVE  /\ first_open_pool_slot(p) \subseteq OpenSlots(p)
         /\ best_pool_return_slot(p) \subseteq OpenSlots(p)
         /\ \A dest, named : MoveSlots(p, dest, named) \subseteq OpenSlots(p) \cup {NoSlot}
         /\ \A named : MoveSlots(p, "pool", named) \subseteq OpenSlots(p)
BY DEF first_open_pool_slot, best_pool_return_slot, MoveSlots, Lowest

\* Sets of pallets are finite, and ranks are natural numbers.
LEMMA RankTyped ==
  ASSUME NEW Q \in SUBSET Pallets, NEW p
  PROVE  Rank(p, Q) \in Nat
<1>1. IsFiniteSet({q \in Q : queuePos[q] < queuePos[p]})
  BY BoardAssumption, FS_Subset
<1>. QED
  BY <1>1, FS_CardinalityType DEF Rank

\* Renumbering yields positions.
LEMMA CompactTyped ==
  ASSUME NEW Q \in SUBSET Pallets
  PROVE  compact_queue(Q) \in [Pallets -> {NotQueued} \cup Nat]
BY RankTyped DEF compact_queue

\* So does inserting at a position.
LEMMA InsertedTyped ==
  ASSUME NEW p \in Pallets, NEW k \in Nat
  PROVE  Inserted(p, k) \in [Pallets -> {NotQueued} \cup Nat]
<1>1. Queued \ {p} \in SUBSET Pallets
  BY DEF Queued
<1>2. \A q \in Pallets : Rank(q, Queued \ {p}) \in Nat
  BY <1>1, RankTyped
<1>. QED
  BY <1>2 DEF Inserted

\* The queued rows are a finite set of pallets.
LEMMA QueuedTyped == Queued \in SUBSET Pallets /\ Cardinality(Queued) \in Nat
<1>1. IsFiniteSet(Queued)
  BY BoardAssumption, FS_Subset DEF Queued
<1>. QED
  BY <1>1, FS_CardinalityType DEF Queued

-----------------------------------------------------------------------------
(* Type correctness, one lemma per group of actions.                       *)

MotionType ==
  [pallet : Pallets \cup {NoPallet}, op : Operations \cup {"none"},
   source : SlotOrNone, dest : SlotOrNone,
   status : {"none", "requested", "running", "faulted"}]
WorkerType ==
  [stage : Stages, stale : BOOLEAN, tries : 0..(CompletionAttempts - 1)]

TypeShape ==
  /\ location \in [Pallets -> Places]
  /\ poolSlot \in [Pallets -> SlotOrNone]
  /\ returnSlot \in [Pallets -> SlotOrNone]
  /\ queuePos \in [Pallets -> {NotQueued} \cup Nat]
  /\ slotCount \in Slots
  /\ stations \subseteq {"on_deck", "dripping"}
  /\ runMode \in BOOLEAN
  /\ reliability \in {"idle", "checked", "active"}
  /\ motion \in MotionType
  /\ worker \in WorkerType

\* TypeOK with its record sets named, before and after a step.
LEMMA TypeParts == (TypeOK <=> TypeShape) /\ (TypeOK' <=> TypeShape')
BY DEF TypeOK, TypeShape, SlotOrNone, MotionType, WorkerType

\* A board edit leaves a well-typed thread.
LEMMA BumpTyped ==
  ASSUME TypeOK, Bump
  PROVE  worker' \in WorkerType
BY TypeParts DEF TypeShape, Bump, WorkerType

\* The handlers of pallet rows and of the pool settings preserve the types.
LEMMA BoardNextTyped ==
  ASSUME TypeOK, BoardNext
  PROVE  TypeOK'
<1> USE TypeParts DEF TypeShape
<1>1. ASSUME NEW p \in Pallets, create_pallet(p)
      PROVE  TypeOK'
  <2>1. PICK n \in first_open_pool_slot(p) : Place(p, "pool", n, NoSlot)
    BY <1>1 DEF create_pallet
  <2>2. n \in SlotOrNone
    BY <2>1, OpenSlotsTyped, ChosenSlotsAreOpen DEF SlotOrNone
  <2>. QED
    BY <1>1, <2>1, <2>2, PlaceTyped, BumpTyped
    DEF create_pallet, settingsVars, Places, SlotOrNone
<1>2. ASSUME NEW p \in Pallets, update_pallet(p)
      PROVE  TypeOK'
  BY <1>2, BumpTyped DEF update_pallet, rowVars, settingsVars
<1>3. ASSUME NEW p \in Pallets, delete_pallet(p)
      PROVE  TypeOK'
  <2>1. queuePos' \in [Pallets -> {NotQueued} \cup Nat]
    BY <1>3, CompactTyped, QueuedTyped DEF delete_pallet
  <2>. QED
    BY <1>3, <2>1, PlaceTyped, BumpTyped
    DEF delete_pallet, settingsVars, Places, SlotOrNone
<1>4. ASSUME NEW p \in Pallets, NEW source \in Pallets, duplicate_pallet(p, source)
      PROVE  TypeOK'
  BY <1>1, <1>4 DEF duplicate_pallet
<1>5. ASSUME NEW p \in Pallets, NEW dest \in Places, NEW named \in {NoSlot} \cup Slots,
             move_pallet(p, dest, named)
      PROVE  TypeOK'
  <2>1. PICK ret \in SlotOrNone : \E n \in MoveSlots(p, dest, named) :
                                     Place(p, dest, n, ret)
    BY <1>5 DEF move_pallet, SlotOrNone
  <2>2. PICK n \in MoveSlots(p, dest, named) : Place(p, dest, n, ret)
    BY <2>1
  <2>3. n \in SlotOrNone
    BY <2>2, OpenSlotsTyped, ChosenSlotsAreOpen DEF SlotOrNone
  <2>4. queuePos' \in [Pallets -> {NotQueued} \cup Nat]
    BY <1>5, CompactTyped, QueuedTyped DEF move_pallet
  <2>. QED
    BY <1>5, <2>2, <2>3, <2>4, PlaceTyped, BumpTyped
    DEF move_pallet, settingsVars
<1>6. ASSUME NEW p \in Pallets,
             manually_return_mill_pallet_to_pool(p) \/ simulate_signal(p)
      PROVE  TypeOK'
  <2>1. PICK n \in best_pool_return_slot(p) : Place(p, "pool", n, NoSlot)
    BY <1>6 DEF manually_return_mill_pallet_to_pool, simulate_signal
  <2>2. n \in SlotOrNone
    BY <2>1, OpenSlotsTyped, ChosenSlotsAreOpen DEF SlotOrNone
  <2>. QED
    BY <1>6, <2>1, <2>2, PlaceTyped, BumpTyped
    DEF manually_return_mill_pallet_to_pool, simulate_signal, settingsVars,
        Places, SlotOrNone
<1>7. ASSUME NEW n \in Slots, ResizePool(n)
      PROVE  TypeOK'
  BY <1>7, BumpTyped DEF ResizePool, rowVars
<1>8. ASSUME NEW s \in {"on_deck", "dripping"}, ToggleStation(s)
      PROVE  TypeOK'
  BY <1>8, BumpTyped DEF ToggleStation, rowVars
<1>. QED
  BY <1>1, <1>2, <1>3, <1>4, <1>5, <1>6, <1>7, <1>8 DEF BoardNext

\* The queue handlers preserve the types.
LEMMA QueueNextTyped ==
  ASSUME TypeOK, QueueNext
  PROVE  TypeOK'
<1> USE TypeParts DEF TypeShape
<1>1. ASSUME NEW p \in Pallets, NEW k \in 0..Cardinality(Pallets), queue_pallet(p, k)
      PROVE  TypeOK'
  <2>1. queuePos' \in [Pallets -> {NotQueued} \cup Nat]
    BY <1>1, InsertedTyped DEF queue_pallet
  <2>2. /\ location' \in [Pallets -> Places]
        /\ poolSlot' \in [Pallets -> SlotOrNone]
        /\ returnSlot' \in [Pallets -> SlotOrNone]
    <3>1. CASE UNCHANGED placeVars
      BY <3>1 DEF placeVars
    <3>2. ASSUME NEW n \in best_pool_return_slot(p), Place(p, "pool", n, NoSlot)
          PROVE  <2>2!1 /\ <2>2!2 /\ <2>2!3
      <4>1. n \in SlotOrNone /\ "pool" \in Places /\ NoSlot \in SlotOrNone
        BY OpenSlotsTyped, ChosenSlotsAreOpen DEF SlotOrNone, Places
      <4>. QED
        BY <3>2, <4>1, PlaceTyped
    <3>. QED
      BY <1>1, <3>1, <3>2 DEF queue_pallet
  <2>. QED
    BY <1>1, <2>1, <2>2, BumpTyped DEF queue_pallet, settingsVars
<1>2. ASSUME NEW p \in Pallets, dequeue_pallet(p)
      PROVE  TypeOK'
  <2>1. queuePos' \in [Pallets -> {NotQueued} \cup Nat]
    BY <1>2, CompactTyped, QueuedTyped DEF dequeue_pallet
  <2>. QED
    BY <1>2, <2>1, BumpTyped DEF dequeue_pallet, placeVars, settingsVars
<1>3. ASSUME NEW order \in [Queued -> 0..(Cardinality(Queued) - 1)], reorder_queue(order)
      PROVE  TypeOK'
  <2>1. queuePos' \in [Pallets -> {NotQueued} \cup Nat]
    BY <1>3, QueuedTyped DEF reorder_queue
  <2>. QED
    BY <1>3, <2>1, BumpTyped DEF reorder_queue, placeVars, settingsVars
<1>. QED
  BY <1>1, <1>2, <1>3 DEF QueueNext

\* Run Mode and the reliability test preserve the types.
LEMMA ModeNextTyped ==
  ASSUME TypeOK, ModeNext
  PROVE  TypeOK'
BY TypeParts, BumpTyped
DEF TypeShape, ModeNext, start_run_mode, stop_run_mode, CheckReliabilityTest,
    CommitReliabilityTest, EndReliabilityTest, rowVars, settingsVars

\* Commanding a movement leaves a well-typed motion and thread.
LEMMA CommandTyped ==
  ASSUME NEW p \in Pallets, NEW op \in Operations,
         NEW source \in SlotOrNone, NEW dest \in SlotOrNone,
         CommandMotion(p, op, source, dest)
  PROVE  motion' \in MotionType /\ worker' \in WorkerType
BY DEF CommandMotion, MotionType, WorkerType, Stages, CompletionAttempts

\* Commanding and reconciling movements preserves the types.
LEMMA MotionNextTyped ==
  ASSUME TypeOK, MotionNext
  PROVE  TypeOK'
<1> USE TypeParts DEF TypeShape
<1>1. ASSUME NEW p \in Pallets, StartPick(p)
      PROVE  TypeOK'
  <2>1. poolSlot[p] \in SlotOrNone /\ NoSlot \in SlotOrNone /\ "pick" \in Operations
    BY DEF SlotOrNone, Operations
  <2>. QED
    BY <1>1, <2>1, CommandTyped DEF StartPick, Reserve, settingsVars
<1>2. ASSUME NEW p \in Pallets, NEW n \in Slots, StartPut(p, n)
      PROVE  TypeOK'
  <2>1. n \in SlotOrNone /\ NoSlot \in SlotOrNone /\ "put" \in Operations
    BY DEF SlotOrNone, Operations
  <2>. QED
    BY <1>2, <2>1, CommandTyped DEF StartPut, Reserve, settingsVars
<1>3. ASSUME NEW p \in Pallets, NEW automated \in BOOLEAN, StartLoad(p, automated)
      PROVE  TypeOK'
  <2>1. PICK source \in SlotOrNone :
          /\ Reserve(p, IF source # NoSlot THEN source ELSE returnSlot[p])
          /\ CommandMotion(p, "load_mill", source, NoSlot)
    BY <1>3 DEF StartLoad, SlotOrNone
  <2>2. NoSlot \in SlotOrNone /\ "load_mill" \in Operations
    BY DEF SlotOrNone, Operations
  <2>. QED
    BY <1>3, <2>1, <2>2, CommandTyped DEF StartLoad, Reserve, settingsVars
<1>4. ASSUME NEW p \in Pallets, NEW n \in Slots, NEW automated \in BOOLEAN,
             StartUnload(p, n, automated)
      PROVE  TypeOK'
  <2>1. n \in SlotOrNone /\ NoSlot \in SlotOrNone /\ "unload_mill" \in Operations
    BY DEF SlotOrNone, Operations
  <2>. QED
    BY <1>4, <2>1, CommandTyped DEF StartUnload, Reserve, settingsVars
<1>5. ASSUME NEW p \in Pallets, start_automatic_put_away(p)
      PROVE  TypeOK'
  BY <1>2, <1>4, <1>5, OpenSlotsTyped, ChosenSlotsAreOpen DEF start_automatic_put_away
<1>6. ASSUME NEW resolution, recover_pallet_motion(resolution)
      PROVE  TypeOK'
  <2>. DEFINE p == motion.pallet
  <2>1. motion \in MotionType
    OBVIOUS
  <2>2. /\ location' \in [Pallets -> Places]
        /\ poolSlot' \in [Pallets -> SlotOrNone]
        /\ returnSlot' \in [Pallets -> SlotOrNone]
    BY <1>6, <2>1
    DEF recover_pallet_motion, KeptReturn, MotionType, Place, SlotOrNone, Places
  <2>3. NoMotion \in MotionType
    BY DEF NoMotion, MotionType, SlotOrNone
  <2>. QED
    BY <1>6, <2>2, <2>3, BumpTyped DEF recover_pallet_motion, settingsVars
<1>. QED
  BY <1>1, <1>2, <1>3, <1>4, <1>5, <1>6 DEF MotionNext

\* A thread in any of its stages is well typed.
LEMMA StageTyped ==
  ASSUME worker \in WorkerType, NEW stage \in Stages
  PROVE  /\ NoWorker \in WorkerType
         /\ [NoWorker EXCEPT !.stage = stage] \in WorkerType
         /\ [stage |-> stage, stale |-> worker.stale, tries |-> 0] \in WorkerType
         /\ worker.tries < CompletionAttempts - 1 =>
              [worker EXCEPT !.stale = FALSE, !.tries = @ + 1] \in WorkerType
<1>1. NoWorker \in WorkerType /\ 0 \in 0..(CompletionAttempts - 1)
  BY DEF NoWorker, WorkerType, Stages, CompletionAttempts
<1>2. [NoWorker EXCEPT !.stage = stage] \in WorkerType
  BY <1>1 DEF WorkerType
<1>3. worker.stale \in BOOLEAN /\ worker.tries \in 0..(CompletionAttempts - 1)
  BY DEF WorkerType
<1>4. [stage |-> stage, stale |-> worker.stale, tries |-> 0] \in WorkerType
  BY <1>1, <1>3 DEF WorkerType
<1>5. ASSUME worker.tries < CompletionAttempts - 1
      PROVE  [worker EXCEPT !.stale = FALSE, !.tries = @ + 1] \in WorkerType
  <2>1. worker.tries + 1 \in 0..(CompletionAttempts - 1)
    BY <1>3, <1>5 DEF CompletionAttempts
  <2>. QED
    BY <2>1 DEF WorkerType
<1>. QED
  BY <1>1, <1>2, <1>4, <1>5

\* The thread of a movement preserves the types.
LEMMA WorkerNextTyped ==
  ASSUME TypeOK, WorkerNext
  PROVE  TypeOK'
<1> USE TypeParts DEF TypeShape
<1>1. NoMotion \in MotionType /\ NoWorker \in WorkerType
  BY DEF NoMotion, MotionType, NoWorker, WorkerType, SlotOrNone, Stages,
         CompletionAttempts
<1>2. motion \in MotionType /\ worker \in WorkerType
  OBVIOUS
<1>3. CASE WorkerBegins \/ RobotStarts \/ RobotSettles \/ RobotFails
  <2>1. worker' \in WorkerType
    BY <1>2, <1>3, StageTyped
    DEF WorkerBegins, RobotStarts, RobotSettles, RobotFails, ToStage, Stages
  <2>2. motion' \in MotionType
    BY <1>2, <1>3
    DEF WorkerBegins, RobotStarts, RobotSettles, RobotFails, MotionType
  <2>. QED
    BY <1>3, <2>1, <2>2
    DEF WorkerBegins, RobotStarts, RobotSettles, RobotFails, rowVars, settingsVars
<1>4. CASE LiftObserved
  <2>1. /\ location' \in [Pallets -> Places]
        /\ poolSlot' \in [Pallets -> SlotOrNone]
        /\ returnSlot' \in [Pallets -> SlotOrNone]
    BY <1>2, <1>4 DEF LiftObserved, Place, placeVars, MotionType, Places, SlotOrNone
  <2>2. worker' \in WorkerType
    BY <1>2, <1>4, StageTyped DEF LiftObserved, Stages
  <2>. QED
    BY <1>4, <2>1, <2>2 DEF LiftObserved, settingsVars
<1>5. CASE FinishSucceeds
  <2>1. motion.source \in SlotOrNone /\ motion.dest \in SlotOrNone
    BY <1>2 DEF MotionType
  <2>2. /\ location' \in [Pallets -> Places]
        /\ poolSlot' \in [Pallets -> SlotOrNone]
        /\ returnSlot' \in [Pallets -> SlotOrNone]
    <3>1. CASE motion.pallet \in Pallets
      <4>1. ResultPlace \in Places /\ ResultReturn \in SlotOrNone
        BY <2>1, <3>1 DEF ResultPlace, ResultReturn, Places, SlotOrNone
      <4>. QED
        BY <1>5, <2>1, <3>1, <4>1 DEF FinishSucceeds, Place
    <3>2. CASE motion.pallet \notin Pallets
      BY <1>5, <3>2 DEF FinishSucceeds, Place
    <3>. QED
      BY <3>1, <3>2
  <2>3. queuePos' \in [Pallets -> {NotQueued} \cup Nat]
    BY <1>5, CompactTyped, QueuedTyped DEF FinishSucceeds
  <2>. QED
    BY <1>1, <1>5, <2>2, <2>3 DEF FinishSucceeds, settingsVars
<1>6. CASE FinishFaults
  BY <1>1, <1>2, <1>6 DEF FinishFaults, rowVars, settingsVars, MotionType
<1>7. CASE FinishConflicts
  <2>1. worker' \in WorkerType
    BY <1>1, <1>2, <1>7, StageTyped DEF FinishConflicts, Stages
  <2>. QED
    BY <1>7, <2>1 DEF FinishConflicts, rowVars, settingsVars
<1>. QED
  BY <1>3, <1>4, <1>5, <1>6, <1>7 DEF WorkerNext

\* So does a restart of the process.
LEMMA RestartTyped ==
  ASSUME TypeOK, Restart
  PROVE  TypeOK'
<1> USE TypeParts DEF TypeShape
<1>1. motion' \in MotionType
  BY DEF Restart, MotionType
<1>2. NoWorker \in WorkerType
  BY DEF NoWorker, WorkerType, Stages, CompletionAttempts
<1>. QED
  BY <1>1, <1>2 DEF Restart, rowVars

\* The rows of the tables always hold values the schema allows, for every set
\* of pallets and every size of the pool.
THEOREM TypeCorrect == Spec => []TypeOK
<1>1. Init => TypeOK
  <2>1. NoMotion \in MotionType /\ NoWorker \in WorkerType
    BY DEF NoMotion, MotionType, NoWorker, WorkerType, SlotOrNone, Stages,
           CompletionAttempts
  <2>2. MaxSlots \in Slots
    BY BoardAssumption DEF Slots
  <2>. QED
    BY <2>1, <2>2, TypeParts DEF Init, TypeShape, Places, SlotOrNone
<1>2. TypeOK /\ [Next]_vars => TypeOK'
  <2>1. CASE Next
    BY <2>1, BoardNextTyped, QueueNextTyped, ModeNextTyped, MotionNextTyped,
       WorkerNextTyped, RestartTyped DEF Next
  <2>2. CASE UNCHANGED vars
    BY <2>2 DEF vars, rowVars, settingsVars, TypeOK
  <2>. QED
    BY <2>1, <2>2
<1>. QED
  BY <1>1, <1>2, PTL DEF Spec
-----------------------------------------------------------------------------
(* The queue: a numbering of the queued rows without gap or repetition.    *)

Distinct(f, Q) == \A p, q \in Q : f[p] = f[q] => p = q

\* Distinct positions below the number of rows are all of them.
LEMMA DistinctFills ==
  ASSUME NEW Q, IsFiniteSet(Q), NEW f \in [Q -> 0..(Cardinality(Q) - 1)], Distinct(f, Q)
  PROVE  {f[p] : p \in Q} = 0..(Cardinality(Q) - 1)
<1>. DEFINE T == 0..(Cardinality(Q) - 1)
<1>1. Cardinality(Q) \in Nat
  BY FS_CardinalityType
<1>2. IsFiniteSet(T) /\ Cardinality(T) = Cardinality(Q)
  <2>1. 0 \in Int /\ Cardinality(Q) - 1 \in Int
    BY <1>1
  <2>2. /\ IsFiniteSet(T)
        /\ Cardinality(T) = IF 0 > Cardinality(Q) - 1 THEN 0
                            ELSE (Cardinality(Q) - 1) - 0 + 1
    BY <2>1, FS_Interval
  <2>. QED
    BY <1>1, <2>2
<1>. HIDE DEF T
<1>3. f \in [Q -> T]
  BY DEF T
<1>4. f \in Injection(Q, T)
  BY <1>3 DEF Injection, IsInjective, Distinct
<1>5. f \in Surjection(Q, T)
  BY <1>2, <1>4, FS_Injection
<1>6. \A t \in T : \E p \in Q : f[p] = t
  BY <1>5 DEF Surjection
<1>7. {f[p] : p \in Q} = T
  BY <1>3, <1>6
<1>. QED
  BY <1>7 DEF T

\* Positions that fill 0, 1, ... up to the number of rows are distinct.
LEMMA FilledIsDistinct ==
  ASSUME NEW Q, IsFiniteSet(Q), NEW f,
         {f[p] : p \in Q} = 0..(Cardinality(Q) - 1)
  PROVE  Distinct(f, Q)
<1>. DEFINE T == 0..(Cardinality(Q) - 1)
            g == [p \in Q |-> f[p]]
<1>1. Cardinality(Q) \in Nat
  BY FS_CardinalityType
<1>2. Cardinality(T) = Cardinality(Q)
  <2>1. 0 \in Int /\ Cardinality(Q) - 1 \in Int
    BY <1>1
  <2>2. Cardinality(T) = IF 0 > Cardinality(Q) - 1 THEN 0
                         ELSE (Cardinality(Q) - 1) - 0 + 1
    BY <2>1, FS_Interval
  <2>. QED
    BY <1>1, <2>2
<1>3. {f[p] : p \in Q} = T
  OBVIOUS
<1>. HIDE DEF T
<1>4. g \in Surjection(Q, T)
  <2>1. g \in [Q -> T]
    BY <1>3
  <2>2. \A t \in T : \E p \in Q : g[p] = t
    BY <1>3
  <2>. QED
    BY <2>1, <2>2 DEF Surjection
<1>. HIDE DEF g
<1>5. g \in Injection(Q, T)
  BY <1>2, <1>4, FS_SurjSameCardinalityImpliesInj
<1>6. \A p, q \in Q : g[p] = g[q] => p = q
  BY <1>5 DEF Injection, IsInjective
<1>. QED
  BY <1>6 DEF Distinct, g

\* Ranks are positions below the number of rows, and keep the order of the rows.
LEMMA RankOrder ==
  ASSUME TypeOK, NEW Q \in SUBSET Pallets, Distinct(queuePos, Q)
  PROVE  /\ IsFiniteSet(Q) /\ Cardinality(Q) \in Nat
         /\ \A p \in Q : Rank(p, Q) \in 0..(Cardinality(Q) - 1)
         /\ \A p, q \in Q : Rank(p, Q) = Rank(q, Q) => p = q
<1>1. IsFiniteSet(Q) /\ Cardinality(Q) \in Nat
  BY BoardAssumption, FS_Subset, FS_CardinalityType
<1>2. \A p \in Q : queuePos[p] \in Int
  BY DEF TypeOK, NotQueued
<1>. DEFINE Below(p) == {q \in Q : queuePos[q] < queuePos[p]}
<1>3. ASSUME NEW p \in Q
      PROVE  /\ IsFiniteSet(Below(p)) /\ Cardinality(Below(p)) \in Nat
             /\ Rank(p, Q) = Cardinality(Below(p))
             /\ p \notin Below(p)
  <2>1. IsFiniteSet(Below(p))
    BY <1>1, FS_Subset
  <2>2. p \notin Below(p)
    BY <1>2
  <2>. QED
    BY <2>1, <2>2, FS_CardinalityType DEF Rank
<1>4. ASSUME NEW p \in Q
      PROVE  Rank(p, Q) \in 0..(Cardinality(Q) - 1)
  <2>1. Below(p) \cup {p} \in SUBSET Q
    OBVIOUS
  <2>2. Cardinality(Below(p) \cup {p}) <= Cardinality(Q)
    BY <1>1, <2>1, FS_Subset
  <2>3. Cardinality(Below(p) \cup {p}) = Cardinality(Below(p)) + 1
    BY <1>3, FS_AddElement
  <2>. HIDE DEF Below
  <2>. QED
    BY <1>1, <1>3, <2>2, <2>3
<1>5. ASSUME NEW p \in Q, NEW q \in Q, queuePos[p] < queuePos[q]
      PROVE  Rank(p, Q) < Rank(q, Q)
  <2>1. Below(p) \cup {p} \in SUBSET Below(q)
    BY <1>2, <1>5
  <2>2. Cardinality(Below(p) \cup {p}) <= Cardinality(Below(q))
    BY <1>3, <2>1, FS_Subset
  <2>3. Cardinality(Below(p) \cup {p}) = Cardinality(Below(p)) + 1
    BY <1>3, FS_AddElement
  <2>. HIDE DEF Below
  <2>. QED
    BY <1>3, <2>2, <2>3
<1>6. ASSUME NEW p \in Q, NEW q \in Q, Rank(p, Q) = Rank(q, Q)
      PROVE  p = q
  <2>1. Rank(p, Q) \in Nat /\ Rank(q, Q) \in Nat
    BY RankTyped
  <2>2. ~(queuePos[p] < queuePos[q]) /\ ~(queuePos[q] < queuePos[p])
    BY <1>5, <1>6, <2>1
  <2>. QED
    BY <1>2, <2>2 DEF Distinct
<1>. QED
  BY <1>1, <1>4, <1>6

\* A step that numbers the rows of Q, and no other row, makes Q the queue.
LEMMA Renumbering ==
  ASSUME NEW Q \in SUBSET Pallets,
         \A p \in Q : queuePos'[p] \in 0..(Cardinality(Q) - 1),
         \A p \in Pallets \ Q : queuePos'[p] = NotQueued,
         Distinct(queuePos', Q)
  PROVE  /\ Queued' = Q
         /\ {queuePos'[p] : p \in Q} = 0..(Cardinality(Q) - 1)
<1>1. IsFiniteSet(Q) /\ Cardinality(Q) \in Nat
  BY BoardAssumption, FS_Subset, FS_CardinalityType
<1>2. \A p \in Q : queuePos'[p] # NotQueued
  BY <1>1 DEF NotQueued
<1>3. Queued' = Q
  BY <1>2 DEF Queued
<1>. DEFINE f == [p \in Q |-> queuePos'[p]]
<1>4. f \in [Q -> 0..(Cardinality(Q) - 1)] /\ Distinct(f, Q)
  BY DEF Distinct
<1>5. {f[p] : p \in Q} = 0..(Cardinality(Q) - 1)
  BY <1>1, <1>4, DistinctFills
<1>6. {f[p] : p \in Q} = {queuePos'[p] : p \in Q}
  OBVIOUS
<1>. QED
  BY <1>3, <1>5, <1>6
\* The positions of a contiguous queue are distinct.
LEMMA QueueIsDistinct ==
  ASSUME QueueIsContiguous
  PROVE  Distinct(queuePos, Queued)
<1>1. IsFiniteSet(Queued)
  BY BoardAssumption, FS_Subset DEF Queued
<1>. QED
  BY <1>1, FilledIsDistinct DEF QueueIsContiguous

\* compact_queue closes the gaps: the rows kept are the queue.
LEMMA CompactIsContiguous ==
  ASSUME TypeOK, QueueIsContiguous, NEW Q \in SUBSET Queued,
         queuePos' = compact_queue(Q)
  PROVE  /\ Queued' = Q
         /\ {queuePos'[p] : p \in Q} = 0..(Cardinality(Q) - 1)
<1>1. Q \in SUBSET Pallets
  BY DEF Queued
<1>2. Distinct(queuePos, Q)
  BY QueueIsDistinct DEF Distinct
<1>3. /\ \A p \in Q : queuePos'[p] = Rank(p, Q)
      /\ \A p \in Pallets \ Q : queuePos'[p] = NotQueued
  BY <1>1 DEF compact_queue
<1>4. /\ \A p \in Q : Rank(p, Q) \in 0..(Cardinality(Q) - 1)
      /\ \A p, q \in Q : Rank(p, Q) = Rank(q, Q) => p = q
  BY <1>1, <1>2, RankOrder
<1>5. Distinct(queuePos', Q)
  BY <1>3, <1>4 DEF Distinct
<1>. QED
  BY <1>1, <1>3, <1>4, <1>5, Renumbering

\* Inserting shifts the rows at and behind the position that is asked for.
LEMMA InsertedIsContiguous ==
  ASSUME TypeOK, QueueIsContiguous, NEW p \in Pallets,
         NEW k \in 0..Cardinality(Queued \ {p}), queuePos' = Inserted(p, k)
  PROVE  /\ Queued' = Queued \cup {p}
         /\ {queuePos'[q] : q \in Queued \cup {p}}
              = 0..(Cardinality(Queued \cup {p}) - 1)
<1>. DEFINE others == Queued \ {p}
            Q == Queued \cup {p}
            n == Cardinality(others)
<1>1. others \in SUBSET Pallets /\ Q \in SUBSET Pallets
  BY DEF Queued
<1>2. Distinct(queuePos, others)
  BY QueueIsDistinct DEF Distinct
<1>3. /\ IsFiniteSet(others) /\ n \in Nat
      /\ \A q \in others : Rank(q, others) \in 0..(n - 1)
      /\ \A q, r \in others : Rank(q, others) = Rank(r, others) => q = r
  BY <1>1, <1>2, RankOrder
<1>4. Cardinality(Q) = n + 1
  <2>1. Q = others \cup {p} /\ p \notin others
    OBVIOUS
  <2>. QED
    BY <1>3, <2>1, FS_AddElement
<1>5. /\ queuePos'[p] = k
      /\ \A q \in others : queuePos'[q] = IF Rank(q, others) < k THEN Rank(q, others)
                                          ELSE Rank(q, others) + 1
      /\ \A q \in Pallets \ Q : queuePos'[q] = NotQueued
  BY <1>1 DEF Inserted
<1>6. Q = others \cup {p} /\ k \in 0..n
  OBVIOUS
<1>. HIDE DEF others, Q, n
<1>7. \A q \in Q : queuePos'[q] \in 0..(Cardinality(Q) - 1)
  <2>1. ASSUME NEW q \in others
        PROVE  queuePos'[q] \in 0..n
    BY <1>3, <1>5, <1>6, <2>1
  <2>. QED
    BY <1>3, <1>4, <1>5, <1>6, <2>1
<1>8. Distinct(queuePos', Q)
  <2>1. ASSUME NEW q \in others
        PROVE  queuePos'[q] # k
    BY <1>3, <1>5, <1>6, <2>1
  <2>2. ASSUME NEW q \in others, NEW r \in others, queuePos'[q] = queuePos'[r]
        PROVE  q = r
    <3>1. Rank(q, others) = Rank(r, others)
      BY <1>3, <1>5, <1>6, <2>2
    <3>. QED
      BY <1>3, <3>1
  <2>. QED
    BY <1>5, <1>6, <2>1, <2>2 DEF Distinct
<1>9. Queued' = Q /\ {queuePos'[q] : q \in Q} = 0..(Cardinality(Q) - 1)
  BY <1>1, <1>5, <1>7, <1>8, Renumbering
<1>. QED
  BY <1>9 DEF Q

\* A list of all queued rows renumbers them.
LEMMA ReorderIsContiguous ==
  ASSUME NEW order \in [Queued -> 0..(Cardinality(Queued) - 1)], reorder_queue(order)
  PROVE  /\ Queued' = Queued
         /\ {queuePos'[q] : q \in Queued} = 0..(Cardinality(Queued) - 1)
<1>1. /\ \A q \in Queued : queuePos'[q] = order[q]
      /\ \A q \in Pallets \ Queued : queuePos'[q] = NotQueued
      /\ Distinct(queuePos', Queued)
  BY DEF reorder_queue, Queued, Distinct
<1>2. \A q \in Queued : queuePos'[q] \in 0..(Cardinality(Queued) - 1)
  BY <1>1
<1>. QED
  BY <1>1, <1>2, Renumbering, QueuedTyped

\* No step but a deletion makes a row disappear.
LEMMA PlacedRowsStay ==
  ASSUME TypeOK, NEW p, NEW place, NEW slot, NEW ret,
         Place(p, place, slot, ret), place # "absent"
  PROVE  \A q \in Pallets : location[q] # "absent" => location'[q] # "absent"
BY DEF TypeOK, Place
\* A step that keeps the positions and the rows keeps the queue.
LEMMA QueueKept ==
  ASSUME QueueIsContiguous, queuePos' = queuePos,
         \A q \in Pallets : location[q] # "absent" => location'[q] # "absent"
  PROVE  QueueIsContiguous'
<1>1. Queued' = Queued /\ Queued \in SUBSET Pallets
  BY DEF Queued
<1>. QED
  BY <1>1 DEF QueueIsContiguous

\* A step that takes rows out closes the gaps.
LEMMA QueueCompacted ==
  ASSUME TypeOK, QueueIsContiguous, NEW Q \in SUBSET Queued,
         queuePos' = compact_queue(Q), \A q \in Q : location'[q] # "absent"
  PROVE  QueueIsContiguous'
BY CompactIsContiguous DEF QueueIsContiguous

\* The handlers of pallet rows keep the queue contiguous.
LEMMA BoardNextQueued ==
  ASSUME TypeOK, QueueIsContiguous, BoardNext
  PROVE  QueueIsContiguous'
<1>0. /\ Queued \in SUBSET Pallets
      /\ \A q \in Queued : location[q] # "absent"
  BY DEF Queued, QueueIsContiguous
<1>1. ASSUME NEW p \in Pallets, create_pallet(p)
      PROVE  QueueIsContiguous'
  <2>1. PICK n \in first_open_pool_slot(p) : Place(p, "pool", n, NoSlot)
    BY <1>1 DEF create_pallet
  <2>. QED
    BY <1>1, <2>1, PlacedRowsStay, QueueKept DEF create_pallet
<1>2. ASSUME NEW p \in Pallets, update_pallet(p)
      PROVE  QueueIsContiguous'
  BY <1>2, QueueKept DEF update_pallet, rowVars
<1>3. ASSUME NEW p \in Pallets, delete_pallet(p)
      PROVE  QueueIsContiguous'
  <2>1. \A q \in Pallets \ {p} : location'[q] = location[q]
    BY <1>3 DEF delete_pallet, Place, TypeOK
  <2>2. \A q \in Queued \ {p} : location'[q] # "absent"
    BY <1>0, <2>1
  <2>3. CASE p \in Queued
    BY <1>3, <2>2, <2>3, QueueCompacted DEF delete_pallet
  <2>4. CASE p \notin Queued
    <3>1. queuePos' = queuePos /\ Queued' = Queued
      BY <1>3, <2>4 DEF delete_pallet, Queued
    <3>. QED
      BY <2>2, <2>4, <3>1 DEF QueueIsContiguous
  <2>. QED
    BY <2>3, <2>4
<1>4. ASSUME NEW p \in Pallets, NEW source \in Pallets, duplicate_pallet(p, source)
      PROVE  QueueIsContiguous'
  BY <1>1, <1>4 DEF duplicate_pallet
<1>5. ASSUME NEW p \in Pallets, NEW dest \in Places, NEW named \in {NoSlot} \cup Slots,
             move_pallet(p, dest, named)
      PROVE  QueueIsContiguous'
  <2>1. dest # "absent"
    BY <1>5 DEF move_pallet, TypeOK
  <2>2. \E n, ret : Place(p, dest, n, ret)
    BY <1>5 DEF move_pallet
  <2>3. \A q \in Pallets : location[q] # "absent" => location'[q] # "absent"
    BY <2>1, <2>2, PlacedRowsStay
  <2>4. queuePos' = queuePos \/ queuePos' = compact_queue(Queued \ {p})
    BY <1>5 DEF move_pallet
  <2>. QED
    BY <1>0, <2>3, <2>4, QueueKept, QueueCompacted
<1>6. ASSUME NEW p \in Pallets,
             manually_return_mill_pallet_to_pool(p) \/ simulate_signal(p)
      PROVE  QueueIsContiguous'
  <2>1. PICK n \in best_pool_return_slot(p) : Place(p, "pool", n, NoSlot)
    BY <1>6 DEF manually_return_mill_pallet_to_pool, simulate_signal
  <2>. QED
    BY <1>6, <2>1, PlacedRowsStay, QueueKept
    DEF manually_return_mill_pallet_to_pool, simulate_signal
<1>7. ASSUME NEW n \in Slots, ResizePool(n)
      PROVE  QueueIsContiguous'
  BY <1>7, QueueKept DEF ResizePool, rowVars
<1>8. ASSUME NEW s \in {"on_deck", "dripping"}, ToggleStation(s)
      PROVE  QueueIsContiguous'
  BY <1>8, QueueKept DEF ToggleStation, rowVars
<1>. QED
  BY <1>1, <1>2, <1>3, <1>4, <1>5, <1>6, <1>7, <1>8 DEF BoardNext

\* So do the queue handlers.
LEMMA QueueNextQueued ==
  ASSUME TypeOK, QueueIsContiguous, QueueNext
  PROVE  QueueIsContiguous'
<1>0. /\ Queued \in SUBSET Pallets
      /\ \A q \in Queued : location[q] # "absent"
  BY DEF Queued, QueueIsContiguous
<1>1. ASSUME NEW p \in Pallets, NEW k \in 0..Cardinality(Pallets), queue_pallet(p, k)
      PROVE  QueueIsContiguous'
  <2>1. k \in 0..Cardinality(Queued \ {p}) /\ queuePos' = Inserted(p, k)
    <3>1. Cardinality(Queued \ {p}) \in Nat /\ Cardinality(Pallets) \in Nat
      BY <1>0, BoardAssumption, FS_Subset, FS_CardinalityType
    <3>. QED
      BY <1>1, <3>1 DEF queue_pallet
  <2>2. \A q \in Pallets : location[q] # "absent" => location'[q] # "absent"
    <3>1. ASSUME NEW n, Place(p, "pool", n, NoSlot)
          PROVE  <2>2
      BY <3>1, PlacedRowsStay
    <3>. QED
      BY <1>1, <3>1 DEF queue_pallet, placeVars
  <2>3. location[p] # "absent"
    BY <1>1 DEF queue_pallet, Present
  <2>4. \A q \in Queued \cup {p} : location'[q] # "absent"
    BY <1>0, <2>2, <2>3
  <2>. QED
    BY <2>1, <2>4, InsertedIsContiguous DEF QueueIsContiguous
<1>2. ASSUME NEW p \in Pallets, dequeue_pallet(p)
      PROVE  QueueIsContiguous'
  <2>1. queuePos' = compact_queue(Queued \ {p}) /\ location' = location
    BY <1>2 DEF dequeue_pallet, placeVars
  <2>. QED
    BY <1>0, <2>1, QueueCompacted
<1>3. ASSUME NEW order \in [Queued -> 0..(Cardinality(Queued) - 1)], reorder_queue(order)
      PROVE  QueueIsContiguous'
  <2>1. location' = location
    BY <1>3 DEF reorder_queue, placeVars
  <2>. QED
    BY <1>0, <1>3, <2>1, ReorderIsContiguous DEF QueueIsContiguous
<1>. QED
  BY <1>1, <1>2, <1>3 DEF QueueNext

\* Run Mode, the commands and a restart do not touch the queue.
LEMMA ModeNextQueued ==
  ASSUME TypeOK, QueueIsContiguous, ModeNext \/ Restart
  PROVE  QueueIsContiguous'
<1>1. queuePos' = queuePos /\ location' = location
  BY DEF ModeNext, start_run_mode, stop_run_mode, CheckReliabilityTest,
         CommitReliabilityTest, EndReliabilityTest, Restart, rowVars
<1>. QED
  BY <1>1, QueueKept

\* A commanded or reconciled movement keeps every position.
LEMMA MotionNextQueued ==
  ASSUME TypeOK, QueueIsContiguous, MotionNext
  PROVE  QueueIsContiguous'
<1>1. ASSUME NEW p \in Pallets,
             \/ StartPick(p) \/ start_automatic_put_away(p)
             \/ \E n : StartPut(p, n)
             \/ \E automated : StartLoad(p, automated)
             \/ \E n, automated : StartUnload(p, n, automated)
      PROVE  QueueIsContiguous'
  <2>1. queuePos' = queuePos /\ location' = location
    BY <1>1 DEF StartPick, start_automatic_put_away, StartPut, StartLoad, StartUnload
  <2>. QED
    BY <2>1, QueueKept
<1>2. ASSUME NEW resolution, recover_pallet_motion(resolution)
      PROVE  QueueIsContiguous'
  <2>1. PICK place \in {"machine", "robot_held", "pool"} :
          \E slot, ret : Place(motion.pallet, place, slot, ret)
    BY <1>2 DEF recover_pallet_motion
  <2>. QED
    BY <1>2, <2>1, PlacedRowsStay, QueueKept DEF recover_pallet_motion
<1>. QED
  BY <1>1, <1>2 DEF MotionNext

\* The thread takes a loaded pallet out of the queue, and closes the gap.
LEMMA WorkerNextQueued ==
  ASSUME TypeOK, QueueIsContiguous, WorkerNext
  PROVE  QueueIsContiguous'
<1>0. /\ Queued \in SUBSET Pallets
      /\ \A q \in Queued : location[q] # "absent"
  BY DEF Queued, QueueIsContiguous
<1>1. CASE \/ WorkerBegins \/ RobotStarts \/ RobotSettles \/ RobotFails
           \/ FinishFaults \/ FinishConflicts
  <2>1. queuePos' = queuePos /\ location' = location
    BY <1>1 DEF WorkerBegins, RobotStarts, RobotSettles, RobotFails, FinishFaults,
                FinishConflicts, rowVars
  <2>. QED
    BY <2>1, QueueKept
<1>2. CASE LiftObserved
  <2>1. \A q \in Pallets : location[q] # "absent" => location'[q] # "absent"
    BY <1>2, PlacedRowsStay DEF LiftObserved, placeVars
  <2>. QED
    BY <1>2, <2>1, QueueKept DEF LiftObserved
<1>3. CASE FinishSucceeds
  <2>1. Place(motion.pallet, ResultPlace, motion.dest, ResultReturn)
    BY <1>3 DEF FinishSucceeds
  <2>2. ResultPlace # "absent"
    BY DEF ResultPlace
  <2>3. \A q \in Pallets : location[q] # "absent" => location'[q] # "absent"
    BY <2>1, <2>2, PlacedRowsStay
  <2>4. queuePos' = queuePos \/ queuePos' = compact_queue(Queued \ {motion.pallet})
    BY <1>3 DEF FinishSucceeds
  <2>. QED
    BY <1>0, <2>3, <2>4, QueueKept, QueueCompacted
<1>. QED
  BY <1>1, <1>2, <1>3 DEF WorkerNext

\* Queue positions are 0, 1, ... without gap or repetition, and every queued row
\* exists, for every set of pallets and every mix of queue edits, moves, loads
\* and recoveries.
THEOREM QueueStaysContiguous == Spec => []QueueIsContiguous
<1>1. Init => QueueIsContiguous
  <2>1. ASSUME Init
        PROVE  Queued = {}
    BY <2>1 DEF Init, Queued
  <2>2. Cardinality({}) = 0
    BY FS_EmptySet
  <2>. QED
    BY <2>1, <2>2 DEF QueueIsContiguous
<1>2. TypeOK /\ QueueIsContiguous /\ [Next]_vars => QueueIsContiguous'
  <2>1. ASSUME TypeOK, QueueIsContiguous, Next
        PROVE  QueueIsContiguous'
    BY <2>1, BoardNextQueued, QueueNextQueued, ModeNextQueued, MotionNextQueued,
       WorkerNextQueued DEF Next
  <2>2. ASSUME QueueIsContiguous, UNCHANGED vars
        PROVE  QueueIsContiguous'
    BY <2>2, QueueKept DEF vars, rowVars
  <2>. QED
    BY <2>1, <2>2
<1>. QED
  BY <1>1, <1>2, TypeCorrect, PTL DEF Spec

-----------------------------------------------------------------------------
(* Rows.                                                                   *)

RowsInv ==
  /\ \A p \in Pallets : RowShape(p)
  /\ SlotsExclusive
  /\ OnePalletPerPlace

NewClaim(place, slot, ret) ==
  IF place = "pool" THEN slot ELSE IF place \in Away THEN ret ELSE NoSlot

\* A step as PoolAllocation sees it: no claim changes, one pallet takes an open
\* position or gives its position back, or the pool is resized above all claims.
PoolStep ==
  \/ Claims' = Claims /\ slotCount' = slotCount
  \/ /\ slotCount' = slotCount
     /\ \E p \in Pallets : \E n \in OpenSlots(p) \cup {NoSlot} :
          Claims' = [Claims EXCEPT ![p] = n]
  \/ /\ Claims' = Claims
     /\ slotCount' \in Slots /\ \A p \in Pallets : Claim(p) <= slotCount'

LegalRow(place, slot, ret) ==
  /\ place = "pool" <=> slot # NoSlot
  /\ place = "robot_held" => ret # NoSlot
  /\ place \notin Away => ret \in {NoSlot, slot}
  /\ slot <= slotCount /\ ret <= slotCount

\* What a step that writes one row makes of the claims.
LEMMA PlaceClaims ==
  ASSUME TypeOK, NEW p \in Pallets, NEW place \in Places,
         NEW slot \in SlotOrNone, NEW ret \in SlotOrNone, Place(p, place, slot, ret)
  PROVE  /\ location'[p] = place /\ poolSlot'[p] = slot /\ returnSlot'[p] = ret
         /\ Claim(p)' = NewClaim(place, slot, ret)
         /\ \A q \in Pallets \ {p} :
              /\ location'[q] = location[q]
              /\ poolSlot'[q] = poolSlot[q]
              /\ returnSlot'[q] = returnSlot[q]
              /\ Claim(q)' = Claim(q)
BY DEF TypeOK, Place, Claim, NewClaim, Away

\* An open position is claimed by no other row.
LEMMA OpenMeansUnclaimed ==
  ASSUME NEW p, NEW n \in OpenSlots(p)
  PROVE  n <= slotCount /\ n # NoSlot /\ \A q \in Pallets \ {p} : Claim(q) # n
BY DEF OpenSlots, NoSlot

\* A row may move to any place that is free for it, if it takes a position that
\* is open to it, keeps the one it has, or gives it up.
LEMMA Relocation ==
  ASSUME TypeOK, RowsInv,
         NEW p \in Pallets, NEW place \in Places,
         NEW slot \in SlotOrNone, NEW ret \in SlotOrNone,
         Place(p, place, slot, ret), LegalRow(place, slot, ret),
         NewClaim(place, slot, ret) \in OpenSlots(p) \cup {NoSlot, Claim(p)},
         place \in SoloPlaces => Vacant(place, p),
         slotCount' = slotCount
  PROVE  RowsInv' /\ PoolStep
<1>. DEFINE new == NewClaim(place, slot, ret)
<1>1. /\ location'[p] = place /\ poolSlot'[p] = slot /\ returnSlot'[p] = ret
      /\ Claim(p)' = new
  BY PlaceClaims
<1>2. \A q \in Pallets \ {p} :
        /\ location'[q] = location[q]
        /\ poolSlot'[q] = poolSlot[q]
        /\ returnSlot'[q] = returnSlot[q]
        /\ Claim(q)' = Claim(q)
  BY PlaceClaims
<1>3. ASSUME NEW q \in Pallets
      PROVE  RowShape(q)'
  <2>1. CASE q = p
    BY <1>1, <2>1 DEF RowShape, LegalRow
  <2>2. CASE q # p
    BY <1>2, <2>2 DEF RowShape, RowsInv
  <2>. QED
    BY <2>1, <2>2
<1>4. new = NoSlot \/ \A q \in Pallets \ {p} : Claim(q) # new
  <2>1. CASE new \in OpenSlots(p)
    BY <2>1, OpenMeansUnclaimed
  <2>2. CASE new = Claim(p)
    BY <2>2 DEF RowsInv, SlotsExclusive
  <2>. QED
    BY <2>1, <2>2
<1>5. SlotsExclusive'
  <2>. SUFFICES ASSUME NEW a \in Pallets, NEW b \in Pallets, a # b, Claim(a)' # NoSlot
                PROVE  Claim(a)' # Claim(b)'
    BY DEF SlotsExclusive
  <2>1. CASE a = p
    BY <1>1, <1>2, <1>4, <2>1
  <2>2. CASE b = p
    BY <1>1, <1>2, <1>4, <2>2
  <2>3. CASE a # p /\ b # p
    BY <1>2, <2>3 DEF RowsInv, SlotsExclusive
  <2>. QED
    BY <2>1, <2>2, <2>3
<1>6. OnePalletPerPlace'
  BY <1>1, <1>2 DEF RowsInv, OnePalletPerPlace, Vacant
<1>7. PoolStep
  <2>1. Claims' = [Claims EXCEPT ![p] = new]
    BY <1>1, <1>2 DEF Claims
  <2>2. CASE new \in OpenSlots(p) \cup {NoSlot}
    BY <2>1, <2>2 DEF PoolStep
  <2>3. CASE new = Claim(p)
    <3>1. Claims' = Claims
      BY <1>1, <1>2, <2>3 DEF Claims
    <3>. QED
      BY <3>1 DEF PoolStep
  <2>. QED
    BY <2>2, <2>3
<1>. QED
  BY <1>3, <1>5, <1>6, <1>7 DEF RowsInv

\* Writing only the reservation is a relocation to where the row already is.
LEMMA ReserveIsPlace ==
  ASSUME TypeOK, NEW p \in Pallets, NEW ret, Reserve(p, ret),
         UNCHANGED <<location, poolSlot>>
  PROVE  Place(p, location[p], poolSlot[p], ret)
BY DEF TypeOK, Reserve, Place

\* Another row never stands where this one stands alone.
LEMMA StaysVacant ==
  ASSUME RowsInv, NEW p \in Pallets, location[p] \in SoloPlaces
  PROVE  Vacant(location[p], p)
BY DEF RowsInv, OnePalletPerPlace, Vacant

\* The shape of a row bounds what it claims.
LEMMA ClaimBounds ==
  ASSUME TypeOK, RowsInv, NEW p \in Pallets
  PROVE  /\ Claim(p) <= slotCount
         /\ location[p] = "pool" => Claim(p) = poolSlot[p] /\ poolSlot[p] # NoSlot
         /\ location[p] \in Away => Claim(p) = returnSlot[p]
<1>1. slotCount \in Nat /\ NoSlot <= slotCount
  BY BoardAssumption DEF TypeOK, Slots, NoSlot
<1>2. RowShape(p)
  BY DEF RowsInv
<1>. QED
  BY <1>1, <1>2 DEF RowShape, Claim, Away

\* A pallet with a reservation is put back exactly where it came from.
LEMMA ReturnsToReserved ==
  ASSUME TypeOK, RowsInv, NEW p \in Pallets, location[p] = "machine",
         returnSlot[p] # NoSlot, NEW n \in best_pool_return_slot(p)
  PROVE  n = returnSlot[p]
<1>. DEFINE r == returnSlot[p]
<1>1. r \in Nat /\ slotCount \in Nat /\ OpenSlots(p) \subseteq Nat
  BY BoardAssumption DEF TypeOK, Slots, NoSlot, OpenSlots
<1>2. Claim(p) = r /\ r <= slotCount
  BY ClaimBounds DEF Away
<1>3. r \in OpenSlots(p)
  BY <1>1, <1>2 DEF OpenSlots, RowsInv, SlotsExclusive, NoSlot
<1>4. n \in OpenSlots(p) /\ Distance(r, r) = 0
  BY <1>1 DEF best_pool_return_slot, Distance
<1>5. Distance(n, r) < 0 \/ Distance(n, r) = 0
  BY <1>3, <1>4 DEF best_pool_return_slot
<1>. QED
  BY <1>1, <1>4, <1>5 DEF Distance

-----------------------------------------------------------------------------
(* The motion.                                                             *)

MotionInv ==
  /\ NoForgottenReservation
  /\ MotionShape
  /\ MotionKeepsItsSlots

\* BoardInv, before and after a step, in the parts the lemmas speak of.
LEMMA BoardInvParts ==
  /\ BoardInv <=> TypeOK /\ RowsInv /\ MotionInv /\ WorkerHasMotion
  /\ BoardInv' <=> TypeOK' /\ RowsInv' /\ MotionInv' /\ WorkerHasMotion'
BY DEF BoardInv, RowsInv, MotionInv

\* The fields of a well-typed motion.
LEMMA MotionTyped ==
  ASSUME TypeOK
  PROVE  /\ motion.status \in {"none", "requested", "running", "faulted"}
         /\ motion.source \in SlotOrNone /\ motion.dest \in SlotOrNone
         /\ motion = [pallet |-> motion.pallet, op |-> motion.op,
                      source |-> motion.source, dest |-> motion.dest,
                      status |-> motion.status]
BY DEF TypeOK, SlotOrNone

\* No movement is locked exactly when the motion is the empty one.
LEMMA NotLocked ==
  ASSUME MotionInv
  PROVE  ~MotionLocked <=> motion = NoMotion
BY DEF MotionInv, MotionShape, MotionLocked, NoMotion

\* A locked motion has a pallet, and its row claims what the motion names.
LEMMA LockedRow ==
  ASSUME TypeOK, RowsInv, MotionInv, MotionLocked
  PROVE  /\ motion.pallet \in Pallets
         /\ motion.source # NoSlot => Claim(motion.pallet) = motion.source
         /\ motion.dest # NoSlot => Claim(motion.pallet) = motion.dest
         /\ motion.source <= slotCount /\ motion.dest <= slotCount
<1>1. motion.pallet \in Pallets
  BY DEF MotionInv, MotionShape
<1>2. /\ motion.source # NoSlot => Claim(motion.pallet) = motion.source
      /\ motion.dest # NoSlot => Claim(motion.pallet) = motion.dest
  BY DEF MotionInv, MotionKeepsItsSlots
<1>3. NoSlot <= slotCount
  BY BoardAssumption DEF TypeOK, Slots, NoSlot
<1>. QED
  BY <1>1, <1>2, <1>3, ClaimBounds

\* A step that leaves the rows and the names in the motion alone.
LEMMA StillStep ==
  ASSUME TypeOK, RowsInv, MotionInv,
         UNCHANGED placeVars, slotCount' = slotCount,
         \/ motion' = motion
         \/ /\ MotionLocked
            /\ \E s \in {"requested", "running", "faulted"} :
                 motion' = [motion EXCEPT !.status = s]
  PROVE  RowsInv' /\ MotionInv' /\ PoolStep
<1>1. /\ UNCHANGED <<location, poolSlot, returnSlot, slotCount>>
      /\ \A p \in Pallets : Claim(p)' = Claim(p)
  BY DEF placeVars, Claim
<1>2. RowsInv' /\ PoolStep
  BY <1>1 DEF RowsInv, RowShape, SlotsExclusive, OnePalletPerPlace, Claims, PoolStep
<1>3. /\ motion'.pallet = motion.pallet /\ motion'.op = motion.op
      /\ motion'.source = motion.source /\ motion'.dest = motion.dest
      /\ MotionLocked' = MotionLocked
      /\ ~MotionLocked => motion' = motion
  BY MotionTyped DEF MotionLocked
<1>4. NoForgottenReservation'
  BY <1>1, <1>3 DEF MotionInv, NoForgottenReservation
<1>5. MotionShape'
  BY <1>1, <1>3 DEF MotionInv, MotionShape
<1>6. MotionKeepsItsSlots'
  <2>1. CASE MotionLocked
    BY <1>1, <1>3, <2>1, LockedRow DEF MotionInv, MotionKeepsItsSlots
  <2>2. CASE ~MotionLocked
    BY <1>3, <2>2 DEF MotionKeepsItsSlots
  <2>. QED
    BY <2>1, <2>2
<1>. QED
  BY <1>2, <1>4, <1>5, <1>6 DEF MotionInv

\* A relocation of a row that no locked motion names.
LEMMA QuietRelocation ==
  ASSUME TypeOK, RowsInv, MotionInv,
         NEW p \in Pallets, NEW place \in Places,
         NEW slot \in SlotOrNone, NEW ret \in SlotOrNone,
         Place(p, place, slot, ret), LegalRow(place, slot, ret),
         NewClaim(place, slot, ret) \in OpenSlots(p) \cup {NoSlot, Claim(p)},
         place \in SoloPlaces => Vacant(place, p),
         place \notin Away => ret = NoSlot,
         slotCount' = slotCount, motion' = motion,
         MotionLocked => motion.pallet # p
  PROVE  RowsInv' /\ MotionInv' /\ PoolStep
<1>1. RowsInv' /\ PoolStep
  BY Relocation
<1>2. /\ location'[p] = place /\ returnSlot'[p] = ret
      /\ \A q \in Pallets \ {p} : /\ location'[q] = location[q]
                                  /\ returnSlot'[q] = returnSlot[q]
                                  /\ Claim(q)' = Claim(q)
  BY PlaceClaims
<1>3. MotionLocked' = MotionLocked
  BY DEF MotionLocked
<1>4. NoForgottenReservation'
  BY <1>2, <1>3 DEF MotionInv, NoForgottenReservation, Away
<1>5. MotionShape' /\ MotionKeepsItsSlots'
  <2>1. CASE ~MotionLocked
    BY <1>3, <2>1 DEF MotionInv, MotionShape, MotionKeepsItsSlots
  <2>2. CASE MotionLocked
    <3>1. motion.pallet \in Pallets \ {p}
      BY <2>2, LockedRow
    <3>2. /\ location'[motion.pallet] = location[motion.pallet]
          /\ Claim(motion.pallet)' = Claim(motion.pallet)
      BY <1>2, <3>1
    <3>. QED
      BY <1>3, <2>2, <3>2 DEF MotionInv, MotionShape, MotionKeepsItsSlots
  <2>. QED
    BY <2>1, <2>2
<1>. QED
  BY <1>1, <1>4, <1>5 DEF MotionInv

\* Commanding a movement writes a reservation and the motion that needs it.
LEMMA CommandStep ==
  ASSUME TypeOK, RowsInv, MotionInv, ~MotionLocked,
         NEW p \in Pallets, NEW op \in Operations,
         NEW source \in SlotOrNone, NEW dest \in SlotOrNone, NEW ret \in SlotOrNone,
         Reserve(p, ret), CommandMotion(p, op, source, dest),
         UNCHANGED <<location, poolSlot, slotCount>>,
         LegalRow(location[p], poolSlot[p], ret),
         LET claim == NewClaim(location[p], poolSlot[p], ret)
         IN  /\ claim \in OpenSlots(p) \cup {NoSlot, Claim(p)}
             /\ \A n \in {source, dest} \ {NoSlot} : n = claim,
         CASE op = "pick" -> source # NoSlot /\ dest = NoSlot /\ location[p] = "pool"
           [] op = "put" -> dest # NoSlot /\ source = NoSlot /\ location[p] = "robot_held"
           [] op = "load_mill" ->
                dest = NoSlot /\ location[p] = (IF source # NoSlot THEN "pool" ELSE "robot_held")
           [] op = "unload_mill" -> dest # NoSlot /\ source = NoSlot /\ location[p] = "machine"
  PROVE  RowsInv' /\ MotionInv' /\ PoolStep /\ WorkerHasMotion'
<1>1. Place(p, location[p], poolSlot[p], ret)
  BY ReserveIsPlace
<1>2. location[p] \in Places /\ poolSlot[p] \in SlotOrNone
  BY DEF TypeOK, SlotOrNone
<1>3. RowsInv' /\ PoolStep
  BY <1>1, <1>2, Relocation, StaysVacant
<1>4. /\ location'[p] = location[p]
      /\ Claim(p)' = NewClaim(location[p], poolSlot[p], ret)
      /\ \A q \in Pallets \ {p} : /\ location'[q] = location[q]
                                  /\ returnSlot'[q] = returnSlot[q]
  BY <1>1, <1>2, PlaceClaims
<1>5. /\ motion'.pallet = p /\ motion'.op = op /\ motion'.source = source
      /\ motion'.dest = dest /\ motion'.status = "requested"
  BY DEF CommandMotion
<1>6. MotionLocked'
  BY <1>5 DEF MotionLocked
<1>7. NoForgottenReservation'
  BY <1>4, <1>5, <1>6 DEF MotionInv, NoForgottenReservation
<1>8. MotionShape'
  BY <1>4, <1>5, <1>6 DEF MotionShape, Operations
<1>9. MotionKeepsItsSlots'
  BY <1>4, <1>5 DEF MotionKeepsItsSlots
<1>. QED
  BY <1>3, <1>5, <1>7, <1>8, <1>9 DEF MotionInv, WorkerHasMotion, Active

\* The end of a movement: its row keeps the claim it had, and nothing is locked.
LEMMA SettledStep ==
  ASSUME TypeOK, RowsInv, MotionInv, MotionLocked,
         NEW place \in {"pool", "machine", "robot_held"},
         NEW slot \in SlotOrNone, NEW ret \in SlotOrNone,
         Place(motion.pallet, place, slot, ret), LegalRow(place, slot, ret),
         NewClaim(place, slot, ret) = Claim(motion.pallet),
         place \in SoloPlaces => Vacant(place, motion.pallet),
         place = "pool" => ret = NoSlot,
         slotCount' = slotCount, motion' = NoMotion
  PROVE  RowsInv' /\ MotionInv' /\ PoolStep
<1>0. PICK p \in Pallets : p = motion.pallet
  BY LockedRow
<1>1. place \in Places
  BY DEF Places
<1>2. RowsInv' /\ PoolStep
  BY <1>0, <1>1, Relocation
<1>3. /\ location'[p] = place /\ returnSlot'[p] = ret
      /\ \A q \in Pallets \ {p} : /\ location'[q] = location[q]
                                  /\ returnSlot'[q] = returnSlot[q]
  BY <1>0, <1>1, PlaceClaims
<1>4. NoForgottenReservation'
  BY <1>0, <1>3 DEF MotionInv, NoForgottenReservation
<1>5. MotionShape' /\ MotionKeepsItsSlots'
  BY DEF MotionShape, MotionKeepsItsSlots, MotionLocked, NoMotion
<1>. QED
  BY <1>2, <1>4, <1>5 DEF MotionInv

-----------------------------------------------------------------------------
(* Every step preserves the invariant.                                     *)

\* What the steps need of the row they move.
LEMMA RowFacts ==
  ASSUME TypeOK, RowsInv, NEW p \in Pallets
  PROVE  /\ location[p] \in Places
         /\ poolSlot[p] \in SlotOrNone /\ returnSlot[p] \in SlotOrNone
         /\ location[p] = "pool" => poolSlot[p] # NoSlot /\ Claim(p) = poolSlot[p]
         /\ location[p] \in Away => poolSlot[p] = NoSlot /\ Claim(p) = returnSlot[p]
         /\ location[p] = "robot_held" => returnSlot[p] # NoSlot
         /\ poolSlot[p] <= slotCount /\ returnSlot[p] <= slotCount
         /\ NoSlot <= slotCount
<1>1. RowShape(p)
  BY DEF RowsInv
<1>2. slotCount \in Nat
  BY BoardAssumption DEF TypeOK, Slots
<1>. QED
  BY <1>1, <1>2 DEF RowShape, TypeOK, SlotOrNone, Claim, Away, NoSlot

\* A pallet put into an open position of the pool, with no movement of its own.
LEMMA IntoPool ==
  ASSUME TypeOK, RowsInv, MotionInv, NEW p \in Pallets, NEW n \in OpenSlots(p),
         Place(p, "pool", n, NoSlot), slotCount' = slotCount, motion' = motion,
         MotionLocked => motion.pallet # p
  PROVE  RowsInv' /\ MotionInv' /\ PoolStep
<1>1. n \in SlotOrNone /\ n <= slotCount /\ n # NoSlot
  BY OpenSlotsTyped, OpenMeansUnclaimed DEF SlotOrNone
<1>2. "pool" \in Places /\ NoSlot \in SlotOrNone /\ "pool" \notin SoloPlaces
      /\ "pool" \notin Away
  BY DEF Places, SlotOrNone, SoloPlaces, Away
<1>3. LegalRow("pool", n, NoSlot) /\ NewClaim("pool", n, NoSlot) = n
  BY <1>1, <1>2, RowFacts DEF LegalRow, NewClaim, Away
<1>. QED
  BY <1>1, <1>2, <1>3, QuietRelocation

\* An edit of the board leaves the thread at its stage.
LEMMA BumpKeepsStage ==
  ASSUME TypeOK, WorkerHasMotion, Bump, motion' = motion
  PROVE  WorkerHasMotion'
BY DEF TypeOK, WorkerHasMotion, Bump, Active

\* move_pallet: the reservation it computes is the position the pallet had.
LEMMA MoveStep ==
  ASSUME TypeOK, RowsInv, MotionInv,
         NEW p \in Pallets, NEW dest \in Places, NEW named \in SlotOrNone,
         move_pallet(p, dest, named)
  PROVE  RowsInv' /\ MotionInv' /\ PoolStep
<1>. DEFINE ret == IF dest = "machine"
                   THEN IF poolSlot[p] # NoSlot THEN poolSlot[p] ELSE returnSlot[p]
                   ELSE IF dest = "pool" \/ location[p] = "machine" THEN NoSlot
                   ELSE returnSlot[p]
<1>1. /\ ~MotionLocked /\ location[p] # "robot_held"
      /\ dest \in {"pool", "machine", "storage"} \cup stations
      /\ dest \in SoloPlaces => Vacant(dest, p)
      /\ slotCount' = slotCount /\ motion' = motion
  BY DEF move_pallet, BoardEditable, settingsVars
<1>2. PICK n \in MoveSlots(p, dest, named) : Place(p, dest, n, ret)
  BY DEF move_pallet
<1>3. location[p] \notin Away => returnSlot[p] = NoSlot
  BY <1>1 DEF MotionInv, NoForgottenReservation, Away
<1>4. ret \in SlotOrNone /\ ret <= slotCount
  BY RowFacts DEF SlotOrNone
<1>5. dest # "robot_held"
  BY <1>1 DEF TypeOK
<1>6. CASE dest = "pool"
  <2>1. n \in OpenSlots(p) /\ ret = NoSlot
    BY <1>2, <1>6, ChosenSlotsAreOpen
  <2>. QED
    BY <1>1, <1>2, <1>6, <2>1, IntoPool
<1>7. CASE dest # "pool"
  <2>1. n = NoSlot /\ n \in SlotOrNone /\ n <= slotCount
    BY <1>2, <1>7, RowFacts DEF MoveSlots, SlotOrNone
  <2>2. dest \notin Away => ret = NoSlot
    BY <1>1, <1>3, <1>7 DEF Away
  <2>3. NewClaim(dest, n, ret) \in {NoSlot, Claim(p)}
    <3>1. CASE dest = "machine"
      <4>1. RowShape(p)
        BY DEF RowsInv
      <4>2. location[p] = "pool" => ret = Claim(p)
        BY <3>1, RowFacts
      <4>3. location[p] # "pool" => ret = returnSlot[p]
        BY <3>1, <4>1 DEF RowShape
      <4>. QED
        BY <1>3, <3>1, <4>2, <4>3, RowFacts DEF NewClaim, Away
    <3>2. CASE dest # "machine"
      BY <1>5, <1>7, <3>2 DEF NewClaim, Away
    <3>. QED
      BY <3>1, <3>2
  <2>4. LegalRow(dest, n, ret)
    BY <1>4, <1>5, <1>7, <2>1, <2>2 DEF LegalRow
  <2>. QED
    BY <1>1, <1>2, <1>4, <2>1, <2>2, <2>3, <2>4, QuietRelocation
<1>. QED
  BY <1>6, <1>7

\* simulate_signal returns the pallet in the mill, even one a robot was sent for.
LEMMA SignalStep ==
  ASSUME TypeOK, RowsInv, MotionInv, NEW p \in Pallets, simulate_signal(p)
  PROVE  RowsInv' /\ MotionInv' /\ PoolStep
<1>1. PICK n \in best_pool_return_slot(p) : Place(p, "pool", n, NoSlot)
  BY DEF simulate_signal
<1>2. n \in OpenSlots(p) /\ slotCount' = slotCount /\ motion' = motion
      /\ location[p] = "machine"
  BY <1>1, ChosenSlotsAreOpen DEF simulate_signal, settingsVars
<1>3. CASE MotionLocked /\ motion.pallet = p
  <2>1. motion.op = "unload_mill" /\ motion.dest # NoSlot /\ motion.source = NoSlot
    BY <1>2, <1>3 DEF MotionInv, MotionShape
  <2>2. Claim(p) = motion.dest /\ returnSlot[p] = motion.dest
    BY <1>2, <1>3, <2>1, LockedRow, RowFacts DEF Away
  <2>3. n = motion.dest
    BY <1>1, <1>2, <2>1, <2>2, ReturnsToReserved
  <2>4. n \in SlotOrNone /\ n <= slotCount /\ n # NoSlot
    BY <1>2, OpenSlotsTyped, OpenMeansUnclaimed DEF SlotOrNone
  <2>5. "pool" \in Places /\ NoSlot \in SlotOrNone /\ "pool" \notin SoloPlaces
    BY DEF Places, SlotOrNone, SoloPlaces
  <2>6. LegalRow("pool", n, NoSlot) /\ NewClaim("pool", n, NoSlot) = n
    BY <2>4, RowFacts DEF LegalRow, NewClaim, Away
  <2>7. RowsInv' /\ PoolStep
    BY <1>1, <1>2, <2>4, <2>5, <2>6, Relocation
  <2>8. /\ location'[p] = "pool" /\ returnSlot'[p] = NoSlot /\ Claim(p)' = n
        /\ \A q \in Pallets \ {p} : /\ location'[q] = location[q]
                                    /\ returnSlot'[q] = returnSlot[q]
    BY <1>1, <2>4, <2>5, <2>6, PlaceClaims
  <2>9. MotionInv'
    BY <1>2, <1>3, <2>1, <2>3, <2>8
    DEF MotionInv, NoForgottenReservation, MotionShape, MotionKeepsItsSlots,
        MotionLocked
  <2>. QED
    BY <2>7, <2>9
<1>4. CASE ~(MotionLocked /\ motion.pallet = p)
  BY <1>1, <1>2, <1>4, IntoPool
<1>. QED
  BY <1>3, <1>4

\* Resizing the pool looks at every row, the pallets that are away included.
LEMMA ResizeStep ==
  ASSUME TypeOK, RowsInv, MotionInv, NEW n \in Slots, ResizePool(n)
  PROVE  RowsInv' /\ MotionInv' /\ PoolStep
<1>1. /\ UNCHANGED <<location, poolSlot, returnSlot, motion>> /\ slotCount' = n
      /\ \A p \in Pallets : /\ location[p] = "pool" => poolSlot[p] <= n
                            /\ returnSlot[p] <= n
  BY DEF ResizePool, rowVars
<1>2. NoSlot <= n
  BY BoardAssumption DEF Slots, NoSlot
<1>3. ASSUME NEW p \in Pallets
      PROVE  RowShape(p)' /\ Claim(p)' = Claim(p)
  <2>1. RowShape(p)
    BY DEF RowsInv
  <2>. QED
    BY <1>1, <1>2, <2>1 DEF RowShape, Claim
<1>4. RowsInv'
  BY <1>1, <1>3 DEF RowsInv, SlotsExclusive, OnePalletPerPlace
<1>7. PoolStep
  <2>1. Claims' = Claims
    BY <1>3 DEF Claims
  <2>2. \A p \in Pallets : Claim(p) <= n
    BY <1>1, <1>2 DEF Claim
  <2>. QED
    BY <1>1, <2>1, <2>2 DEF PoolStep
<1>5. NoForgottenReservation' /\ MotionShape'
  BY <1>1 DEF MotionInv, NoForgottenReservation, MotionShape, MotionLocked
<1>6. MotionKeepsItsSlots'
  BY <1>1, <1>3, LockedRow DEF MotionInv, MotionKeepsItsSlots, MotionLocked
<1>. QED
  BY <1>4, <1>5, <1>6, <1>7 DEF MotionInv

\* The handlers of pallet rows and of the pool settings preserve the invariant
\* and allocate positions as PoolAllocation allows.
LEMMA BoardNextSafe ==
  ASSUME BoardInv, BoardNext
  PROVE  RowsInv' /\ MotionInv' /\ PoolStep /\ WorkerHasMotion'
<1>0. TypeOK /\ RowsInv /\ MotionInv /\ WorkerHasMotion
  BY BoardInvParts
<1>1. ASSUME NEW p \in Pallets, create_pallet(p)
      PROVE  RowsInv' /\ MotionInv' /\ PoolStep /\ WorkerHasMotion'
  <2>1. PICK n \in first_open_pool_slot(p) : Place(p, "pool", n, NoSlot)
    BY <1>1 DEF create_pallet
  <2>2. n \in OpenSlots(p)
    BY <1>0, <2>1, ChosenSlotsAreOpen
  <2>3. MotionLocked => motion.pallet # p
    BY <1>0, <1>1 DEF create_pallet, Present, MotionInv, MotionShape
  <2>. QED
    BY <1>0, <1>1, <2>1, <2>2, <2>3, IntoPool, BumpKeepsStage
    DEF create_pallet, settingsVars
<1>2. ASSUME NEW p \in Pallets, update_pallet(p)
      PROVE  RowsInv' /\ MotionInv' /\ PoolStep /\ WorkerHasMotion'
  BY <1>0, <1>2, StillStep, BumpKeepsStage
  DEF update_pallet, rowVars, placeVars, settingsVars
<1>3. ASSUME NEW p \in Pallets, delete_pallet(p)
      PROVE  RowsInv' /\ MotionInv' /\ PoolStep /\ WorkerHasMotion'
  <2>1. /\ "absent" \in Places /\ NoSlot \in SlotOrNone
        /\ "absent" \notin SoloPlaces \cup Away /\ "absent" # "pool"
    BY DEF Places, SlotOrNone, SoloPlaces, Away
  <2>2. /\ LegalRow("absent", NoSlot, NoSlot)
        /\ NewClaim("absent", NoSlot, NoSlot) = NoSlot
    BY <1>0, <2>1, RowFacts DEF LegalRow, NewClaim
  <2>. QED
    BY <1>0, <1>3, <2>1, <2>2, QuietRelocation, BumpKeepsStage
    DEF delete_pallet, settingsVars, BoardEditable
<1>4. ASSUME NEW p \in Pallets, NEW source \in Pallets, duplicate_pallet(p, source)
      PROVE  RowsInv' /\ MotionInv' /\ PoolStep /\ WorkerHasMotion'
  BY <1>1, <1>4 DEF duplicate_pallet
<1>5. ASSUME NEW p \in Pallets, NEW dest \in Places, NEW named \in {NoSlot} \cup Slots,
             move_pallet(p, dest, named)
      PROVE  RowsInv' /\ MotionInv' /\ PoolStep /\ WorkerHasMotion'
  BY <1>0, <1>5, MoveStep, BumpKeepsStage DEF move_pallet, SlotOrNone
<1>6. ASSUME NEW p \in Pallets, manually_return_mill_pallet_to_pool(p)
      PROVE  RowsInv' /\ MotionInv' /\ PoolStep /\ WorkerHasMotion'
  <2>1. PICK n \in best_pool_return_slot(p) : Place(p, "pool", n, NoSlot)
    BY <1>6 DEF manually_return_mill_pallet_to_pool
  <2>. QED
    BY <1>0, <1>6, <2>1, ChosenSlotsAreOpen, IntoPool, BumpKeepsStage
    DEF manually_return_mill_pallet_to_pool, settingsVars, BoardEditable
<1>7. ASSUME NEW p \in Pallets, simulate_signal(p)
      PROVE  RowsInv' /\ MotionInv' /\ PoolStep /\ WorkerHasMotion'
  BY <1>0, <1>7, SignalStep, BumpKeepsStage DEF simulate_signal
<1>8. ASSUME NEW n \in Slots, ResizePool(n)
      PROVE  RowsInv' /\ MotionInv' /\ PoolStep /\ WorkerHasMotion'
  BY <1>0, <1>8, ResizeStep, BumpKeepsStage DEF ResizePool
<1>9. ASSUME NEW s \in {"on_deck", "dripping"}, ToggleStation(s)
      PROVE  RowsInv' /\ MotionInv' /\ PoolStep /\ WorkerHasMotion'
  BY <1>0, <1>9, StillStep, BumpKeepsStage DEF ToggleStation, rowVars, placeVars
<1>. QED
  BY <1>1, <1>2, <1>3, <1>4, <1>5, <1>6, <1>7, <1>8, <1>9 DEF BoardNext

\* So do the queue handlers.
LEMMA QueueNextSafe ==
  ASSUME BoardInv, QueueNext
  PROVE  RowsInv' /\ MotionInv' /\ PoolStep /\ WorkerHasMotion'
<1>0. TypeOK /\ RowsInv /\ MotionInv /\ WorkerHasMotion
  BY BoardInvParts
<1>1. ASSUME NEW p \in Pallets, NEW k, queue_pallet(p, k)
      PROVE  RowsInv' /\ MotionInv' /\ PoolStep /\ WorkerHasMotion'
  <2>1. /\ slotCount' = slotCount /\ motion' = motion
        /\ MotionLocked => motion.pallet # p
        /\ WorkerHasMotion'
    BY <1>0, <1>1, BumpKeepsStage DEF queue_pallet, settingsVars, QueueEditable
  <2>2. CASE UNCHANGED placeVars
    BY <1>0, <2>1, <2>2, StillStep
  <2>3. ASSUME NEW n \in best_pool_return_slot(p), Place(p, "pool", n, NoSlot)
        PROVE  RowsInv' /\ MotionInv' /\ PoolStep
    BY <1>0, <2>1, <2>3, ChosenSlotsAreOpen, IntoPool
  <2>. QED
    BY <1>1, <2>1, <2>2, <2>3 DEF queue_pallet
<1>2. ASSUME NEW p \in Pallets, dequeue_pallet(p)
      PROVE  RowsInv' /\ MotionInv' /\ PoolStep /\ WorkerHasMotion'
  BY <1>0, <1>2, StillStep, BumpKeepsStage DEF dequeue_pallet, settingsVars
<1>3. ASSUME NEW order, reorder_queue(order)
      PROVE  RowsInv' /\ MotionInv' /\ PoolStep /\ WorkerHasMotion'
  BY <1>0, <1>3, StillStep, BumpKeepsStage DEF reorder_queue, settingsVars
<1>. QED
  BY <1>1, <1>2, <1>3 DEF QueueNext

\* So do Run Mode and the reliability test.
LEMMA ModeNextSafe ==
  ASSUME BoardInv, ModeNext
  PROVE  RowsInv' /\ MotionInv' /\ PoolStep /\ WorkerHasMotion'
<1>0. TypeOK /\ RowsInv /\ MotionInv /\ WorkerHasMotion
  BY BoardInvParts
<1>1. CASE start_run_mode \/ stop_run_mode
  BY <1>0, <1>1, StillStep, BumpKeepsStage
  DEF start_run_mode, stop_run_mode, rowVars, placeVars
<1>2. CASE CheckReliabilityTest \/ CommitReliabilityTest \/ EndReliabilityTest
  <2>1. /\ UNCHANGED placeVars /\ slotCount' = slotCount /\ motion' = motion
        /\ worker' = worker
    BY <1>2 DEF CheckReliabilityTest, CommitReliabilityTest, EndReliabilityTest,
                rowVars, placeVars, settingsVars
  <2>. QED
    BY <1>0, <2>1, StillStep DEF WorkerHasMotion, Active
<1>. QED
  BY <1>1, <1>2 DEF ModeNext

\* A commanded movement reserves the position its pallet has or will have.
LEMMA StartsSafe ==
  ASSUME BoardInv, NEW p \in Pallets,
         \/ StartPick(p)
         \/ \E n \in OpenSlots(p) : StartPut(p, n)
         \/ \E automated : StartLoad(p, automated)
         \/ \E n \in OpenSlots(p) : \E automated : StartUnload(p, n, automated)
  PROVE  RowsInv' /\ MotionInv' /\ PoolStep /\ WorkerHasMotion'
<1>0. TypeOK /\ RowsInv /\ MotionInv
  BY BoardInvParts
<1>1. /\ NoSlot \in SlotOrNone /\ Operations = {"pick", "put", "load_mill", "unload_mill"}
      /\ Away = {"machine", "robot_held"}
  BY DEF SlotOrNone, Operations, Away
<1>2. RowShape(p)
  BY <1>0 DEF RowsInv
<1>3. CASE StartPick(p)
  <2>. DEFINE ret == poolSlot[p]
  <2>1. LegalRow(location[p], poolSlot[p], ret)
    BY <1>0, <1>1, <1>2, <1>3, RowFacts DEF LegalRow, StartPick
  <2>2. NewClaim(location[p], poolSlot[p], ret) = poolSlot[p] /\ Claim(p) = poolSlot[p]
        /\ poolSlot[p] # NoSlot /\ poolSlot[p] \in SlotOrNone
    BY <1>0, <1>3, RowFacts DEF NewClaim, StartPick
  <2>. QED
    BY <1>0, <1>1, <1>3, <2>1, <2>2, CommandStep DEF StartPick, MotionFree, settingsVars
<1>4. ASSUME NEW n \in OpenSlots(p), StartPut(p, n)
      PROVE  RowsInv' /\ MotionInv' /\ PoolStep /\ WorkerHasMotion'
  <2>1. n \in SlotOrNone /\ n # NoSlot /\ n <= slotCount
    BY <1>0, OpenSlotsTyped, OpenMeansUnclaimed DEF SlotOrNone
  <2>2. LegalRow(location[p], poolSlot[p], n)
        /\ NewClaim(location[p], poolSlot[p], n) = n
    BY <1>0, <1>1, <1>2, <1>4, <2>1, RowFacts DEF LegalRow, NewClaim, StartPut
  <2>. QED
    BY <1>0, <1>1, <1>4, <2>1, <2>2, CommandStep DEF StartPut, MotionFree, settingsVars
<1>5. ASSUME NEW automated, StartLoad(p, automated)
      PROVE  RowsInv' /\ MotionInv' /\ PoolStep /\ WorkerHasMotion'
  <2>. DEFINE source == IF location[p] = "pool" THEN poolSlot[p] ELSE NoSlot
              ret == IF source # NoSlot THEN source ELSE returnSlot[p]
  <2>1. /\ source \in SlotOrNone /\ ret \in SlotOrNone
        /\ location[p] \in {"pool", "robot_held"}
        /\ location[p] = "pool" => source # NoSlot /\ ret = poolSlot[p]
        /\ location[p] = "robot_held" => source = NoSlot /\ ret = returnSlot[p]
    BY <1>0, <1>1, <1>5, RowFacts DEF StartLoad
  <2>2. LegalRow(location[p], poolSlot[p], ret)
    BY <1>0, <1>1, <1>2, <2>1, RowFacts DEF LegalRow
  <2>3. /\ NewClaim(location[p], poolSlot[p], ret) = Claim(p)
        /\ source # NoSlot => source = Claim(p)
    BY <1>0, <1>1, <2>1, RowFacts DEF NewClaim
  <2>. QED
    BY <1>0, <1>1, <1>5, <2>1, <2>2, <2>3, CommandStep
    DEF StartLoad, MotionFree, settingsVars
<1>6. ASSUME NEW n \in OpenSlots(p), NEW automated, StartUnload(p, n, automated)
      PROVE  RowsInv' /\ MotionInv' /\ PoolStep /\ WorkerHasMotion'
  <2>1. n \in SlotOrNone /\ n # NoSlot /\ n <= slotCount
    BY <1>0, OpenSlotsTyped, OpenMeansUnclaimed DEF SlotOrNone
  <2>2. LegalRow(location[p], poolSlot[p], n)
        /\ NewClaim(location[p], poolSlot[p], n) = n
    BY <1>0, <1>1, <1>2, <1>6, <2>1, RowFacts DEF LegalRow, NewClaim, StartUnload
  <2>. QED
    BY <1>0, <1>1, <1>6, <2>1, <2>2, CommandStep DEF StartUnload, MotionFree, settingsVars
<1>. QED
  BY <1>3, <1>4, <1>5, <1>6

\* A recovery records the pallet at one end of its movement, with the claim the
\* movement has kept for it.
LEMMA RecoverySafe ==
  ASSUME BoardInv, NEW resolution, recover_pallet_motion(resolution)
  PROVE  RowsInv' /\ MotionInv' /\ PoolStep /\ WorkerHasMotion'
<1>. DEFINE p == motion.pallet
<1>0. TypeOK /\ RowsInv /\ MotionInv /\ WorkerHasMotion
  BY BoardInvParts
<1>1. /\ motion.status = "faulted" /\ MotionLocked /\ motion' = NoMotion
      /\ slotCount' = slotCount /\ resolution \in AllowedResolutions
  BY DEF recover_pallet_motion, settingsVars, MotionLocked
<1>2. /\ p \in Pallets
      /\ motion.source \in SlotOrNone /\ motion.dest \in SlotOrNone
      /\ motion.source <= slotCount /\ motion.dest <= slotCount
      /\ motion.source # NoSlot => Claim(p) = motion.source
      /\ motion.dest # NoSlot => Claim(p) = motion.dest
  BY <1>0, <1>1, LockedRow, MotionTyped
<1>3. /\ NoSlot \in SlotOrNone /\ Away = {"machine", "robot_held"}
      /\ SoloPlaces = {"machine", "on_deck", "dripping", "robot_held"}
  BY DEF SlotOrNone, Away, SoloPlaces
<1>4. CASE \E place \in {"machine", "robot_held"} :
             Vacant(place, p) /\ Place(p, place, NoSlot, KeptReturn)
  <2>1. KeptReturn = Claim(p) /\ KeptReturn # NoSlot
    <3>1. RowShape(p) /\ MotionShape
      BY <1>0, <1>2 DEF RowsInv, MotionInv
    <3>2. returnSlot[p] # NoSlot \/ motion.source # NoSlot \/ motion.dest # NoSlot
      BY <1>1, <3>1, <1>0, <1>2, RowFacts DEF MotionShape
    <3>3. returnSlot[p] # NoSlot => Claim(p) = returnSlot[p]
      BY <1>0, <1>1, <1>2, <1>3, <3>1, RowFacts DEF MotionShape, RowShape
    <3>. QED
      BY <1>2, <3>2, <3>3 DEF KeptReturn
  <2>2. KeptReturn \in SlotOrNone /\ KeptReturn <= slotCount /\ NoSlot <= slotCount
    BY <1>0, <1>2, RowFacts DEF KeptReturn
  <2>3. PICK place \in {"machine", "robot_held"} :
          Vacant(place, p) /\ Place(p, place, NoSlot, KeptReturn)
    BY <1>4
  <2>4. LegalRow(place, NoSlot, KeptReturn)
        /\ NewClaim(place, NoSlot, KeptReturn) = Claim(p)
    BY <1>3, <2>1, <2>2 DEF LegalRow, NewClaim
  <2>5. RowsInv' /\ MotionInv' /\ PoolStep
    BY <1>0, <1>1, <1>2, <1>3, <2>2, <2>3, <2>4, SettledStep
  <2>. QED
    BY <1>0, <1>1, <2>5 DEF WorkerHasMotion, Active, recover_pallet_motion, Bump, TypeOK
<1>5. ASSUME NEW slot \in {motion.source, motion.dest} \ {NoSlot},
             Place(p, "pool", slot, NoSlot)
      PROVE  RowsInv' /\ MotionInv' /\ PoolStep /\ WorkerHasMotion'
  <2>1. slot \in SlotOrNone /\ slot = Claim(p) /\ slot <= slotCount /\ NoSlot <= slotCount
    BY <1>0, <1>2, RowFacts
  <2>2. LegalRow("pool", slot, NoSlot) /\ NewClaim("pool", slot, NoSlot) = Claim(p)
    BY <1>3, <2>1 DEF LegalRow, NewClaim
  <2>3. RowsInv' /\ MotionInv' /\ PoolStep
    BY <1>0, <1>1, <1>3, <1>5, <2>1, <2>2, SettledStep
  <2>. QED
    BY <1>0, <1>1, <2>3 DEF WorkerHasMotion, Active, recover_pallet_motion, Bump, TypeOK
<1>6. MotionShape
  BY <1>0 DEF MotionInv
<1>7. CASE resolution \in {"machine", "robot_held"}
  BY <1>4, <1>7 DEF recover_pallet_motion
<1>8. CASE resolution = "source_pool"
  <2>1. motion.source # NoSlot
    BY <1>1, <1>6, <1>8 DEF AllowedResolutions, MotionShape
  <2>. QED
    BY <1>5, <1>8, <2>1 DEF recover_pallet_motion
<1>9. CASE resolution = "destination_pool"
  <2>1. motion.dest # NoSlot
    BY <1>1, <1>6, <1>9 DEF AllowedResolutions, MotionShape
  <2>. QED
    BY <1>5, <1>9, <2>1 DEF recover_pallet_motion
<1>. QED
  BY <1>7, <1>8, <1>9 DEF recover_pallet_motion

\* Commanding and recovering movements preserves the invariant.
LEMMA MotionNextSafe ==
  ASSUME BoardInv, MotionNext
  PROVE  RowsInv' /\ MotionInv' /\ PoolStep /\ WorkerHasMotion'
<1>0. TypeOK
  BY BoardInvParts
<1>1. ASSUME NEW p \in Pallets, start_automatic_put_away(p)
      PROVE  RowsInv' /\ MotionInv' /\ PoolStep /\ WorkerHasMotion'
  BY <1>0, <1>1, StartsSafe, ChosenSlotsAreOpen DEF start_automatic_put_away
<1>2. ASSUME NEW p \in Pallets, NEW n \in Slots, StartPut(p, n)
      PROVE  RowsInv' /\ MotionInv' /\ PoolStep /\ WorkerHasMotion'
  BY <1>2, StartsSafe DEF StartPut
<1>3. ASSUME NEW p \in Pallets, NEW n \in Slots, NEW automated \in BOOLEAN,
             StartUnload(p, n, automated)
      PROVE  RowsInv' /\ MotionInv' /\ PoolStep /\ WorkerHasMotion'
  <2>1. n \in OpenSlots(p)
    BY <1>3 DEF StartUnload
  <2>. QED
    BY <1>3, <2>1, StartsSafe
<1>4. ASSUME NEW p \in Pallets, NEW automated \in BOOLEAN, StartLoad(p, automated)
      PROVE  RowsInv' /\ MotionInv' /\ PoolStep /\ WorkerHasMotion'
  BY <1>4, StartsSafe
<1>5. ASSUME NEW p \in Pallets, StartPick(p)
      PROVE  RowsInv' /\ MotionInv' /\ PoolStep /\ WorkerHasMotion'
  BY <1>5, StartsSafe
<1>. QED
  BY <1>1, <1>2, <1>3, <1>4, <1>5, RecoverySafe DEF MotionNext

\* What the thread observes of a pick keeps the claim on the source position.
LEMMA LiftSafe ==
  ASSUME BoardInv, LiftObserved
  PROVE  RowsInv' /\ MotionInv' /\ PoolStep /\ WorkerHasMotion'
<1>0. TypeOK /\ RowsInv /\ MotionInv /\ WorkerHasMotion
  BY BoardInvParts
<1>. MotionLocked
  BY DEF LiftObserved, MotionLocked
<1>2. PICK p \in Pallets : p = motion.pallet
  BY <1>0, LockedRow
<1>1. /\ motion.status = "running" /\ motion.op = "pick" /\ location[p] = "pool"
      /\ poolSlot[p] = motion.source /\ Vacant("robot_held", p)
      /\ slotCount' = slotCount /\ motion' = motion
  BY <1>2 DEF LiftObserved, settingsVars
<1>3. CASE UNCHANGED placeVars
  <2>1. RowsInv' /\ MotionInv' /\ PoolStep
    BY <1>0, <1>1, <1>3, StillStep
  <2>. QED
    BY <1>1, <2>1 DEF WorkerHasMotion, Active
<1>4. CASE Place(p, "robot_held", NoSlot, motion.source)
  <2>1. /\ motion.source \in SlotOrNone /\ motion.source # NoSlot
        /\ motion.source = Claim(p) /\ motion.source <= slotCount /\ NoSlot <= slotCount
    BY <1>0, <1>1, <1>2, RowFacts, MotionTyped
  <2>2. /\ "robot_held" \in Places /\ NoSlot \in SlotOrNone
        /\ Away = {"machine", "robot_held"}
    BY DEF Places, SlotOrNone, Away
  <2>3. LegalRow("robot_held", NoSlot, motion.source)
        /\ NewClaim("robot_held", NoSlot, motion.source) = Claim(p)
    BY <2>1, <2>2 DEF LegalRow, NewClaim
  <2>4. RowsInv' /\ PoolStep
    BY <1>0, <1>1, <1>2, <1>4, <2>1, <2>2, <2>3, Relocation
  <2>5. /\ location'[p] = "robot_held" /\ Claim(p)' = Claim(p)
        /\ \A q \in Pallets \ {p} : /\ location'[q] = location[q]
                                    /\ returnSlot'[q] = returnSlot[q]
    BY <1>0, <1>2, <1>4, <2>1, <2>2, <2>3, PlaceClaims
  <2>6. NoForgottenReservation' /\ MotionShape' /\ MotionKeepsItsSlots'
    BY <1>0, <1>1, <1>2, <2>5
    DEF MotionInv, NoForgottenReservation, MotionShape, MotionKeepsItsSlots, MotionLocked
  <2>. QED
    BY <1>1, <2>4, <2>6 DEF MotionInv, WorkerHasMotion, Active
<1>. QED
  BY <1>2, <1>3, <1>4 DEF LiftObserved

\* A confirmed movement writes its pallet where the claim of the movement is.
LEMMA FinishSafe ==
  ASSUME BoardInv, FinishSucceeds
  PROVE  RowsInv' /\ MotionInv' /\ PoolStep /\ WorkerHasMotion'
<1>0. TypeOK /\ RowsInv /\ MotionInv /\ WorkerHasMotion
  BY BoardInvParts
<1>. DEFINE p == motion.pallet
<1>1. /\ MotionLocked /\ ResultFits /\ Place(p, ResultPlace, motion.dest, ResultReturn)
      /\ slotCount' = slotCount /\ motion' = NoMotion /\ worker' = NoWorker
  BY <1>0 DEF FinishSucceeds, settingsVars, WorkerHasMotion, Active, MotionLocked
<1>2. /\ p \in Pallets
      /\ motion.source \in SlotOrNone /\ motion.dest \in SlotOrNone
      /\ motion.source <= slotCount /\ motion.dest <= slotCount
      /\ motion.source # NoSlot => Claim(p) = motion.source
      /\ motion.dest # NoSlot => Claim(p) = motion.dest
  BY <1>0, <1>1, LockedRow, MotionTyped
<1>3. /\ NoSlot \in SlotOrNone /\ Away = {"machine", "robot_held"}
      /\ SoloPlaces = {"machine", "on_deck", "dripping", "robot_held"}
      /\ NoSlot <= slotCount
  BY <1>0, <1>2, RowFacts DEF SlotOrNone, Away, SoloPlaces
<1>4. MotionShape
  BY <1>0 DEF MotionInv
<1>5. CASE motion.op = "pick"
  <2>1. /\ motion.dest = NoSlot /\ motion.source # NoSlot
        /\ ResultPlace = "robot_held" /\ ResultReturn = motion.source
    BY <1>1, <1>4, <1>5 DEF MotionShape, ResultPlace, ResultReturn
  <2>2. LegalRow("robot_held", NoSlot, motion.source)
        /\ NewClaim("robot_held", NoSlot, motion.source) = Claim(p)
    BY <1>2, <1>3, <2>1 DEF LegalRow, NewClaim
  <2>. QED
    BY <1>0, <1>1, <1>2, <1>3, <2>1, <2>2, SettledStep
    DEF ResultFits, WorkerHasMotion, NoWorker
<1>6. CASE motion.op = "load_mill"
  <2>1. motion.dest = NoSlot /\ ResultPlace = "machine"
    BY <1>1, <1>4, <1>6 DEF MotionShape, ResultPlace
  <2>2. motion.source = NoSlot => ResultReturn = returnSlot[p] /\ Claim(p) = returnSlot[p]
    BY <1>0, <1>1, <1>2, <1>3, <1>4, <1>6, RowFacts DEF MotionShape, ResultReturn
  <2>3. motion.source # NoSlot => ResultReturn = motion.source
    BY <1>6 DEF ResultReturn
  <2>4. /\ ResultReturn = Claim(p) /\ ResultReturn \in SlotOrNone
        /\ ResultReturn <= slotCount
    BY <1>0, <1>2, <2>2, <2>3, RowFacts
  <2>5. LegalRow("machine", NoSlot, ResultReturn)
        /\ NewClaim("machine", NoSlot, ResultReturn) = Claim(p)
    BY <1>3, <2>4 DEF LegalRow, NewClaim
  <2>. QED
    BY <1>0, <1>1, <1>2, <1>3, <2>1, <2>4, <2>5, SettledStep
    DEF ResultFits, WorkerHasMotion, NoWorker
<1>7. CASE motion.op \in {"put", "unload_mill"}
  <2>1. motion.dest # NoSlot /\ ResultPlace = "pool" /\ ResultReturn = NoSlot
    BY <1>1, <1>4, <1>7 DEF MotionShape, ResultPlace, ResultReturn
  <2>2. LegalRow("pool", motion.dest, NoSlot)
        /\ NewClaim("pool", motion.dest, NoSlot) = Claim(p)
    BY <1>2, <1>3, <2>1 DEF LegalRow, NewClaim
  <2>. QED
    BY <1>0, <1>1, <1>2, <1>3, <2>1, <2>2, SettledStep DEF WorkerHasMotion, NoWorker
<1>. QED
  BY <1>1, <1>4, <1>5, <1>6, <1>7 DEF MotionShape

\* The thread of a movement preserves the invariant.
LEMMA WorkerNextSafe ==
  ASSUME BoardInv, WorkerNext
  PROVE  RowsInv' /\ MotionInv' /\ PoolStep /\ WorkerHasMotion'
<1>0. TypeOK /\ RowsInv /\ MotionInv /\ WorkerHasMotion
  BY BoardInvParts
<1>1. CASE WorkerBegins \/ RobotSettles \/ RobotFails \/ FinishConflicts
  <2>1. /\ UNCHANGED placeVars /\ slotCount' = slotCount /\ motion' = motion
        /\ worker.stage # "none"
    BY <1>1 DEF WorkerBegins, RobotSettles, RobotFails, FinishConflicts,
                rowVars, placeVars, settingsVars
  <2>. QED
    BY <1>0, <2>1, StillStep DEF WorkerHasMotion, Active
<1>2. CASE RobotStarts \/ FinishFaults
  <2>1. /\ UNCHANGED placeVars /\ slotCount' = slotCount
        /\ MotionLocked
        /\ \E s \in {"running", "faulted"} : motion' = [motion EXCEPT !.status = s]
    BY <1>0, <1>2 DEF RobotStarts, FinishFaults, rowVars, placeVars, settingsVars,
                      MotionLocked, WorkerHasMotion, Active
  <2>2. RowsInv' /\ MotionInv' /\ PoolStep
    BY <1>0, <2>1, StillStep
  <2>3. CASE RobotStarts
    BY <1>0, <2>1, <2>2, <2>3, MotionTyped DEF RobotStarts, WorkerHasMotion, Active
  <2>4. CASE FinishFaults
    BY <2>2, <2>4 DEF FinishFaults, WorkerHasMotion, NoWorker
  <2>. QED
    BY <1>2, <2>3, <2>4
<1>. QED
  BY <1>1, <1>2, LiftSafe, FinishSafe DEF WorkerNext

\* A restart preserves the invariant: it faults the motion and keeps its claims.
LEMMA RestartSafe ==
  ASSUME BoardInv, Restart
  PROVE  RowsInv' /\ MotionInv' /\ PoolStep /\ WorkerHasMotion'
<1>0. TypeOK /\ RowsInv /\ MotionInv /\ WorkerHasMotion
  BY BoardInvParts
<1>1. UNCHANGED placeVars /\ slotCount' = slotCount /\ worker' = NoWorker
  BY DEF Restart, rowVars, placeVars
<1>2. motion' = motion \/ (MotionLocked /\ motion' = [motion EXCEPT !.status = "faulted"])
  BY DEF Restart, Active, MotionLocked
<1>. QED
  BY <1>0, <1>1, <1>2, StillStep DEF WorkerHasMotion, NoWorker

\* Every step of the board preserves the invariant and is a step of the pool.
LEMMA StepSafe ==
  ASSUME BoardInv, [Next]_vars
  PROVE  BoardInv' /\ PoolStep
<1>1. TypeOK
  BY DEF BoardInv
<1>2. CASE Next
  <2>1. TypeOK'
    BY <1>1, <1>2, BoardNextTyped, QueueNextTyped, ModeNextTyped, MotionNextTyped,
       WorkerNextTyped, RestartTyped DEF Next
  <2>. QED
    BY <1>2, <2>1, BoardNextSafe, QueueNextSafe, ModeNextSafe, MotionNextSafe,
       WorkerNextSafe, RestartSafe, BoardInvParts DEF Next
<1>3. CASE UNCHANGED vars
  <2>1. TypeOK'
    BY <1>1, <1>3 DEF vars, rowVars, settingsVars, TypeOK
  <2>2. RowsInv' /\ MotionInv' /\ PoolStep
    BY <1>3, BoardInvParts, StillStep DEF vars, rowVars, placeVars, settingsVars
  <2>3. WorkerHasMotion'
    BY <1>3, BoardInvParts DEF vars, WorkerHasMotion, Active
  <2>. QED
    BY <2>1, <2>2, <2>3, BoardInvParts
<1>. QED
  BY <1>2, <1>3

\* BoardInv holds at first, is preserved by every step, and gives each property.
THEOREM BoardInvariant == Spec => []BoardInv
<1>1. Init => BoardInv
  <2>. SUFFICES ASSUME Init PROVE BoardInv
    OBVIOUS
  <2>1. TypeOK
    <3>1. NoMotion \in MotionType /\ NoWorker \in WorkerType
      BY DEF NoMotion, MotionType, NoWorker, WorkerType, SlotOrNone, Stages,
             CompletionAttempts
    <3>2. MaxSlots \in Slots
      BY BoardAssumption DEF Slots
    <3>. QED
      BY <3>1, <3>2, TypeParts DEF Init, TypeShape, Places, SlotOrNone
  <2>2. \A p \in Pallets : location[p] = "absent" /\ poolSlot[p] = NoSlot
                           /\ returnSlot[p] = NoSlot
    BY DEF Init
  <2>3. NoSlot <= slotCount
    BY BoardAssumption DEF Init, NoSlot
  <2>4. RowsInv
    BY <2>2, <2>3
    DEF RowsInv, RowShape, SlotsExclusive, OnePalletPerPlace, Claim, SoloPlaces, Away
  <2>5. MotionInv /\ WorkerHasMotion
    BY <2>2 DEF Init, MotionInv, NoForgottenReservation, MotionShape, MotionLocked,
                MotionKeepsItsSlots, NoMotion, NoWorker, WorkerHasMotion
  <2>. QED
    BY <2>1, <2>4, <2>5, BoardInvParts
<1>2. BoardInv /\ [Next]_vars => BoardInv'
  BY StepSafe
<1>. QED
  BY <1>1, <1>2, PTL DEF Spec

\* No pool position is promised twice, whatever handlers, movements, recoveries
\* and restarts follow each other.
THEOREM NoSlotPromisedTwice == Spec => []SlotsExclusive
<1>1. BoardInv => SlotsExclusive
  BY DEF BoardInv
<1>. QED
  BY <1>1, BoardInvariant, PTL

\* Positions in use or reserved exist, also after the pool was resized.
THEOREM EveryClaimInsidePool == Spec => []ClaimsInsidePool
<1>1. BoardInv => ClaimsInsidePool
  BY BoardInvParts, ClaimBounds DEF ClaimsInsidePool
<1>. QED
  BY <1>1, BoardInvariant, PTL

\* The mill, the gripper and the stations hold one pallet each.
THEOREM PlacesHoldOnePallet == Spec => []OnePalletPerPlace
<1>1. BoardInv => OnePalletPerPlace
  BY DEF BoardInv
<1>. QED
  BY <1>1, BoardInvariant, PTL

\* A pallet in the gripper always has a position to go back to.
THEOREM HeldPalletHasSlot == Spec => []HeldPalletCanReturn
<1>1. BoardInv => HeldPalletCanReturn
  BY DEF BoardInv, RowShape, HeldPalletCanReturn
<1>. QED
  BY <1>1, BoardInvariant, PTL

\* Only a pallet that is away, or about to be, keeps a reservation.
THEOREM ReservationsAreNeeded == Spec => []NoForgottenReservation
<1>1. BoardInv => NoForgottenReservation
  BY DEF BoardInv
<1>. QED
  BY <1>1, BoardInvariant, PTL

\* Both ends of a movement stay claimed by its pallet until it is reconciled.
THEOREM MotionKeepsBothEnds == Spec => []MotionKeepsItsSlots
<1>1. BoardInv => MotionKeepsItsSlots
  BY DEF BoardInv
<1>. QED
  BY <1>1, BoardInvariant, PTL

\* The board implements the allocator of pool positions.
THEOREM BoardImplementsPool == Spec => BoardAllocatesPool
<1>1. Init => Pool!Init
  BY DEF Init, Pool!Init, Claims, Claim, NoSlot
<1>2. BoardInv /\ [Next]_vars => [Pool!Next]_<<Claims, slotCount>>
  <2>. SUFFICES ASSUME BoardInv, PoolStep
                PROVE  [Pool!Next]_<<Claims, slotCount>>
    BY StepSafe
  <2>1. CASE Claims' = Claims /\ slotCount' = slotCount
    BY <2>1
  <2>2. ASSUME slotCount' = slotCount,
               NEW p \in Pallets, NEW n \in OpenSlots(p) \cup {NoSlot},
               Claims' = [Claims EXCEPT ![p] = n]
        PROVE  Pool!Next
    <3>1. CASE n \in OpenSlots(p)
      <4>1. n \in 1..slotCount /\ \A q \in Pallets \ {p} : Claims[q] # n
        BY <3>1 DEF OpenSlots, Claims
      <4>2. Pool!Take(p, n)
        BY <2>2, <4>1 DEF Pool!Take
      <4>. QED
        BY <4>1, <4>2 DEF Pool!Next
    <3>2. CASE n = NoSlot
      BY <2>2, <3>2 DEF Pool!Next, Pool!Release, NoSlot
    <3>. QED
      BY <2>2, <3>1, <3>2
  <2>3. ASSUME Claims' = Claims, slotCount' \in Slots,
               \A p \in Pallets : Claim(p) <= slotCount'
        PROVE  Pool!Next
    <3>1. Pool!Resize(slotCount')
      BY <2>3 DEF Pool!Resize, Claims
    <3>. QED
      BY <2>3, <3>1 DEF Pool!Next, Slots
  <2>. QED
    BY <2>1, <2>2, <2>3 DEF PoolStep
<1>. QED
  BY <1>1, <1>2, BoardInvariant, PTL
  DEF Spec, BoardAllocatesPool, Pool!Spec, Pool!vars
-----------------------------------------------------------------------------
(* Why a row moves, and who may put the pallet of a movement into the      *)
(* queue or take it out.                                                   *)

\* The reasons a step has to move p: the movement of p ended or was seen to lift
\* it, the debug menu's signal, or an edit of a row that no movement is locked on
\* and that Run Mode leaves to the operator.
MovedRightly(p) ==
  \/ location'[p] = location[p]
  \/ /\ MotionLocked /\ motion.pallet = p
     /\ motion' = NoMotion \/ (motion.op = "pick" /\ location'[p] = "robot_held")
  \/ simulate_signal(p)
  \/ /\ MotionLocked => motion.pallet # p
     /\ runMode => location[p] # "machine"

QueueEditRight ==
  MotionLocked /\ MotionLocked' => (motion.pallet \in Queued <=> motion.pallet \in Queued')

StepRight == (\A p \in Pallets : MovedRightly(p)) /\ QueueEditRight

\* A row that Place does not name stays where it is.
LEMMA OthersStay ==
  ASSUME TypeOK, NEW p, NEW place, NEW slot, NEW ret, Place(p, place, slot, ret)
  PROVE  \A q \in Pallets \ {p} : location'[q] = location[q]
BY DEF TypeOK, Place

\* Renumbering a set of rows makes it the queue.
LEMMA CompactedQueue ==
  ASSUME NEW Q \in SUBSET Pallets, queuePos' = compact_queue(Q)
  PROVE  Queued' = Q
BY RankTyped DEF compact_queue, Queued, NotQueued

\* Inserting a row adds it to the queue.
LEMMA InsertedQueue ==
  ASSUME NEW p \in Pallets, NEW k \in Nat, queuePos' = Inserted(p, k)
  PROVE  Queued' = Queued \cup {p}
<1>1. Queued \ {p} \in SUBSET Pallets
  BY DEF Queued
<1>2. \A q \in Pallets : Rank(q, Queued \ {p}) \in Nat
  BY <1>1, RankTyped
<1>3. \A q \in Pallets : queuePos'[q] # NotQueued <=> q \in Queued \cup {p}
  BY <1>2 DEF Inserted, NotQueued
<1>. QED
  BY <1>3 DEF Queued

\* The handlers of pallet rows move unlocked pallets that Run Mode does not need.
LEMMA BoardNextRight ==
  ASSUME BoardInv, BoardNext
  PROVE  StepRight
<1>0. TypeOK /\ RowsInv /\ MotionInv
  BY BoardInvParts
<1>1. ASSUME NEW p \in Pallets, create_pallet(p)
      PROVE  StepRight
  <2>1. PICK n \in first_open_pool_slot(p) : Place(p, "pool", n, NoSlot)
    BY <1>1 DEF create_pallet
  <2>2. (MotionLocked => motion.pallet # p) /\ location[p] = "absent"
    BY <1>0, <1>1 DEF create_pallet, Present, MotionInv, MotionShape
  <2>3. Queued' = Queued
    BY <1>1 DEF create_pallet, Queued
  <2>. QED
    BY <1>0, <2>1, <2>2, <2>3, OthersStay DEF StepRight, MovedRightly, QueueEditRight
<1>2. ASSUME NEW p \in Pallets, delete_pallet(p)
      PROVE  StepRight
  BY <1>0, <1>2, OthersStay
  DEF delete_pallet, BoardEditable, Manageable, StepRight, MovedRightly, QueueEditRight
<1>3. ASSUME NEW p \in Pallets, NEW source \in Pallets, duplicate_pallet(p, source)
      PROVE  StepRight
  BY <1>1, <1>3 DEF duplicate_pallet
<1>4. ASSUME NEW p \in Pallets, NEW dest \in Places, NEW named \in {NoSlot} \cup Slots,
             move_pallet(p, dest, named)
      PROVE  StepRight
  <2>1. \E n, ret : Place(p, dest, n, ret)
    BY <1>4 DEF move_pallet
  <2>2. \A q \in Pallets \ {p} : location'[q] = location[q]
    BY <1>0, <2>1, OthersStay
  <2>3. ~MotionLocked /\ (runMode => location[p] # "machine")
    BY <1>4 DEF move_pallet, BoardEditable, Manageable
  <2>. QED
    BY <2>2, <2>3 DEF StepRight, MovedRightly, QueueEditRight
<1>5. ASSUME NEW p \in Pallets, manually_return_mill_pallet_to_pool(p)
      PROVE  StepRight
  BY <1>0, <1>5, OthersStay
  DEF manually_return_mill_pallet_to_pool, BoardEditable, StepRight, MovedRightly,
      QueueEditRight
<1>6. ASSUME NEW p \in Pallets, simulate_signal(p)
      PROVE  StepRight
  <2>1. \A q \in Pallets \ {p} : location'[q] = location[q]
    BY <1>0, <1>6, OthersStay DEF simulate_signal
  <2>2. Queued' = Queued
    BY <1>6 DEF simulate_signal, Queued
  <2>. QED
    BY <1>6, <2>1, <2>2 DEF StepRight, MovedRightly, QueueEditRight
<1>7. CASE \/ \E p \in Pallets : update_pallet(p)
           \/ \E n \in Slots : ResizePool(n)
           \/ \E s \in {"on_deck", "dripping"} : ToggleStation(s)
  <2>1. location' = location /\ queuePos' = queuePos
    BY <1>7 DEF update_pallet, ResizePool, ToggleStation, rowVars
  <2>. QED
    BY <2>1 DEF StepRight, MovedRightly, QueueEditRight, Queued
<1>. QED
  BY <1>1, <1>2, <1>3, <1>4, <1>5, <1>6, <1>7 DEF BoardNext

\* The queue handlers refuse the pallet of a locked movement.
LEMMA QueueNextRight ==
  ASSUME BoardInv, QueueNext
  PROVE  StepRight
<1>0. TypeOK /\ RowsInv /\ MotionInv /\ Queued \in SUBSET Pallets
  BY BoardInvParts DEF Queued
<1>1. ASSUME NEW p \in Pallets, NEW k \in 0..Cardinality(Pallets), queue_pallet(p, k)
      PROVE  StepRight
  <2>1. /\ MotionLocked => motion.pallet # p
        /\ runMode => location[p] # "machine"
        /\ queuePos' = Inserted(p, k)
    BY <1>1 DEF queue_pallet, QueueEditable, Manageable
  <2>2. \A q \in Pallets \ {p} : location'[q] = location[q]
    BY <1>0, <1>1, OthersStay DEF queue_pallet, placeVars
  <2>3. Queued' = Queued \cup {p}
    BY <2>1, InsertedQueue
  <2>. QED
    BY <2>1, <2>2, <2>3 DEF StepRight, MovedRightly, QueueEditRight
<1>2. ASSUME NEW p \in Pallets, dequeue_pallet(p)
      PROVE  StepRight
  <2>1. /\ MotionLocked => motion.pallet # p
        /\ queuePos' = compact_queue(Queued \ {p}) /\ location' = location
    BY <1>2 DEF dequeue_pallet, QueueEditable, placeVars
  <2>2. Queued' = Queued \ {p}
    BY <1>0, <2>1, CompactedQueue
  <2>. QED
    BY <2>1, <2>2 DEF StepRight, MovedRightly, QueueEditRight
<1>3. ASSUME NEW order \in [Queued -> 0..(Cardinality(Queued) - 1)], reorder_queue(order)
      PROVE  StepRight
  <2>1. location' = location /\ Queued' = Queued
    BY <1>3, ReorderIsContiguous DEF reorder_queue, placeVars
  <2>. QED
    BY <2>1 DEF StepRight, MovedRightly, QueueEditRight
<1>. QED
  BY <1>1, <1>2, <1>3 DEF QueueNext

\* Run Mode, the reliability test and a restart move no row.
LEMMA ModeNextRight ==
  ASSUME ModeNext \/ Restart
  PROVE  StepRight
<1>1. location' = location /\ queuePos' = queuePos
  BY DEF ModeNext, start_run_mode, stop_run_mode, CheckReliabilityTest,
         CommitReliabilityTest, EndReliabilityTest, Restart, rowVars
<1>. QED
  BY <1>1 DEF StepRight, MovedRightly, QueueEditRight, Queued

\* A command moves no row; a recovery moves the row of the motion it ends.
LEMMA MotionNextRight ==
  ASSUME BoardInv, MotionNext
  PROVE  StepRight
<1>0. TypeOK
  BY BoardInvParts
<1>1. ASSUME NEW p \in Pallets,
             \/ StartPick(p) \/ start_automatic_put_away(p)
             \/ \E n : StartPut(p, n)
             \/ \E automated : StartLoad(p, automated)
             \/ \E n, automated : StartUnload(p, n, automated)
      PROVE  StepRight
  <2>1. queuePos' = queuePos /\ location' = location
    BY <1>1 DEF StartPick, start_automatic_put_away, StartPut, StartLoad, StartUnload
  <2>. QED
    BY <2>1 DEF StepRight, MovedRightly, QueueEditRight, Queued
<1>2. ASSUME NEW resolution, recover_pallet_motion(resolution)
      PROVE  StepRight
  <2>1. \E place, slot, ret : Place(motion.pallet, place, slot, ret)
    BY <1>2 DEF recover_pallet_motion
  <2>2. \A q \in Pallets \ {motion.pallet} : location'[q] = location[q]
    BY <1>0, <2>1, OthersStay
  <2>3. MotionLocked /\ motion' = NoMotion /\ queuePos' = queuePos
    BY <1>2 DEF recover_pallet_motion, MotionLocked
  <2>. QED
    BY <2>2, <2>3 DEF StepRight, MovedRightly, QueueEditRight, Queued
<1>. QED
  BY <1>1, <1>2 DEF MotionNext

\* The thread of a movement moves the row of its pallet: when it saw it lifted,
\* and when it ends the motion.
LEMMA WorkerNextRight ==
  ASSUME BoardInv, WorkerNext
  PROVE  StepRight
<1>0. TypeOK /\ WorkerHasMotion
  BY BoardInvParts
<1>1. CASE \/ WorkerBegins \/ RobotStarts \/ RobotSettles \/ RobotFails
           \/ FinishFaults \/ FinishConflicts
  <2>1. queuePos' = queuePos /\ location' = location
    BY <1>1 DEF WorkerBegins, RobotStarts, RobotSettles, RobotFails, FinishFaults,
                FinishConflicts, rowVars
  <2>. QED
    BY <2>1 DEF StepRight, MovedRightly, QueueEditRight, Queued
<1>2. CASE LiftObserved
  <2>1. /\ MotionLocked /\ motion.op = "pick" /\ queuePos' = queuePos
        /\ \/ location' = location
           \/ Place(motion.pallet, "robot_held", NoSlot, motion.source)
    BY <1>2 DEF LiftObserved, MotionLocked, placeVars
  <2>2. \A q \in Pallets \ {motion.pallet} : location'[q] = location[q]
    BY <1>0, <2>1, OthersStay
  <2>3. \A q \in Pallets : q = motion.pallet =>
          location'[q] = location[q] \/ location'[q] = "robot_held"
    BY <1>0, <2>1 DEF Place, TypeOK
  <2>. QED
    BY <2>1, <2>2, <2>3 DEF StepRight, MovedRightly, QueueEditRight, Queued
<1>3. CASE FinishSucceeds
  <2>1. /\ MotionLocked /\ motion' = NoMotion /\ ~MotionLocked'
        /\ Place(motion.pallet, ResultPlace, motion.dest, ResultReturn)
    BY <1>0, <1>3 DEF FinishSucceeds, WorkerHasMotion, Active, MotionLocked, NoMotion
  <2>2. \A q \in Pallets \ {motion.pallet} : location'[q] = location[q]
    BY <1>0, <2>1, OthersStay
  <2>. QED
    BY <2>1, <2>2 DEF StepRight, MovedRightly, QueueEditRight
<1>. QED
  BY <1>1, <1>2, <1>3 DEF WorkerNext

\* Every step moves rows for a reason.
LEMMA EveryStepRight ==
  ASSUME BoardInv, [Next]_vars
  PROVE  StepRight
<1>1. CASE Next
  BY <1>1, BoardNextRight, QueueNextRight, ModeNextRight, MotionNextRight,
     WorkerNextRight DEF Next
<1>2. CASE UNCHANGED vars
  BY <1>2 DEF vars, rowVars, StepRight, MovedRightly, QueueEditRight, Queued
<1>. QED
  BY <1>1, <1>2

\* No board edit moves the pallet of a locked movement or changes whether it is
\* queued: only what the worker observes, what the operator confirms and the debug
\* menu's signal do.
THEOREM LockedPalletStays == Spec => LockedPalletMovesByMotionOnly
<1>1. BoardInv /\ [Next]_vars =>
        (MotionLocked =>
           /\ location'[motion.pallet] # location[motion.pallet] =>
                \/ motion' = NoMotion
                \/ motion.op = "pick" /\ location'[motion.pallet] = "robot_held"
                \/ simulate_signal(motion.pallet)
           /\ MotionLocked' => (motion.pallet \in Queued <=> motion.pallet \in Queued'))
  <2>. SUFFICES ASSUME BoardInv, StepRight, MotionLocked
                PROVE  /\ location'[motion.pallet] # location[motion.pallet] =>
                            \/ motion' = NoMotion
                            \/ motion.op = "pick" /\ location'[motion.pallet] = "robot_held"
                            \/ simulate_signal(motion.pallet)
                       /\ MotionLocked' =>
                            (motion.pallet \in Queued <=> motion.pallet \in Queued')
    BY EveryStepRight
  <2>1. motion.pallet \in Pallets
    BY BoardInvParts, LockedRow
  <2>2. MovedRightly(motion.pallet)
    BY <2>1 DEF StepRight
  <2>. QED
    BY <2>2 DEF StepRight, MovedRightly, QueueEditRight
<1>. QED
  BY <1>1, BoardInvariant, PTL DEF Spec, LockedPalletMovesByMotionOnly

\* While Run Mode stays on, the pallet in the mill leaves it by a robot movement of
\* its own or by the debug menu's signal, whatever the board's editors do.
THEOREM MillPalletLeavesByRobot == Spec => RunModeKeepsMillPallet
<1>1. BoardInv /\ [Next]_vars =>
        \A p \in Pallets :
          runMode /\ runMode' /\ location[p] = "machine" /\ location'[p] # "machine"
            => \/ MotionLocked /\ motion.pallet = p
               \/ simulate_signal(p)
  <2>. SUFFICES ASSUME StepRight, NEW p \in Pallets, runMode,
                       location[p] = "machine", location'[p] # "machine"
                PROVE  \/ MotionLocked /\ motion.pallet = p
                       \/ simulate_signal(p)
    BY EveryStepRight
  <2>1. MovedRightly(p)
    BY DEF StepRight
  <2>. QED
    BY <2>1 DEF MovedRightly
<1>. QED
  BY <1>1, BoardInvariant, PTL DEF Spec, RunModeKeepsMillPallet
=============================================================================
