--------------------------- MODULE RunModeProofs ---------------------------
(***************************************************************************)
(* Theorems about RunMode, for every set of pallets and of threads and for *)
(* every bound: type correctness, one coordinator per run, and what a      *)
(* thread, the robot and the mill do together.  The invariant RunInv is    *)
(* kept part by part; each part uses the ones before it.                   *)
(***************************************************************************)
EXTENDS RunMode, FiniteSetTheorems, SequenceTheorems, TLAPS

-----------------------------------------------------------------------------
(* The queue.                                                              *)

\* Taking a pallet out of the queue keeps the others, each once.
LEMMA WithoutTyped ==
  ASSUME NEW q \in Seq(Pallets), IsInjective(q), NEW p
  PROVE  Without(q, p) \in Seq(Pallets) /\ IsInjective(Without(q, p)) /\ p \notin ToSet(Without(q, p))
<1>1. CASE p \notin ToSet(q)
  BY <1>1 DEF Without
<1>2. CASE p \in ToSet(q)
  <2>. DEFINE k == CHOOSE i \in DOMAIN q : q[i] = p
              a == SubSeq(q, 1, k - 1)
              b == SubSeq(q, k + 1, Len(q))
              r == a \o b
  <2>1. k \in 1..Len(q) /\ q[k] = p
    BY <1>2 DEF ToSet
  <2>2. Without(q, p) = r
    BY <1>2 DEF Without, RemoveAt
  <2>. HIDE DEF k
  <2>3. a \in Seq(Pallets) /\ Len(a) = k - 1 /\ \A i \in 1..(k - 1) : a[i] = q[i]
    BY <2>1, SubSeqProperties
  <2>4. b \in Seq(Pallets) /\ Len(b) = Len(q) - k /\ \A i \in 1..(Len(q) - k) : b[i] = q[k + i]
    BY <2>1, SubSeqProperties
  <2>. HIDE DEF a, b
  <2>5. r \in Seq(Pallets) /\ Len(r) = Len(q) - 1
    BY <2>1, <2>3, <2>4, ConcatProperties
  <2>6. \A i \in 1..Len(r) : r[i] = IF i < k THEN q[i] ELSE q[i + 1]
    BY <2>1, <2>3, <2>4, <2>5, ConcatProperties
  <2>. HIDE DEF r
  <2>7. \A i, j \in DOMAIN q : q[i] = q[j] => i = j
    BY DEF IsInjective
  <2>. DEFINE at(i) == IF i < k THEN i ELSE i + 1
  <2>8. \A i \in 1..Len(r) : at(i) \in 1..Len(q) /\ at(i) # k /\ r[i] = q[at(i)]
    BY <2>1, <2>5, <2>6
  <2>9. \A i, j \in 1..Len(r) : at(i) = at(j) => i = j
    BY <2>1, <2>5
  <2>. HIDE DEF at
  <2>10. DOMAIN q = 1..Len(q)
    OBVIOUS
  <2>11. \A i, j \in 1..Len(r) : r[i] = r[j] => i = j
    BY <2>7, <2>8, <2>9, <2>10
  <2>12. \A i \in 1..Len(r) : r[i] # p
    BY <2>1, <2>7, <2>8, <2>10
  <2>. QED
    BY <2>2, <2>5, <2>11, <2>12 DEF IsInjective, ToSet
<1>. QED
  BY <1>1, <1>2

\* Putting a pallet into a queue that does not hold it.
LEMMA InsertTyped ==
  ASSUME NEW q \in Seq(Pallets), IsInjective(q), NEW p \in Pallets, p \notin ToSet(q),
         NEW k \in 1..(Len(q) + 1)
  PROVE  InsertAt(q, k, p) \in Seq(Pallets) /\ IsInjective(InsertAt(q, k, p))
<1>. DEFINE a == SubSeq(q, 1, k - 1)
            b == SubSeq(q, k, Len(q))
            o == <<p>>
            m == a \o o
            r == m \o b
<1>1. a \in Seq(Pallets) /\ Len(a) = k - 1 /\ \A i \in 1..(k - 1) : a[i] = q[i]
  BY SubSeqProperties
<1>2. b \in Seq(Pallets) /\ Len(b) = Len(q) - k + 1 /\ \A i \in 1..(Len(q) - k + 1) : b[i] = q[k + i - 1]
  BY SubSeqProperties
<1>3. InsertAt(q, k, p) = r
  BY DEF InsertAt
<1>4. o \in Seq(Pallets) /\ Len(o) = 1 /\ o[1] = p
  OBVIOUS
<1>5. k \in Nat /\ k >= 1 /\ k <= Len(q) + 1 /\ Len(q) \in Nat
  OBVIOUS
<1>. HIDE DEF a, b, o
<1>6. m \in Seq(Pallets) /\ Len(m) = k
  <2>1. m \in Seq(Pallets) /\ Len(m) = Len(a) + Len(o)
    BY <1>1, <1>4, ConcatProperties
  <2>. HIDE DEF m
  <2>. QED
    BY <1>1, <1>4, <1>5, <2>1
<1>7. \A i \in 1..k : m[i] = IF i = k THEN p ELSE q[i]
  <2>1. \A i \in 1..(Len(a) + Len(o)) : m[i] = IF i <= Len(a) THEN a[i] ELSE o[i - Len(a)]
    BY <1>1, <1>4, ConcatProperties
  <2>. HIDE DEF m
  <2>. QED
    BY <1>1, <1>4, <1>5, <2>1
<1>. HIDE DEF m
<1>8. r \in Seq(Pallets) /\ Len(r) = Len(q) + 1
  <2>1. r \in Seq(Pallets) /\ Len(r) = Len(m) + Len(b)
    BY <1>2, <1>6, ConcatProperties
  <2>. HIDE DEF r
  <2>. QED
    BY <1>2, <1>5, <1>6, <2>1
<1>9. \A i \in 1..Len(r) : r[i] = IF i < k THEN q[i] ELSE IF i = k THEN p ELSE q[i - 1]
  <2>1. \A i \in 1..(Len(m) + Len(b)) : r[i] = IF i <= Len(m) THEN m[i] ELSE b[i - Len(m)]
    BY <1>2, <1>6, ConcatProperties
  <2>. HIDE DEF r
  <2>2. \A i \in 1..k : r[i] = m[i]
    BY <1>2, <1>5, <1>6, <2>1
  <2>3. \A i \in (k + 1)..Len(r) : r[i] = b[i - k] /\ i - k \in 1..(Len(q) - k + 1)
    BY <1>2, <1>5, <1>6, <1>8, <2>1
  <2>4. \A i \in (k + 1)..Len(r) : b[i - k] = q[k + (i - k) - 1] /\ k + (i - k) - 1 = i - 1
    BY <1>2, <1>5, <1>8, <2>3
  <2>5. \A i \in (k + 1)..Len(r) : r[i] = q[i - 1]
    BY <2>3, <2>4
  <2>. QED
    BY <1>5, <1>7, <1>8, <2>2, <2>5
<1>. HIDE DEF r
<1>10. \A i, j \in 1..Len(q) : q[i] = q[j] => i = j
  BY DEF IsInjective
<1>11. \A i \in 1..Len(q) : q[i] # p
  BY DEF ToSet
<1>12. \A i, j \in 1..Len(r) : r[i] = r[j] => i = j
  <2>. SUFFICES ASSUME NEW i \in 1..Len(r), NEW j \in 1..Len(r), r[i] = r[j]
                PROVE  i = j
    OBVIOUS
  <2>. DEFINE old(n) == IF n < k THEN n ELSE n - 1
  <2>1. \A n \in 1..Len(r) : n # k => old(n) \in 1..Len(q) /\ r[n] = q[old(n)]
    BY <1>5, <1>8, <1>9
  <2>2. r[k] = p /\ k \in 1..Len(r)
    BY <1>5, <1>8, <1>9
  <2>3. i # k /\ j # k => old(i) = old(j)
    BY <1>10, <2>1
  <2>4. i = k <=> j = k
    BY <1>11, <2>1, <2>2
  <2>. QED
    BY <1>5, <1>8, <2>3, <2>4
<1>. QED
  BY <1>3, <1>8, <1>12 DEF IsInjective
-----------------------------------------------------------------------------
(* Types.                                                                  *)

\* The records the actions write.
LEMMA RecordsTyped ==
  /\ Off \in Coordinators /\ NoMotion \in Motions /\ Off.pc = "off"
  /\ 0 \in 0..RetryLimit /\ RetryLimit \in Nat /\ MaxToken \in Nat
  /\ \A state : Shown(state) \in States
  /\ \A act \in Legs \cup Retries : After(act) \in Pcs
BY RunModeAssumption DEF Off, Coordinators, NoMotion, Motions, Pcs, Legs, Retries, Jobs, LoadedActions,
   Shown, States, Read, After

\* The edits of the settings row.
LEMMA RowTyped ==
  ASSUME NEW r \in RunRow
  PROVE  /\ NoPrompt(r) \in RunRow /\ Stopped(r) \in RunRow
         /\ \A state \in States : [r EXCEPT !.state = state] \in RunRow
BY DEF RunRow, NoPrompt, Stopped, States, Read, LoadedActions
\* What a session shows.
LEMMA ShowsTyped ==
  ASSUME RunTyped, NEW state, Shows(state)
  PROVE  run' \in RunRow
BY RecordsTyped, RowTyped DEF Shows, RunTyped

\* Names of the program points, of the legs and of the jobs.
LEMMA NamesTyped ==
  /\ {"off", "prepare", "loaded", "pick", "ask", "wait", "position", "machine", "cnc", "send",
      "monitor", "pause", "transfer", "motion", "finish", "ending"} \subseteq Pcs
  /\ {"loading", "machining", "unloading"} \subseteq Legs
  /\ {"queue", "recovery", "retry_robot_only"} \subseteq Jobs /\ LoadedActions \subseteq Jobs
  /\ {"retry_cnc_program", "retry_cnc_preflight", "retry_robot_transfer"} \subseteq Retries
BY DEF Pcs, Legs, Jobs, Retries

\* A thread's step rewrites its own record only.
Stays(c) == \A d \in Threads \ {c} : co'[d] = co[d]
\* A record in place of one thread's keeps the function of the threads typed.
LEMMA BecomesTyped ==
  ASSUME co \in [Threads -> Coordinators], NEW c \in Threads, NEW r \in Coordinators, Becomes(c, r)
  PROVE  co' \in [Threads -> Coordinators] /\ co'[c] = r /\ Stays(c)
BY DEF Becomes, Stays

\* The same without the types.
LEMMA BecomesRecord ==
  ASSUME RunTyped, NEW c \in Threads, NEW r, Becomes(c, r)
  PROVE  co'[c] = r /\ Stays(c)
BY DEF Becomes, Stays, RunTyped

\* The common edits of a thread's record.
LEMMA ThreadTyped ==
  ASSUME RunTyped, NEW c \in Threads
  PROVE  /\ co[c] \in Coordinators
         /\ \A to \in Pcs : [co[c] EXCEPT !.pc = to, !.act = "none"] \in Coordinators
         /\ \A act \in Legs \cup Retries :
              [co[c] EXCEPT !.pc = "ask", !.act = act, !.cmd = "none"] \in Coordinators
         /\ [Off EXCEPT !.pc = "ending", !.token = co[c].token] \in Coordinators
         /\ MayRetry(c) => [co[c] EXCEPT !.tries = @ + 1] \in Coordinators
<1>1. co[c] \in Coordinators
  BY DEF RunTyped
<1>2. \A to \in Pcs : [co[c] EXCEPT !.pc = to, !.act = "none"] \in Coordinators
  BY <1>1 DEF Coordinators
<1>3. \A act \in Legs \cup Retries :
        [co[c] EXCEPT !.pc = "ask", !.act = act, !.cmd = "none"] \in Coordinators
  BY <1>1 DEF Coordinators, Pcs
<1>4. [Off EXCEPT !.pc = "ending", !.token = co[c].token] \in Coordinators
  BY <1>1, RecordsTyped DEF Coordinators, Pcs
<1>5. MayRetry(c) => [co[c] EXCEPT !.tries = @ + 1] \in Coordinators
  <2>1. MayRetry(c) => co[c].tries + 1 \in 0..RetryLimit
    BY <1>1, RecordsTyped DEF Coordinators, MayRetry
  <2>. QED
    BY <1>1, <2>1 DEF Coordinators
<1>. QED
  BY <1>1, <1>2, <1>3, <1>4, <1>5

\* A thread that goes on, asks, ends or fails.
LEMMA MovesTyped ==
  ASSUME RunTyped, NEW c \in Threads
  PROVE  /\ \A to \in Pcs : Goes(c, to) => co' \in [Threads -> Coordinators]
         /\ Ends(c) => co' \in [Threads -> Coordinators]
         /\ \A act \in Legs \cup Retries : Asks(c, act) => co' \in [Threads -> Coordinators]
         /\ Fails(c) => co' \in [Threads -> Coordinators]
         /\ MayRetry(c) /\ Becomes(c, [co[c] EXCEPT !.tries = @ + 1]) => co' \in [Threads -> Coordinators]
<1>1. co \in [Threads -> Coordinators]
  BY DEF RunTyped
<1>2. \A r \in Coordinators : Becomes(c, r) => co' \in [Threads -> Coordinators]
  BY <1>1, BecomesTyped
<1>. QED
  BY <1>2, ThreadTyped, RecordsTyped DEF Goes, Ends, Asks, Fails

\* What the first sessions of a cycle write is well typed.
LEMMA PrepareTypes ==
  ASSUME RunTyped, NEW c \in Threads,
         GivesUp(c) \/ Prepare(c) \/ HandleLoaded(c) \/ Pick(c) \/ ThreadConflicts(c)
  PROVE  RunTyped'
<1>. USE DEF board, cell, seen
<1>1. CASE GivesUp(c) \/ ThreadConflicts(c)
  BY <1>1, MovesTyped DEF GivesUp, ThreadConflicts, RunTyped
<1>2. CASE Prepare(c)
  <2>1. run' \in RunRow
    BY <1>2, ShowsTyped DEF Prepare, RunTyped
  <2>2. co' \in [Threads -> Coordinators]
    BY <1>2, MovesTyped DEF Pcs, Prepare
  <2>. QED
    BY <1>2, <2>1, <2>2 DEF Prepare, RunTyped
<1>3. CASE HandleLoaded(c)
  <2>1. CASE Goes(c, "pick")
    BY <1>3, <2>1, MovesTyped DEF Pcs, HandleLoaded, RunTyped
  <2>2. CASE ~Goes(c, "pick")
    <3>1. PICK p \in InMill, leg \in {"machining", "unloading"} :
            /\ run.loaded # "none"
            /\ Becomes(c, [co[c] EXCEPT !.pc = "ask", !.leg = leg, !.act = leg,
                                        !.job = run.loaded, !.pallet = p])
      BY <1>3, <2>2 DEF HandleLoaded
    <3>2. [co[c] EXCEPT !.pc = "ask", !.leg = leg, !.act = leg, !.job = run.loaded,
                        !.pallet = p] \in Coordinators
      <4>1. run.loaded \in Jobs /\ p \in Pallets /\ leg \in Legs
        BY <3>1 DEF RunTyped, RunRow, Jobs, Legs, InMill
      <4>. QED
        BY <4>1, ThreadTyped, NamesTyped DEF Coordinators
    <3>. QED
      BY <1>3, <3>1, <3>2, BecomesTyped DEF HandleLoaded, RunTyped
  <2>. QED
    BY <2>1, <2>2
<1>4. CASE Pick(c)
  <2>1. run' \in RunRow
    BY <1>4, ShowsTyped DEF Pick, RunTyped
  <2>2. co' \in [Threads -> Coordinators]
    <3>1. CASE Ends(c) \/ Fails(c)
      BY <3>1, MovesTyped
    <3>2. CASE ~Ends(c) /\ ~Fails(c)
      <4>1. Head(queue) \in Pallets
        BY <1>4, <3>2 DEF Pick, RunTyped
      <4>2. [co[c] EXCEPT !.pc = "ask", !.leg = "loading", !.act = "loading",
                          !.job = "queue", !.pallet = Head(queue)] \in Coordinators
        BY <4>1, ThreadTyped, NamesTyped DEF Coordinators
      <4>. QED
        BY <1>4, <3>2, <4>2, BecomesTyped DEF Pick, RunTyped
    <3>. QED
      BY <3>1, <3>2
  <2>. QED
    BY <1>4, <2>1, <2>2 DEF Pick, RunTyped
<1>. QED
  BY <1>1, <1>2, <1>3, <1>4
\* ... of a mill program.
LEMMA MachineTypes ==
  ASSUME RunTyped, LegsOK, NEW c \in Threads,
         Ask(c) \/ Granted(c) \/ Position(c) \/ Machine(c) \/ CheckMill(c) \/ Send(c) \/ Monitor(c) \/ PauseWait(c)
  PROVE  RunTyped'
<1>. USE DEF board, cell, seen
<1>1. CASE Ask(c)
  <2>1. [run EXCEPT !.state = "working", !.pending = co[c].act, !.asker = c, !.granted = FALSE] \in RunRow
    BY <1>1 DEF Ask, LegsOK, LegAt, RunTyped, RunRow, Coordinators, States
  <2>2. run' \in RunRow
    BY <1>1, <2>1, ShowsTyped DEF Ask
  <2>3. co[c].act \in Legs \cup Retries
    BY <1>1 DEF Ask, LegsOK, LegAt, RunTyped, Coordinators
  <2>4. co' \in [Threads -> Coordinators]
    BY <1>1, <2>3, MovesTyped, NamesTyped, RecordsTyped DEF Ask
  <2>. QED
    BY <1>1, <2>2, <2>4 DEF Ask, RunTyped
<1>2. CASE Granted(c)
  <2>1. run.pending \in Legs \cup Retries
    BY <1>2 DEF Granted, LegsOK, LegAt, Prompted, RunTyped, RunRow
  <2>2. run' \in RunRow
    BY <1>2, RowTyped, RecordsTyped DEF Granted, RunTyped
  <2>3. co' \in [Threads -> Coordinators]
    BY <1>2, <2>1, MovesTyped, RecordsTyped DEF Granted
  <2>. QED
    BY <1>2, <2>2, <2>3 DEF Granted, RunTyped
<1>3. [co[c] EXCEPT !.pc = "cnc", !.tries = 0] \in Coordinators
  BY ThreadTyped, NamesTyped, RecordsTyped DEF Coordinators
<1>4. CASE Position(c)
  BY <1>3, <1>4, ShowsTyped, BecomesTyped DEF Position, RunTyped
<1>5. CASE Machine(c)
  <2>1. co' \in [Threads -> Coordinators]
    BY <1>3, <1>5, MovesTyped, BecomesTyped DEF Machine, RunTyped
  <2>. QED
    BY <1>5, <2>1 DEF Machine, RunTyped
<1>6. CASE CheckMill(c)
  <2>1. co' \in [Threads -> Coordinators]
    BY <1>6, MovesTyped, NamesTyped DEF CheckMill
  <2>2. run' \in RunRow
    BY <1>6, ShowsTyped DEF CheckMill, RunTyped
  <2>. QED
    BY <1>6, <2>1, <2>2 DEF CheckMill, RunTyped
<1>7. CASE Send(c)
  <2>1. PICK starts \in BOOLEAN, next \in {"monitor", "ask", "ending"} :
          /\ IF next = "ending" THEN Fails(c)
             ELSE Becomes(c, [co[c] EXCEPT !.pc = next,
                      !.act = IF next = "ask" THEN "retry_cnc_program" ELSE "none",
                      !.cmd = IF next = "monitor" THEN "running" ELSE "none",
                      !.late = IF starts /\ ~(run.enabled /\ run.token = co[c].token) THEN @ + 1 ELSE @])
          /\ IF starts
             THEN /\ mill' = [program |-> IF co[c].leg = "machining" THEN co[c].pallet ELSE "position",
                              late |-> ~(run.enabled /\ run.token = co[c].token)]
                  /\ begun' = IF co[c].leg = "machining" /\ run.enabled /\ run.token = co[c].token
                              THEN [begun EXCEPT ![co[c].pallet] = @ + 1] ELSE begun
             ELSE UNCHANGED <<mill, begun>>
    BY <1>7 DEF Send
  <2>2. [co[c] EXCEPT !.pc = next,
                      !.act = IF next = "ask" THEN "retry_cnc_program" ELSE "none",
                      !.cmd = IF next = "monitor" THEN "running" ELSE "none",
                      !.late = IF starts /\ ~(run.enabled /\ run.token = co[c].token) THEN @ + 1 ELSE @]
          \in Coordinators
    <3>1. co[c] \in Coordinators
      BY DEF RunTyped
    <3>2. \A to \in Pcs, act \in Retries \cup {"none"}, cmd \in {"none", "running"}, late \in Nat :
            [co[c] EXCEPT !.pc = to, !.act = act, !.cmd = cmd, !.late = late] \in Coordinators
      BY <3>1 DEF Coordinators
    <3>3. co[c].late \in Nat /\ co[c].late + 1 \in Nat
      BY <3>1 DEF Coordinators
    <3>. QED
      BY <3>2, <3>3, NamesTyped
  <2>3. co' \in [Threads -> Coordinators]
    BY <2>1, <2>2, MovesTyped, BecomesTyped DEF RunTyped
  <2>4. co[c].pallet \in Pallets
    BY <1>7 DEF Send, LegsOK, LegAt, Works
  <2>5. mill' \in [program : Pallets \cup {"position", "debug", "none"}, late : BOOLEAN]
    <3>1. \A program \in Pallets \cup {"position"}, late \in BOOLEAN :
            [program |-> program, late |-> late] \in [program : Pallets \cup {"position", "debug", "none"}, late : BOOLEAN]
      OBVIOUS
    <3>2. (~(run.enabled /\ run.token = co[c].token)) \in BOOLEAN
      OBVIOUS
    <3>3. (IF co[c].leg = "machining" THEN co[c].pallet ELSE "position") \in Pallets \cup {"position"}
      BY <2>4
    <3>4. [program |-> IF co[c].leg = "machining" THEN co[c].pallet ELSE "position",
           late |-> ~(run.enabled /\ run.token = co[c].token)]
            \in [program : Pallets \cup {"position", "debug", "none"}, late : BOOLEAN]
      BY <3>1, <3>2, <3>3, Zenon
    <3>. QED
      BY <2>1, <3>4 DEF RunTyped
  <2>6. begun' \in [Pallets -> Nat]
    BY <2>1, <2>4 DEF RunTyped
  <2>. QED
    BY <1>7, <2>3, <2>5, <2>6 DEF Send, RunTyped
<1>8. CASE Monitor(c)
  <2>1. /\ [co[c] EXCEPT !.pc = "transfer", !.tries = 0, !.cmd = "none"] \in Coordinators
        /\ [co[c] EXCEPT !.leg = "unloading", !.cmd = "none",
                         !.pc = IF Recovering(c) THEN "position" ELSE "pause"] \in Coordinators
    <3>1. \A to \in Pcs : [co[c] EXCEPT !.leg = "unloading", !.cmd = "none", !.pc = to] \in Coordinators
      BY ThreadTyped, NamesTyped DEF Coordinators
    <3>2. [co[c] EXCEPT !.pc = "transfer", !.tries = 0, !.cmd = "none"] \in Coordinators
      BY ThreadTyped, NamesTyped, RecordsTyped DEF Coordinators
    <3>. QED
      BY <3>1, <3>2, NamesTyped
  <2>2. AfterCycle(c) => co' \in [Threads -> Coordinators]
    BY <2>1, BecomesTyped DEF AfterCycle, RunTyped
  <2>3. co' \in [Threads -> Coordinators]
    <3>1. OnFault(c) => co' \in [Threads -> Coordinators]
      BY MovesTyped, NamesTyped DEF OnFault
    <3>. QED
      BY <1>8, <2>2, <3>1, MovesTyped DEF Monitor, RunTyped
  <2>4. run' \in RunRow
    BY <1>8, ShowsTyped DEF Monitor, RunTyped
  <2>. QED
    BY <1>8, <2>3, <2>4 DEF Monitor, RunTyped
<1>9. CASE PauseWait(c)
  BY <1>9, MovesTyped, NamesTyped DEF PauseWait, RunTyped
<1>. QED
  BY <1>1, <1>2, <1>4, <1>5, <1>6, <1>7, <1>8, <1>9

\* ... of a robot transfer and of the end of a run.
LEMMA TransferTypes ==
  ASSUME RunTyped, LegsOK, NEW c \in Threads,
         Transfer(c) \/ MotionDone(c) \/ MotionFaults(c) \/ Finish(c) \/ Ending(c)
  PROVE  RunTyped'
<1>. USE DEF board, cell, seen
<1>1. CASE Transfer(c)
  <2>1. co' \in [Threads -> Coordinators]
    BY <1>1, MovesTyped, NamesTyped DEF Transfer
  <2>2. run' \in RunRow
    BY <1>1, ShowsTyped DEF Transfer
  <2>3. motion' \in Motions
    BY <1>1 DEF Transfer, RunTyped, Motions, Coordinators
  <2>. QED
    BY <1>1, <2>1, <2>2, <2>3 DEF Transfer, RunTyped
<1>2. CASE MotionDone(c)
  <2>1. /\ [co[c] EXCEPT !.pc = "ask", !.leg = "machining", !.act = "machining"] \in Coordinators
        /\ [co[c] EXCEPT !.pc = "finish", !.earned = motion.pallet \in machined] \in Coordinators
    <3>1. \A earned \in BOOLEAN : [co[c] EXCEPT !.pc = "finish", !.earned = earned] \in Coordinators
      BY ThreadTyped, NamesTyped DEF Coordinators
    <3>2. [co[c] EXCEPT !.pc = "ask", !.leg = "machining", !.act = "machining"] \in Coordinators
      BY ThreadTyped, NamesTyped DEF Coordinators
    <3>3. (motion.pallet \in machined) \in BOOLEAN
      OBVIOUS
    <3>. QED
      BY <3>1, <3>2, <3>3
  <2>2. co' \in [Threads -> Coordinators]
    BY <1>2, <2>1, BecomesTyped DEF MotionDone, RunTyped
  <2>3. queue' \in Seq(Pallets) /\ IsInjective(queue')
    BY <1>2, WithoutTyped DEF MotionDone, RunTyped
  <2>4. loc' \in [Pallets -> Places]
    BY <1>2 DEF MotionDone, RunTyped, Places
  <2>5. machined' \subseteq Pallets /\ begun' \in [Pallets -> Nat]
    BY <1>2 DEF MotionDone, RunTyped, NewStay
  <2>. QED
    BY <1>2, <2>2, <2>3, <2>4, <2>5, RecordsTyped DEF MotionDone, RunTyped
<1>3. CASE MotionFaults(c)
  BY <1>3, MovesTyped DEF MotionFaults, RunTyped, Motions
<1>4. CASE Finish(c)
  <2>1. [Off EXCEPT !.token = co[c].token, !.late = co[c].late,
                    !.pc = IF Recovering(c) THEN "prepare" ELSE "pick"] \in Coordinators
    <3>1. \A to \in Pcs : [Off EXCEPT !.token = co[c].token, !.late = co[c].late, !.pc = to] \in Coordinators
      BY ThreadTyped, RecordsTyped DEF Coordinators
    <3>. QED
      BY <3>1, NamesTyped
  <2>2. co' \in [Threads -> Coordinators]
    BY <1>4, <2>1, MovesTyped, BecomesTyped DEF Finish, RunTyped
  <2>3. run' \in RunRow
    BY <1>4 DEF Finish, RunTyped, RunRow, LoadedAfter, States
  <2>4. complete' \subseteq Pallets
    BY <1>4 DEF Finish, RunTyped, LegsOK, LegAt, Works
  <2>. QED
    BY <1>4, <2>2, <2>3, <2>4 DEF Finish, RunTyped
<1>5. CASE Ending(c)
  <2>1. run' \in RunRow
    <3>1. \A r \in RunRow, state \in States :
            [r EXCEPT !.enabled = FALSE, !.state = state, !.token = 0, !.paused = FALSE, !.loaded = "none"] \in RunRow
      BY DEF RunRow
    <3>2. NoPrompt(run) \in RunRow /\ {"faulted", "complete"} \subseteq States
      BY RowTyped DEF RunTyped, States, Read
    <3>3. \A state \in {"faulted", "complete"} :
            [NoPrompt(run) EXCEPT !.enabled = FALSE, !.state = state, !.token = 0, !.paused = FALSE,
                                  !.loaded = "none"] \in RunRow
      BY <3>1, <3>2
    <3>. QED
      BY <1>5, <3>3 DEF Ending, RunTyped
  <2>. QED
    BY <1>5, <2>1, MovesTyped DEF Ending, RunTyped
<1>. QED
  BY <1>1, <1>2, <1>3, <1>4, <1>5
\* The record of a thread that the operator's handlers start.
LEMMA SpawnTyped ==
  ASSUME RunTyped, NEW start \in Coordinators, Spawn(start)
  PROVE  co' \in [Threads -> Coordinators]
BY BecomesTyped DEF Spawn, RunTyped

\* ... of the handlers that start a run.
LEMMA StartTypes ==
  ASSUME RunTyped,
         \/ \E loaded \in LoadedActions \cup {"none"}, safe \in BOOLEAN : Start(loaded, safe)
         \/ \E strategy \in Strategies : StartRecovery(strategy)
  PROVE  RunTyped'
<1>. USE DEF board, cell, seen
<1>1. tokens \in Nat /\ tokens + 1 \in Nat /\ (tokens < MaxToken => tokens + 1 \in 0..MaxToken)
  BY RecordsTyped DEF RunTyped
<1>2. ASSUME NEW loaded \in LoadedActions \cup {"none"}, NEW safe \in BOOLEAN, Start(loaded, safe)
      PROVE  RunTyped'
  <2>1. run' \in RunRow
    <3>1. \A state \in States : [NoPrompt(run) EXCEPT !.enabled = TRUE, !.token = tokens + 1,
                                   !.paused = FALSE, !.loaded = loaded, !.state = state] \in RunRow
      <4>. DEFINE r == NoPrompt(run)
      <4>1. r \in RunRow
        BY RowTyped DEF RunTyped
      <4>2. \A m \in Nat, state \in States : [r EXCEPT !.enabled = TRUE, !.token = m, !.paused = FALSE,
                                                       !.loaded = loaded, !.state = state] \in RunRow
        <5>. HIDE DEF r
        <5>. QED
          BY <4>1 DEF RunRow
      <4>. QED
        BY <1>1, <4>2
    <3>. QED
      BY <1>2, <3>1 DEF Start, States, Read
  <2>2. co' \in [Threads -> Coordinators]
    <3>1. [Off EXCEPT !.pc = "prepare", !.token = tokens + 1] \in Coordinators
      BY <1>1, RecordsTyped, NamesTyped DEF Coordinators
    <3>. QED
      BY <1>2, <3>1, SpawnTyped DEF Start, RunTyped
  <2>3. begun' \in [Pallets -> Nat]
    BY <1>2 DEF Start, RunTyped
  <2>. QED
    BY <1>1, <1>2, <2>1, <2>2, <2>3 DEF Start, RunTyped
<1>3. ASSUME NEW strategy \in Strategies, StartRecovery(strategy)
      PROVE  RunTyped'
  <2>1. run' \in RunRow
    <3>. DEFINE r == NoPrompt(run)
    <3>1. r \in RunRow
      BY RowTyped DEF RunTyped
    <3>2. [r EXCEPT !.enabled = TRUE, !.token = tokens + 1, !.state = "working"] \in RunRow
      <4>. HIDE DEF r
      <4>. QED
        BY <1>1, <3>1 DEF RunRow, States
    <3>. QED
      BY <1>3, <3>2 DEF StartRecovery
  <2>2. PICK p \in InMill :
          /\ Spawn([Off EXCEPT
              !.token = tokens + 1, !.pallet = p,
              !.job = IF strategy = "retry_robot_only" THEN strategy ELSE "recovery",
              !.leg = IF strategy = "rerun_assigned_program" THEN "machining"
                                                             ELSE "unloading",
              !.pc = CASE strategy = "retry_robot_only"       -> "transfer"
                       [] strategy = "rerun_assigned_program" -> "machine"
                       [] OTHER                               -> "position"])
          /\ begun' = IF strategy = "rerun_assigned_program" THEN [begun EXCEPT ![p] = 0] ELSE begun
    BY <1>3 DEF StartRecovery
  <2>3. [Off EXCEPT !.token = tokens + 1, !.pallet = p,
              !.job = IF strategy = "retry_robot_only" THEN strategy ELSE "recovery",
              !.leg = IF strategy = "rerun_assigned_program" THEN "machining" ELSE "unloading",
              !.pc = CASE strategy = "retry_robot_only"       -> "transfer"
                       [] strategy = "rerun_assigned_program" -> "machine"
                       [] OTHER                               -> "position"] \in Coordinators
    <3>1. \A job \in Jobs, leg \in Legs, to \in Pcs :
            [Off EXCEPT !.token = tokens + 1, !.pallet = p, !.job = job, !.leg = leg, !.pc = to] \in Coordinators
      BY <1>1, RecordsTyped DEF Coordinators, InMill
    <3>. QED
      BY <3>1, NamesTyped
  <2>4. co' \in [Threads -> Coordinators]
    BY <2>2, <2>3, SpawnTyped
  <2>5. begun' \in [Pallets -> Nat]
    BY <2>2 DEF RunTyped, InMill
  <2>. QED
    BY <1>1, <1>3, <2>1, <2>4, <2>5 DEF StartRecovery, RunTyped
<1>. QED
  BY <1>2, <1>3

\* ... of the handlers that edit the settings row.
LEMMA RowTypes ==
  ASSUME RunTyped,
         Stop \/ CancelRecovery \/ Approve \/ Decline \/ ClearStatus \/ PauseForManual \/ ResumeManual
  PROVE  RunTyped'
<1>. USE DEF board, cell, seen
<1>1. CASE Stop \/ CancelRecovery \/ Decline
  <2>1. run' \in RunRow
    <3>1. run \in RunRow /\ Stopped(run) \in RunRow
      BY RowTyped DEF RunTyped
    <3>2. [Stopped(run) EXCEPT !.loaded = run.loaded] \in RunRow
      BY <3>1 DEF RunRow
    <3>. QED
      BY <1>1, <3>1, <3>2 DEF Stop, CancelRecovery, Decline
  <2>. QED
    BY <1>1, <2>1 DEF Stop, CancelRecovery, Decline, RunTyped
<1>2. CASE Approve
  <2>1. [run EXCEPT !.granted = TRUE, !.state = "working"] \in RunRow
    BY DEF RunTyped, RunRow, States
  <2>2. begun' \in [Pallets -> Nat]
    BY <1>2 DEF Approve, RunTyped
  <2>. QED
    BY <1>2, <2>1, <2>2 DEF Approve, RunTyped
<1>3. CASE ClearStatus
  BY <1>3, RowTyped DEF ClearStatus, RunTyped, States, Read
<1>4. CASE PauseForManual \/ ResumeManual
  <2>1. \A b \in BOOLEAN, state \in States : [run EXCEPT !.paused = b, !.state = state] \in RunRow
    BY DEF RunTyped, RunRow
  <2>2. {"manual_robot_pause", "working"} \subseteq States
    BY DEF States, Read
  <2>3. run' \in RunRow
    BY <1>4, <2>1, <2>2 DEF PauseForManual, ResumeManual
  <2>. QED
    BY <1>4, <2>3 DEF PauseForManual, ResumeManual, RunTyped
<1>. QED
  BY <1>1, <1>2, <1>3, <1>4

\* ... of the edits of the board.
LEMMA BoardTypes ==
  ASSUME RunTyped,
         \/ \E p \in Pallets : QueuePallet(p) \/ Dequeue(p) \/ UpdatePallet(p)
         \/ \E p \in Pallets, place \in Places : Relocate(p, place)
         \/ \E place \in Places : RecoverMotion(place)
  PROVE  RunTyped'
<1>. USE DEF board, cell, seen
<1>1. ASSUME NEW q, NEW place, NEW finished, ResumeArmed(q, place, finished)
      PROVE  run' \in RunRow /\ co' \in [Threads -> Coordinators]
  <2>1. [Off EXCEPT !.pc = "prepare", !.token = run.token] \in Coordinators
    BY RecordsTyped, NamesTyped DEF Coordinators, RunTyped, RunRow
  <2>2. [run EXCEPT !.state = "working"] \in RunRow
    BY RowTyped DEF RunTyped, States
  <2>. QED
    BY <1>1, <2>1, <2>2, SpawnTyped DEF ResumeArmed, RunTyped
<1>2. ASSUME NEW p \in Pallets, NewStay(p)
      PROVE  machined' \subseteq Pallets /\ begun' \in [Pallets -> Nat]
  BY <1>2 DEF NewStay, RunTyped
<1>3. Edited => edits' \in Nat
  BY DEF Edited, RunTyped
<1>4. ASSUME NEW p \in Pallets, QueuePallet(p)
      PROVE  RunTyped'
  <2>1. PICK i \in 1..Len(queue) + 1, convert \in BOOLEAN :
          LET others == Without(queue, p)
              q2 == InsertAt(others, IF i > Len(others) THEN Len(others) + 1 ELSE i, p)
              l2 == [loc EXCEPT ![p] = "pool"]
              c2 == IF convert THEN complete \ {p} ELSE complete
          IN queue' = q2 /\ loc' = l2 /\ complete' = c2 /\ ResumeArmed(q2, l2, c2)
    BY <1>4 DEF QueuePallet
  <2>2. queue' \in Seq(Pallets) /\ IsInjective(queue')
    <3>. DEFINE others == Without(queue, p)
                k == IF i > Len(others) THEN Len(others) + 1 ELSE i
    <3>1. others \in Seq(Pallets) /\ IsInjective(others) /\ p \notin ToSet(others)
      BY WithoutTyped DEF RunTyped
    <3>2. queue' = InsertAt(others, k, p)
      BY <2>1
    <3>3. k \in 1..(Len(others) + 1)
      BY <3>1 DEF RunTyped
    <3>. HIDE DEF others, k
    <3>. QED
      BY <3>1, <3>2, <3>3, InsertTyped
  <2>3. loc' \in [Pallets -> Places] /\ complete' \subseteq Pallets
    BY <2>1 DEF RunTyped, Places
  <2>4. run' \in RunRow /\ co' \in [Threads -> Coordinators]
    BY <1>1, <2>1
  <2>5. machined' \subseteq Pallets /\ begun' \in [Pallets -> Nat]
    BY <1>2, <1>4 DEF QueuePallet, RunTyped
  <2>. QED
    BY <1>3, <1>4, <2>2, <2>3, <2>4, <2>5 DEF QueuePallet, RunTyped
<1>5. ASSUME NEW p \in Pallets, Dequeue(p)
      PROVE  RunTyped'
  BY <1>3, <1>5, WithoutTyped DEF Dequeue, RunTyped
<1>6. ASSUME NEW p \in Pallets, UpdatePallet(p)
      PROVE  RunTyped'
  <2>1. run' \in RunRow /\ co' \in [Threads -> Coordinators] /\ complete' \subseteq Pallets
    BY <1>1, <1>6 DEF UpdatePallet, RunTyped
  <2>. QED
    BY <1>3, <1>6, <2>1 DEF UpdatePallet, RunTyped
<1>7. ASSUME NEW p \in Pallets, NEW place \in Places, Relocate(p, place)
      PROVE  RunTyped'
  <2>1. queue' \in Seq(Pallets) /\ IsInjective(queue')
    BY <1>7, WithoutTyped DEF Relocate, RunTyped
  <2>. QED
    BY <1>2, <1>3, <1>7, <2>1 DEF Relocate, RunTyped
<1>8. ASSUME NEW place \in Places, RecoverMotion(place)
      PROVE  RunTyped'
  <2>1. machined' \subseteq Pallets /\ begun' \in [Pallets -> Nat]
    BY <1>8 DEF RecoverMotion, NewStay, RunTyped
  <2>2. loc' \in [Pallets -> Places]
    BY <1>8 DEF RecoverMotion, RunTyped
  <2>. QED
    BY <1>8, <2>1, <2>2, RecordsTyped DEF RecoverMotion, RunTyped
<1>. QED
  BY <1>4, <1>5, <1>6, <1>7, <1>8

\* ... of the mill and of a restart.
LEMMA MillTypes ==
  ASSUME RunTyped,
         ControlMillStop \/ DebugProgram \/ (\E normal \in BOOLEAN : MillEnds(normal)) \/ Restart
  PROVE  RunTyped'
<1>. USE DEF board, cell, seen
<1>1. IdleMill \in [program : Pallets \cup {"position", "debug", "none"}, late : BOOLEAN]
  BY DEF IdleMill
<1>2. \A end \in {"completed", "stopped"} : Observed(end) \in [Threads -> Coordinators]
  <2>1. \A r \in Coordinators, end \in {"completed", "stopped"} : [r EXCEPT !.cmd = end] \in Coordinators
    BY DEF Coordinators
  <2>2. \A c \in Threads : co[c] \in Coordinators
    BY DEF RunTyped
  <2>. QED
    BY <2>1, <2>2 DEF Observed
<1>3. CASE ControlMillStop
  BY <1>1, <1>2, <1>3, RowTyped DEF ControlMillStop, Aborts, RunTyped
<1>4. ASSUME NEW normal \in BOOLEAN, MillEnds(normal)
      PROVE  RunTyped'
  <2>1. machined' \subseteq Pallets
    BY <1>4 DEF MillEnds, RunTyped
  <2>2. co' \in [Threads -> Coordinators]
    BY <1>2, <1>4 DEF MillEnds
  <2>. QED
    BY <1>1, <1>4, <2>1, <2>2 DEF MillEnds, RunTyped
<1>5. CASE Restart
  <2>1. run' \in RunRow
    <3>1. NoPrompt(run) \in RunRow
      BY RowTyped DEF RunTyped
    <3>2. [NoPrompt(run) EXCEPT !.enabled = FALSE, !.state = "interrupted", !.token = 0,
                                !.paused = FALSE, !.loaded = "none"] \in RunRow
      BY <3>1 DEF RunRow, States, Read
    <3>. QED
      BY <1>5, <3>2 DEF Restart, RunTyped
  <2>2. motion' \in Motions
    BY <1>5 DEF Restart, RunTyped, Motions
  <2>3. co' \in [Threads -> Coordinators]
    BY <1>5, RecordsTyped DEF Restart
  <2>. QED
    BY <1>5, <2>1, <2>2, <2>3 DEF Restart, RunTyped
<1>6. CASE DebugProgram
  <2>1. \A r \in Coordinators : [r EXCEPT !.cmd = "running"] \in Coordinators
    BY DEF Coordinators
  <2>2. \A c \in Threads : co[c] \in Coordinators
    BY DEF RunTyped
  <2>3. co' \in [Threads -> Coordinators]
    BY <1>6, <2>1, <2>2 DEF DebugProgram
  <2>4. mill' \in [program : Pallets \cup {"position", "debug", "none"}, late : BOOLEAN]
    BY <1>6 DEF DebugProgram
  <2>. QED
    BY <1>6, <2>3, <2>4 DEF DebugProgram, RunTyped
<1>. QED
  BY <1>3, <1>4, <1>5, <1>6

\* Every step keeps the types.
LEMMA TypesStep == RunTyped /\ LegsOK /\ [Next]_vars => RunTyped'
<1>1. CASE Next
  BY <1>1, PrepareTypes, MachineTypes, TransferTypes, StartTypes, RowTypes, BoardTypes, MillTypes
     DEF Next, ThreadStep, Operator
<1>2. CASE UNCHANGED vars
  BY <1>2 DEF RunTyped, vars, board, cell, seen
<1>. QED
  BY <1>1, <1>2
-----------------------------------------------------------------------------
(* What the threads' records and the settings row say after each step.     *)

\* A thread goes on to another point; it gets ready to ask; it leaves the workflow.
SameThread(c) == /\ co'[c].token = co[c].token /\ co'[c].leg = co[c].leg /\ co'[c].job = co[c].job
                 /\ co'[c].pallet = co[c].pallet /\ co'[c].late = co[c].late
                 /\ co'[c].earned = co[c].earned
GoesOn(c, to) == Stays(c) /\ SameThread(c) /\ co'[c].pc = to /\ co'[c].cmd = co[c].cmd
Asked(c, action) ==
  Stays(c) /\ SameThread(c) /\ co'[c].pc = "ask" /\ co'[c].act = action /\ co'[c].cmd = "none"
Leaves(c) ==
  /\ Stays(c) /\ co'[c].pc \in {"off", "ending"} /\ co'[c].cmd = "none" /\ co'[c].late = 0
  /\ co'[c].token = IF co'[c].pc = "ending" THEN co[c].token ELSE 0
\* The edits of a thread's record that most sessions make, field by field.
LEMMA EditsFields ==
  ASSUME RunTyped, NEW c \in Threads
  PROVE  /\ \A to \in Pcs : Goes(c, to) => GoesOn(c, to)
         /\ \A act \in Legs \cup Retries : Asks(c, act) => Asked(c, act)
         /\ Ends(c) => Leaves(c) /\ co'[c].pc = "off"
         /\ Fails(c) => Leaves(c) /\ co'[c].pc = "ending"
         /\ MayRetry(c) /\ Becomes(c, [co[c] EXCEPT !.tries = @ + 1]) => GoesOn(c, co[c].pc) /\ co'[c].act = co[c].act
<1>1. co \in [Threads -> Coordinators] /\ co[c] \in Coordinators
  BY DEF RunTyped
<1>2. \A r \in Coordinators : Becomes(c, r) => co'[c] = r /\ Stays(c)
  BY <1>1, BecomesTyped
<1>3. ASSUME NEW to \in Pcs, Goes(c, to)
      PROVE  GoesOn(c, to)
  <2>1. co'[c] = [co[c] EXCEPT !.pc = to, !.act = "none"] /\ Stays(c)
    BY <1>2, <1>3, ThreadTyped DEF Goes
  <2>. QED
    BY <1>1, <2>1 DEF GoesOn, SameThread, Coordinators
<1>4. ASSUME NEW act \in Legs \cup Retries, Asks(c, act)
      PROVE  Asked(c, act)
  <2>1. co'[c] = [co[c] EXCEPT !.pc = "ask", !.act = act, !.cmd = "none"] /\ Stays(c)
    BY <1>2, <1>4, ThreadTyped DEF Asks
  <2>. QED
    BY <1>1, <2>1 DEF Asked, SameThread, Coordinators
<1>5. Ends(c) => Leaves(c) /\ co'[c].pc = "off"
  BY <1>2, RecordsTyped DEF Ends, Leaves, Off
<1>6. Fails(c) => Leaves(c) /\ co'[c].pc = "ending"
  <2>1. Fails(c) => co'[c] = [Off EXCEPT !.pc = "ending", !.token = co[c].token] /\ Stays(c)
    BY <1>2, ThreadTyped DEF Fails
  <2>. QED
    BY <2>1 DEF Leaves, Off
<1>7. MayRetry(c) /\ Becomes(c, [co[c] EXCEPT !.tries = @ + 1]) => GoesOn(c, co[c].pc) /\ co'[c].act = co[c].act
  <2>1. MayRetry(c) /\ Becomes(c, [co[c] EXCEPT !.tries = @ + 1]) =>
          co'[c] = [co[c] EXCEPT !.tries = @ + 1] /\ Stays(c)
    BY <1>2, ThreadTyped
  <2>. QED
    BY <1>1, <2>1 DEF GoesOn, SameThread, Coordinators
<1>. QED
  BY <1>3, <1>4, <1>5, <1>6, <1>7

\* The row keeps its run; it may show another state, but not that it is armed.
SamePrompt == run'.pending = run.pending /\ run'.asker = run.asker /\ run'.granted = run.granted
SameRun == run'.enabled = run.enabled /\ run'.token = run.token
NotArmed == run'.state = "idle_waiting_queue" => run.state = "idle_waiting_queue"
SameRow == SameRun /\ SamePrompt /\ run'.loaded = run.loaded /\ NotArmed
\* Showing a state changes no other column of the row.
LEMMA ShowsFields ==
  ASSUME RunTyped
  PROVE  /\ \A state : Shows(state) => SameRun /\ SamePrompt /\ run'.loaded = run.loaded
         /\ \A state : Shows(state) /\ state # "idle_waiting_queue" => SameRow
         /\ run' = run => SameRow
<1>1. run \in RunRow
  BY DEF RunTyped
<1>2. ASSUME NEW state, Shows(state)
      PROVE  /\ SameRun /\ SamePrompt /\ run'.loaded = run.loaded
             /\ state # "idle_waiting_queue" => NotArmed
  BY <1>1, <1>2 DEF Shows, SameRun, SamePrompt, NotArmed, RunRow, Shown
<1>. QED
  BY <1>2 DEF SameRow, SameRun, SamePrompt, NotArmed

\* What a thread's step leaves alone unless it is the one that works on it.
CellStays == UNCHANGED <<loc, motion, mill, machined, begun>>
\* The sessions that only move the thread: where it goes and what it has seen.
Refused(c) == Leaves(c) /\ SameRow /\ CellStays /\ tokens' = tokens
\* A thread that gives up, or whose commit conflicts, leaves.
LEMMA LeavingFields ==
  ASSUME RunTyped, NEW c \in Threads, GivesUp(c) \/ ThreadConflicts(c)
  PROVE  Refused(c)
<1>. USE DEF board, cell, seen
<1>1. run' = run /\ tokens' = tokens /\ CellStays
  BY DEF GivesUp, ThreadConflicts, CellStays
<1>. QED
  BY <1>1, EditsFields, ShowsFields DEF GivesUp, ThreadConflicts, Refused

Quiet == SameRow /\ CellStays /\ tokens' = tokens
Retried(c) == GoesOn(c, co[c].pc) /\ co'[c].act = co[c].act

\* What Prepare leaves.
LEMMA PrepareFields ==
  ASSUME RunTyped, NEW c \in Threads, Prepare(c)
  PROVE  /\ co[c].pc = "prepare" /\ TokenActive(c) /\ Quiet
         /\ GoesOn(c, "loaded") \/ Retried(c) \/ Leaves(c)
<1>. USE DEF board, cell, seen
<1>1. SameRow
  BY ShowsFields DEF Prepare
<1>2. GoesOn(c, "loaded") \/ Retried(c) \/ Leaves(c)
  BY EditsFields, NamesTyped DEF Prepare, Retried
<1>. QED
  BY <1>1, <1>2 DEF Prepare, Quiet, CellStays

\* The thread takes a pallet in hand.
Takes(c, leg, job, p) ==
  /\ Stays(c) /\ co'[c].pc = "ask" /\ co'[c].token = co[c].token
  /\ co'[c].leg = leg /\ co'[c].act = leg /\ co'[c].job = job /\ co'[c].pallet = p
  /\ co'[c].cmd = co[c].cmd /\ co'[c].late = co[c].late
\* A thread takes a pallet in hand.
LEMMA TakesFields ==
  ASSUME RunTyped, NEW c \in Threads, NEW leg \in Legs, NEW job \in Jobs, NEW p \in Pallets,
         Becomes(c, [co[c] EXCEPT !.pc = "ask", !.leg = leg, !.act = leg, !.job = job, !.pallet = p])
  PROVE  Takes(c, leg, job, p)
<1>1. co[c] \in Coordinators
  BY DEF RunTyped
<1>2. [co[c] EXCEPT !.pc = "ask", !.leg = leg, !.act = leg, !.job = job, !.pallet = p] \in Coordinators
  BY <1>1, NamesTyped DEF Coordinators
<1>3. co'[c] = [co[c] EXCEPT !.pc = "ask", !.leg = leg, !.act = leg, !.job = job, !.pallet = p] /\ Stays(c)
  BY <1>2, BecomesTyped DEF RunTyped
<1>. QED
  BY <1>1, <1>3 DEF Takes, Coordinators

\* What the start left to do with the pallet in the mill.
LoadedLeg == IF run.loaded = "run_machine_program" THEN "machining" ELSE "unloading"
\* What HandleLoaded leaves.
LEMMA HandleLoadedFields ==
  ASSUME RunTyped, NEW c \in Threads, HandleLoaded(c)
  PROVE  /\ co[c].pc = "loaded" /\ TokenActive(c) /\ Quiet
         /\ \/ GoesOn(c, "pick") /\ (run.loaded = "none" \/ InMill = {})
            \/ \E p \in InMill : run.loaded \in LoadedActions /\ Takes(c, LoadedLeg, run.loaded, p)
<1>. USE DEF board, cell, seen
<1>1. SameRow
  BY ShowsFields DEF HandleLoaded
<1>2. CASE run.loaded = "none" \/ InMill = {}
  BY <1>1, <1>2, EditsFields, NamesTyped DEF HandleLoaded, Quiet, CellStays
<1>3. CASE ~(run.loaded = "none" \/ InMill = {})
  <2>1. PICK p \in InMill :
          Becomes(c, [co[c] EXCEPT !.pc = "ask", !.leg = LoadedLeg, !.act = LoadedLeg,
                                   !.job = run.loaded, !.pallet = p])
    BY <1>3 DEF HandleLoaded, LoadedLeg
  <2>2. run.loaded \in LoadedActions /\ LoadedLeg \in Legs /\ run.loaded \in Jobs /\ p \in Pallets
    BY <1>3, NamesTyped DEF RunTyped, RunRow, LoadedLeg, InMill
  <2>. QED
    BY <1>1, <2>1, <2>2, TakesFields DEF HandleLoaded, Quiet, CellStays
<1>. QED
  BY <1>2, <1>3

\* What Pick leaves.
LEMMA PickFields ==
  ASSUME RunTyped, NEW c \in Threads, Pick(c)
  PROVE  /\ co[c].pc = "pick" /\ TokenActive(c) /\ CellStays /\ tokens' = tokens
         /\ SameRun /\ SamePrompt /\ run'.loaded = run.loaded
         /\ \/ Leaves(c) /\ co'[c].pc = "off"
            \/ NotArmed /\ (Leaves(c) \/ \E p \in Pallets : Takes(c, "loading", "queue", p))
<1>. USE DEF board, cell, seen
<1>1. SameRun /\ SamePrompt /\ run'.loaded = run.loaded
  BY ShowsFields DEF Pick, SameRow
<1>2. CASE Ends(c)
  BY <1>1, <1>2, EditsFields DEF Pick, CellStays
<1>3. CASE Fails(c)
  BY <1>1, <1>3, EditsFields, ShowsFields DEF Pick, CellStays, SameRow, NotArmed
<1>4. CASE ~Ends(c) /\ ~Fails(c)
  <2>1. /\ Shows("preparing") /\ Head(queue) \in Pallets
        /\ Becomes(c, [co[c] EXCEPT !.pc = "ask", !.leg = "loading", !.act = "loading",
                                    !.job = "queue", !.pallet = Head(queue)])
    BY <1>4 DEF Pick, RunTyped
  <2>2. Takes(c, "loading", "queue", Head(queue))
    BY <2>1, TakesFields, NamesTyped
  <2>. QED
    BY <1>1, <2>1, <2>2, ShowsFields DEF Pick, CellStays, SameRow
<1>. QED
  BY <1>2, <1>3, <1>4

\* The prompt is put up, or the action is taken at once.
LEMMA AskFields ==
  ASSUME RunTyped, LegsOK, NEW c \in Threads, Ask(c)
  PROVE  /\ co[c].pc = "ask" /\ TokenActive(c) /\ CellStays /\ tokens' = tokens
         /\ SameRun /\ run'.loaded = run.loaded /\ NotArmed
         /\ \/ /\ GoesOn(c, "wait")
               /\ run'.asker = c /\ run'.pending = co[c].act /\ run'.granted = FALSE
            \/ co[c].act \in Legs /\ GoesOn(c, After(co[c].act)) /\ SamePrompt
<1>. USE DEF board, cell, seen
<1>1. run \in RunRow /\ co[c].act \in Legs \cup Retries
  BY DEF RunTyped, Ask, LegsOK, LegAt, Coordinators
<1>2. CASE safety \/ co[c].act \in Retries
  BY <1>1, <1>2, EditsFields, NamesTyped DEF Ask, RunRow, CellStays, SameRun, NotArmed
<1>3. CASE ~(safety \/ co[c].act \in Retries)
  <2>1. Shows(co[c].act) /\ co[c].act \in Legs /\ Goes(c, After(co[c].act))
    BY <1>1, <1>3 DEF Ask
  <2>2. SameRow
    BY <2>1, ShowsFields DEF Legs
  <2>3. GoesOn(c, After(co[c].act))
    BY <2>1, EditsFields, RecordsTyped
  <2>. QED
    BY <2>1, <2>2, <2>3 DEF Ask, CellStays, SameRow
<1>. QED
  BY <1>2, <1>3

\* What Granted leaves.
LEMMA GrantedFields ==
  ASSUME RunTyped, LegsOK, NEW c \in Threads, Granted(c)
  PROVE  /\ co[c].pc = "wait" /\ TokenActive(c) /\ run.asker = c /\ run.granted
         /\ run.pending \in Legs \cup Retries /\ GoesOn(c, After(run.pending))
         /\ SameRun /\ run'.asker = NoThread /\ run'.loaded = run.loaded /\ NotArmed
         /\ CellStays /\ tokens' = tokens
<1>. USE DEF board, cell, seen
<1>1. run \in RunRow /\ run.pending \in Legs \cup Retries
  BY DEF RunTyped, Granted, LegsOK, LegAt, Prompted, RunRow
<1>2. GoesOn(c, After(run.pending))
  BY <1>1, EditsFields, RecordsTyped DEF Granted
<1>3. SameRun /\ run'.asker = NoThread /\ run'.loaded = run.loaded /\ NotArmed
  BY <1>1 DEF Granted, RunRow, SameRun, NotArmed, NoPrompt, Shown, Legs, Retries
<1>. QED
  BY <1>1, <1>2, <1>3 DEF Granted, CellStays

\* What Position leaves.
LEMMA PositionFields ==
  ASSUME RunTyped, NEW c \in Threads, Position(c)
  PROVE  co[c].pc = "position" /\ Quiet /\ GoesOn(c, "cnc")
<1>. USE DEF board, cell, seen
<1>1. co[c] \in Coordinators /\ [co[c] EXCEPT !.pc = "cnc", !.tries = 0] \in Coordinators
  BY NamesTyped, RecordsTyped DEF Coordinators, RunTyped
<1>2. co'[c] = [co[c] EXCEPT !.pc = "cnc", !.tries = 0] /\ Stays(c)
  BY <1>1, BecomesTyped DEF Position, RunTyped
<1>3. GoesOn(c, "cnc")
  BY <1>1, <1>2 DEF GoesOn, SameThread, Coordinators
<1>. QED
  BY <1>3, ShowsFields DEF Position, Quiet, CellStays

\* What Machine leaves.
LEMMA MachineFields ==
  ASSUME RunTyped, NEW c \in Threads, Machine(c)
  PROVE  /\ co[c].pc = "machine" /\ TokenActive(c) /\ Quiet
         /\ Leaves(c) \/ GoesOn(c, "cnc")
<1>. USE DEF board, cell, seen
<1>1. co[c] \in Coordinators /\ [co[c] EXCEPT !.pc = "cnc", !.tries = 0] \in Coordinators
  BY NamesTyped, RecordsTyped DEF Coordinators, RunTyped
<1>2. CASE Fails(c)
  BY <1>2, EditsFields, ShowsFields DEF Machine, Quiet, CellStays
<1>3. CASE ~Fails(c)
  <2>1. co'[c] = [co[c] EXCEPT !.pc = "cnc", !.tries = 0] /\ Stays(c)
    BY <1>1, <1>3, BecomesTyped DEF Machine, RunTyped
  <2>2. GoesOn(c, "cnc")
    BY <1>1, <2>1 DEF GoesOn, SameThread, Coordinators
  <2>. QED
    BY <2>2, ShowsFields DEF Machine, Quiet, CellStays
<1>. QED
  BY <1>2, <1>3

\* What CheckMill leaves.
LEMMA CheckMillFields ==
  ASSUME RunTyped, NEW c \in Threads, CheckMill(c)
  PROVE  /\ co[c].pc = "cnc" /\ TokenActive(c) /\ Quiet
         /\ GoesOn(c, "send") \/ Retried(c) \/ Asked(c, "retry_cnc_preflight") \/ Leaves(c)
<1>. USE DEF board, cell, seen
<1>1. SameRow
  BY ShowsFields DEF CheckMill
<1>2. GoesOn(c, "send") \/ Retried(c) \/ Asked(c, "retry_cnc_preflight") \/ Leaves(c)
  BY EditsFields, NamesTyped DEF CheckMill, Retried
<1>. QED
  BY <1>1, <1>2 DEF CheckMill, Quiet, CellStays
\* A mill program is sent, or its sending fails; it may have begun all the same.
SentRecord(c, starts, next) ==
  IF next = "ending" THEN Leaves(c)
  ELSE /\ Stays(c) /\ co'[c].pc = next
       /\ co'[c].act = IF next = "ask" THEN "retry_cnc_program" ELSE "none"
       /\ co'[c].cmd = IF next = "monitor" THEN "running" ELSE "none"
       /\ co'[c].token = co[c].token /\ co'[c].leg = co[c].leg /\ co'[c].job = co[c].job
       /\ co'[c].pallet = co[c].pallet /\ co'[c].earned = co[c].earned
       /\ co'[c].late = IF starts /\ ~TokenActive(c) THEN co[c].late + 1 ELSE co[c].late
SentMill(c, starts) ==
  IF starts
  THEN /\ mill.program = "none"
       /\ mill'.program = IF co[c].leg = "machining" THEN co[c].pallet ELSE "position"
       /\ mill'.late = ~TokenActive(c)
       /\ begun' = IF co[c].leg = "machining" /\ TokenActive(c)
                   THEN [begun EXCEPT ![co[c].pallet] = @ + 1] ELSE begun
  ELSE mill' = mill /\ begun' = begun
\* What Send leaves.
LEMMA SendFields ==
  ASSUME RunTyped, NEW c \in Threads, Send(c)
  PROVE  /\ co[c].pc = "send" /\ SameRow /\ run' = run /\ tokens' = tokens
         /\ UNCHANGED <<loc, motion, machined>>
         /\ \E starts \in BOOLEAN, next \in {"monitor", "ask", "ending"} :
              (next = "monitor" => starts) /\ SentRecord(c, starts, next) /\ SentMill(c, starts)
<1>. USE DEF board
<1>1. PICK starts \in BOOLEAN, next \in {"monitor", "ask", "ending"} :
        /\ Launches(starts, next = "monitor")
        /\ IF next = "ending" THEN Fails(c)
           ELSE Becomes(c, [co[c] EXCEPT !.pc = next,
                  !.act = IF next = "ask" THEN "retry_cnc_program" ELSE "none",
                  !.cmd = IF next = "monitor" THEN "running" ELSE "none",
                  !.late = IF starts /\ ~TokenActive(c) THEN @ + 1 ELSE @])
        /\ IF starts
           THEN /\ mill' = [program |-> IF co[c].leg = "machining" THEN co[c].pallet ELSE "position",
                            late |-> ~TokenActive(c)]
                /\ begun' = IF co[c].leg = "machining" /\ TokenActive(c)
                            THEN [begun EXCEPT ![co[c].pallet] = @ + 1] ELSE begun
           ELSE UNCHANGED <<mill, begun>>
  BY Zenon DEF Send, TokenActive
<1>2. SentRecord(c, starts, next)
  <2>1. CASE next = "ending"
    BY <1>1, <2>1, EditsFields DEF SentRecord
  <2>2. CASE next # "ending"
    <3>1. co[c] \in Coordinators /\ co \in [Threads -> Coordinators]
      BY DEF RunTyped
    <3>2. co' = [co EXCEPT ![c] = [co[c] EXCEPT !.pc = next,
                  !.act = IF next = "ask" THEN "retry_cnc_program" ELSE "none",
                  !.cmd = IF next = "monitor" THEN "running" ELSE "none",
                  !.late = IF starts /\ ~TokenActive(c) THEN @ + 1 ELSE @]]
      BY <1>1, <2>2 DEF Becomes
    <3>. QED
      BY <2>2, <3>1, <3>2 DEF SentRecord, Stays, Coordinators
  <2>. QED
    BY <2>1, <2>2
<1>3. SentMill(c, starts)
  BY <1>1 DEF SentMill, Launches
<1>4. next = "monitor" => starts
  BY <1>1 DEF Launches
<1>5. SameRow
  BY ShowsFields DEF Send
<1>. QED
  BY <1>2, <1>3, <1>4, <1>5 DEF Send

\* The end of a program: the transfer, the unloading, a question, or the run ends.
Cycled(c) ==
  /\ Stays(c) /\ co[c].cmd = "completed" /\ co'[c].cmd = "none"
  /\ co'[c].token = co[c].token /\ co'[c].job = co[c].job /\ co'[c].pallet = co[c].pallet
  /\ co'[c].late = co[c].late
  /\ IF co[c].leg # "machining" THEN co'[c].leg = co[c].leg /\ co'[c].pc = "transfer"
     ELSE co'[c].leg = "unloading" /\ co'[c].pc \in {"position", "pause"}
\* What Monitor leaves.
LEMMA MonitorFields ==
  ASSUME RunTyped, NEW c \in Threads, Monitor(c)
  PROVE  /\ co[c].pc = "monitor" /\ TokenActive(c) /\ Quiet
         /\ Cycled(c) \/ Asked(c, "retry_cnc_program") \/ Leaves(c) \/ co' = co
<1>. USE DEF board, cell, seen
<1>1. SameRow
  BY ShowsFields DEF Monitor
<1>2. CASE AfterCycle(c) /\ CycleEnded(c)
  <2>1. co[c] \in Coordinators /\ co \in [Threads -> Coordinators]
    BY DEF RunTyped
  <2>2. Cycled(c)
    <3>1. CASE co[c].leg # "machining"
      <4>1. co'[c] = [co[c] EXCEPT !.pc = "transfer", !.tries = 0, !.cmd = "none"] /\ Stays(c)
        BY <1>2, <3>1, BecomesRecord DEF AfterCycle
      <4>. QED
        BY <1>2, <2>1, <3>1, <4>1 DEF Cycled, CycleEnded, Coordinators
    <3>2. CASE co[c].leg = "machining"
      <4>. DEFINE to == IF Recovering(c) THEN "position" ELSE "pause"
      <4>1. co'[c] = [co[c] EXCEPT !.leg = "unloading", !.cmd = "none", !.pc = to] /\ Stays(c)
        BY <1>2, <3>2, BecomesRecord DEF AfterCycle
      <4>2. to \in {"position", "pause"}
        OBVIOUS
      <4>. HIDE DEF to
      <4>. QED
        BY <1>2, <2>1, <3>2, <4>1, <4>2 DEF Cycled, CycleEnded, Coordinators
    <3>. QED
      BY <3>1, <3>2
  <2>. QED
    BY <1>1, <2>2 DEF Monitor, Quiet, CellStays
<1>3. CASE ~(AfterCycle(c) /\ CycleEnded(c))
  BY <1>1, <1>3, EditsFields, NamesTyped DEF Monitor, OnFault, Quiet, CellStays
<1>. QED
  BY <1>2, <1>3

\* The wait for the manual pause ends.
LEMMA PauseWaitFields ==
  ASSUME RunTyped, NEW c \in Threads, PauseWait(c)
  PROVE  co[c].pc = "pause" /\ TokenActive(c) /\ Quiet /\ Asked(c, "unloading")
BY EditsFields, ShowsFields, NamesTyped DEF PauseWait, Quiet, CellStays, board, cell, seen

\* The transfer is reserved, tried again, or the operator is asked.
Reserved(c) == /\ MayTransfer(c) /\ GoesOn(c, "motion")
               /\ motion'.status = "running" /\ motion'.pallet = co[c].pallet
               /\ motion'.op = IF co[c].leg = "loading" THEN "load" ELSE "unload"
\* What Transfer leaves.
LEMMA TransferFields ==
  ASSUME RunTyped, NEW c \in Threads, Transfer(c)
  PROVE  /\ co[c].pc = "transfer" /\ TokenActive(c) /\ SameRow /\ tokens' = tokens
         /\ UNCHANGED <<loc, mill, machined, begun>>
         /\ \/ Reserved(c)
            \/ motion' = motion /\ (Retried(c) \/ Asked(c, "retry_robot_transfer"))
<1>. USE DEF board, seen
<1>1. SameRow
  <2>1. co[c].leg # "idle_waiting_queue"
    BY DEF RunTyped, Coordinators, Legs
  <2>. QED
    BY <2>1, ShowsFields DEF Transfer
<1>2. \/ Reserved(c)
      \/ motion' = motion /\ (Retried(c) \/ Asked(c, "retry_robot_transfer"))
  BY EditsFields, NamesTyped DEF Transfer, Reserved, Retried
<1>. QED
  BY <1>1, <1>2 DEF Transfer

\* The pallet arrives in the mill or in the pool.
Loads(c) ==
  /\ motion.op = "load" /\ loc' = [loc EXCEPT ![motion.pallet] = "machine"]
  /\ co'[c].pc = "ask" /\ co'[c].act = "machining" /\ co'[c].leg = "machining"
  /\ co'[c].earned = co[c].earned
Unloads(c) ==
  /\ motion.op = "unload" /\ loc' = [loc EXCEPT ![motion.pallet] = "pool"]
  /\ co'[c].pc = "finish" /\ co'[c].leg = co[c].leg
  /\ co'[c].earned = (motion.pallet \in machined)
\* What MotionDone leaves.
LEMMA MotionDoneFields ==
  ASSUME RunTyped, NEW c \in Threads, MotionDone(c)
  PROVE  /\ co[c].pc = "motion" /\ motion.status = "running" /\ motion'.status = "none"
         /\ run' = run /\ SameRow /\ tokens' = tokens /\ mill' = mill /\ NewStay(motion.pallet)
         /\ Stays(c) /\ co'[c].token = co[c].token /\ co'[c].job = co[c].job
         /\ co'[c].pallet = co[c].pallet /\ co'[c].late = co[c].late /\ co'[c].cmd = co[c].cmd
         /\ Loads(c) \/ Unloads(c)
<1>1. co[c] \in Coordinators /\ co \in [Threads -> Coordinators] /\ motion.op \in {"load", "unload"}
  BY DEF RunTyped, Motions
<1>2. /\ Stays(c) /\ co'[c].token = co[c].token /\ co'[c].job = co[c].job
      /\ co'[c].pallet = co[c].pallet /\ co'[c].late = co[c].late /\ co'[c].cmd = co[c].cmd
  <2>1. CASE motion.op = "load"
    <3>1. co'[c] = [co[c] EXCEPT !.pc = "ask", !.leg = "machining", !.act = "machining"] /\ Stays(c)
      BY <2>1, BecomesRecord DEF MotionDone
    <3>. QED
      BY <1>1, <3>1 DEF Coordinators
  <2>2. CASE motion.op = "unload"
    <3>. DEFINE b == motion.pallet \in machined
    <3>1. Becomes(c, [co[c] EXCEPT !.pc = "finish", !.earned = b])
      BY <2>2 DEF MotionDone
    <3>. HIDE DEF b
    <3>2. co'[c] = [co[c] EXCEPT !.pc = "finish", !.earned = b] /\ Stays(c)
      BY <3>1, BecomesRecord
    <3>. QED
      BY <1>1, <3>2 DEF Coordinators
  <2>. QED
    BY <1>1, <2>1, <2>2
<1>3. Loads(c) \/ Unloads(c)
  <2>1. CASE motion.op = "load"
    <3>1. co'[c] = [co[c] EXCEPT !.pc = "ask", !.leg = "machining", !.act = "machining"]
      BY <2>1, BecomesRecord DEF MotionDone
    <3>2. loc' = [loc EXCEPT ![motion.pallet] = "machine"]
      BY <2>1 DEF MotionDone
    <3>3. /\ co'[c].pc = "ask" /\ co'[c].act = "machining" /\ co'[c].leg = "machining"
          /\ co'[c].earned = co[c].earned
      BY <1>1, <3>1 DEF Coordinators
    <3>. QED
      BY <2>1, <3>2, <3>3 DEF Loads
  <2>2. CASE motion.op = "unload"
    <3>1. co'[c] = [co[c] EXCEPT !.pc = "finish", !.earned = motion.pallet \in machined]
      BY <1>1, <2>2 DEF MotionDone, Becomes
    <3>2. \A b \in BOOLEAN : [co[c] EXCEPT !.pc = "finish", !.earned = b].earned = b
      BY <1>1 DEF Coordinators
    <3>3. (motion.pallet \in machined) \in BOOLEAN
      OBVIOUS
    <3>4. co'[c].earned = (motion.pallet \in machined)
      BY <3>1, <3>2, <3>3, Zenon
    <3>5. co'[c].pc = "finish" /\ co'[c].leg = co[c].leg
      BY <1>1, <3>1 DEF Coordinators
    <3>. QED
      BY <2>2, <3>4, <3>5 DEF MotionDone, Unloads
  <2>. QED
    BY <1>1, <2>1, <2>2
<1>. QED
  BY <1>2, <1>3, ShowsFields DEF MotionDone, NoMotion
\* The robot faults under way.
LEMMA MotionFaultsFields ==
  ASSUME RunTyped, NEW c \in Threads, MotionFaults(c)
  PROVE  /\ co[c].pc = "motion" /\ Leaves(c) /\ SameRow /\ run' = run /\ tokens' = tokens
         /\ UNCHANGED <<loc, mill, machined, begun>>
         /\ motion.status = "running" /\ motion'.status = "faulted" /\ motion'.op = motion.op
BY EditsFields, ShowsFields DEF MotionFaults, RunTyped, Motions, board, seen

\* The thread is done with a pallet and goes back to the head of its workflow.
Again(c) == /\ Stays(c) /\ co'[c].pc \in {"prepare", "pick"} /\ co'[c].cmd = "none"
            /\ co'[c].token = co[c].token /\ co'[c].late = co[c].late
\* What Finish leaves.
LEMMA FinishFields ==
  ASSUME RunTyped, NEW c \in Threads, Finish(c)
  PROVE  /\ co[c].pc = "finish" /\ CellStays /\ tokens' = tokens /\ SameRun /\ SamePrompt /\ NotArmed
         /\ run'.loaded \in {"none", run.loaded}
         /\ Leaves(c) \/ Again(c)
<1>. USE DEF board, cell, seen
<1>1. run \in RunRow
  BY DEF RunTyped
<1>2. CASE Fails(c) /\ run' = run
  BY <1>1, <1>2, EditsFields, ShowsFields DEF Finish, CellStays, SameRow
<1>3. CASE ~(Fails(c) /\ run' = run)
  <2>1. run' = [run EXCEPT !.state = "working", !.loaded = LoadedAfter(c)]
    BY <1>3 DEF Finish
  <2>2. SameRun /\ SamePrompt /\ NotArmed /\ run'.loaded \in {"none", run.loaded}
    BY <1>1, <2>1 DEF SameRun, SamePrompt, NotArmed, LoadedAfter, RunRow
  <2>3. Again(c)
    <3>. DEFINE to == IF Recovering(c) THEN "prepare" ELSE "pick"
    <3>1. co'[c] = [Off EXCEPT !.token = co[c].token, !.late = co[c].late, !.pc = to] /\ Stays(c)
      BY <1>3, BecomesRecord DEF Finish
    <3>2. to \in {"prepare", "pick"}
      OBVIOUS
    <3>. HIDE DEF to
    <3>. QED
      BY <3>1, <3>2 DEF Again, Off
  <2>. QED
    BY <2>2, <2>3 DEF Finish, CellStays
<1>. QED
  BY <1>2, <1>3

\* No run is in force: Stop, a refusal of the prompt, the end of a run, a restart.
Disabled == ~run'.enabled /\ run'.asker = NoThread /\ run'.token <= run.token
\* What Ending leaves.
LEMMA EndingFields ==
  ASSUME RunTyped, NEW c \in Threads, Ending(c)
  PROVE  /\ co[c].pc = "ending" /\ Leaves(c) /\ co'[c].pc = "off" /\ CellStays /\ tokens' = tokens
         /\ SameRow \/ (Disabled /\ run.token = co[c].token)
<1>. USE DEF board, cell, seen
<1>1. run \in RunRow
  BY DEF RunTyped
<1>2. run' = run \/ (Disabled /\ run.token = co[c].token)
  <2>1. ASSUME NEW state,
               run' = [NoPrompt(run) EXCEPT !.enabled = FALSE, !.state = state,
                          !.token = 0, !.paused = FALSE, !.loaded = "none"]
        PROVE  Disabled
    <3>1. run'.enabled = FALSE /\ run'.asker = NoThread /\ run'.token = 0
      BY <1>1, <2>1 DEF NoPrompt, RunRow
    <3>2. run.token \in Nat
      BY <1>1 DEF RunRow
    <3>. QED
      BY <3>1, <3>2 DEF Disabled
  <2>. QED
    BY <2>1 DEF Ending
<1>. QED
  BY <1>2, EditsFields, ShowsFields DEF Ending, CellStays

\* The handlers that end a run or clear its prompt.
LEMMA DisableFields ==
  ASSUME RunTyped, Stop \/ CancelRecovery \/ Decline \/ ClearStatus
  PROVE  Disabled /\ run'.token = run.token /\ CellStays /\ co' = co /\ tokens' = tokens
<1>. USE DEF board, cell, seen
<1>1. run \in RunRow
  BY DEF RunTyped
<1>2. ~run'.enabled /\ run'.asker = NoThread /\ run'.token = run.token
  <2>1. CASE Stop
    BY <1>1, <2>1 DEF Stop, Stopped, NoPrompt, RunRow
  <2>2. CASE CancelRecovery \/ Decline
    BY <1>1, <2>2 DEF CancelRecovery, Decline, Stopped, NoPrompt, RunRow
  <2>3. CASE ClearStatus
    BY <1>1, <2>3 DEF ClearStatus, NoPrompt, RunRow
  <2>. QED
    BY <2>1, <2>2, <2>3
<1>3. run.token \in Nat
  BY <1>1 DEF RunRow
<1>. QED
  BY <1>2, <1>3 DEF Disabled, Stop, CancelRecovery, Decline, ClearStatus, CellStays

\* The operator grants what is asked.
LEMMA ApproveFields ==
  ASSUME RunTyped, Approve
  PROVE  /\ SameRun /\ run'.pending = run.pending /\ run'.asker = run.asker /\ run'.granted
         /\ run'.loaded = run.loaded /\ run'.state = "working" /\ run.enabled /\ ~run.granted
         /\ UNCHANGED <<loc, motion, mill, machined, co, tokens>>
         /\ begun' = IF run.pending = "retry_cnc_program"
                     THEN [p \in Pallets |-> IF p \in InMill THEN 0 ELSE begun[p]]
                     ELSE begun
BY DEF Approve, RunTyped, RunRow, SameRun, board, cell

\* The manual pause begins and ends.
LEMMA PauseFields ==
  ASSUME RunTyped, PauseForManual \/ ResumeManual
  PROVE  SameRow /\ run'.state # "idle_waiting_queue" /\ CellStays /\ co' = co /\ tokens' = tokens
BY DEF PauseForManual, ResumeManual, RunTyped, RunRow, SameRow, SameRun, SamePrompt, NotArmed, CellStays,
       board, cell, seen
\* A run begins under a new token: an armed run without a thread, or a thread at
\* the point the start chose.
Begins(c) == ~Alive(c) /\ Stays(c) /\ co'[c].token = tokens + 1 /\ co'[c].cmd = "none" /\ co'[c].late = 0
Begun == /\ ~run.enabled /\ ~Locked /\ tokens < MaxToken /\ tokens' = tokens + 1
         /\ run'.enabled /\ run'.token = tokens + 1 /\ run'.asker = NoThread
         /\ UNCHANGED <<loc, motion, mill, machined>>
\* What Start leaves.
LEMMA StartFields ==
  ASSUME RunTyped, NEW loaded \in LoadedActions \cup {"none"}, NEW safe, Start(loaded, safe)
  PROVE  /\ Begun /\ run'.loaded = loaded /\ (InMill # {}) = (loaded # "none")
         /\ begun' = IF loaded = "run_machine_program"
                     THEN [p \in Pallets |-> IF p \in InMill THEN 0 ELSE begun[p]]
                     ELSE begun
         /\ \/ co' = co
            \/ /\ run'.state = "working"
               /\ \E c \in Threads : Begins(c) /\ co'[c].pc = "prepare"
<1>. USE DEF board, cell
<1>1. run \in RunRow /\ tokens \in Nat
  BY DEF RunTyped
<1>2. run'.enabled /\ run'.token = tokens + 1 /\ run'.asker = NoThread /\ run'.loaded = loaded
  BY <1>1 DEF Start, NoPrompt, RunRow
<1>3. \/ co' = co
      \/ run'.state = "working" /\ Spawn([Off EXCEPT !.pc = "prepare", !.token = tokens + 1])
  BY <1>1 DEF Start, NoPrompt, RunRow
<1>4. Spawn([Off EXCEPT !.pc = "prepare", !.token = tokens + 1]) =>
        \E c \in Threads : Begins(c) /\ co'[c].pc = "prepare"
  <2>. SUFFICES ASSUME NEW c \in Threads, ~Alive(c),
                       Becomes(c, [Off EXCEPT !.pc = "prepare", !.token = tokens + 1])
                PROVE  Begins(c) /\ co'[c].pc = "prepare"
    BY DEF Spawn
  <2>1. co'[c] = [Off EXCEPT !.pc = "prepare", !.token = tokens + 1] /\ Stays(c)
    BY BecomesRecord
  <2>. QED
    BY <2>1 DEF Begins, Off
<1>. QED
  BY <1>2, <1>3, <1>4 DEF Start, Begun

\* The recovery's thread, with the pallet in the mill in hand.
Recovers(c, p) ==
  /\ Begins(c) /\ co'[c].pallet = p
  /\ \/ co'[c].pc = "transfer" /\ co'[c].job = "retry_robot_only" /\ co'[c].leg = "unloading" /\ begun' = begun
     \/ co'[c].pc = "machine" /\ co'[c].job = "recovery" /\ co'[c].leg = "machining"
          /\ begun' = [begun EXCEPT ![p] = 0]
     \/ co'[c].pc = "position" /\ co'[c].job = "recovery" /\ co'[c].leg = "unloading" /\ begun' = begun
\* What StartRecovery leaves.
LEMMA RecoveryFields ==
  ASSUME RunTyped, NEW strategy, StartRecovery(strategy)
  PROVE  /\ Begun /\ run'.state = "working" /\ run'.loaded = run.loaded
         /\ \E c \in Threads, p \in InMill : Recovers(c, p)
<1>. USE DEF board, cell
<1>1. run \in RunRow /\ tokens \in Nat
  BY DEF RunTyped
<1>2. run'.enabled /\ run'.token = tokens + 1 /\ run'.asker = NoThread /\ run'.loaded = run.loaded
        /\ run'.state = "working"
  BY <1>1 DEF StartRecovery, NoPrompt, RunRow
<1>3. \E c \in Threads, p \in InMill : Recovers(c, p)
  <2>. DEFINE job == IF strategy = "retry_robot_only" THEN strategy ELSE "recovery"
              leg == IF strategy = "rerun_assigned_program" THEN "machining" ELSE "unloading"
              to == CASE strategy = "retry_robot_only"       -> "transfer"
                      [] strategy = "rerun_assigned_program" -> "machine"
                      [] OTHER                               -> "position"
  <2>1. PICK p \in InMill :
          /\ Spawn([Off EXCEPT !.token = tokens + 1, !.pallet = p, !.job = job, !.leg = leg, !.pc = to])
          /\ begun' = IF strategy = "rerun_assigned_program" THEN [begun EXCEPT ![p] = 0] ELSE begun
    BY DEF StartRecovery
  <2>2. PICK c \in Threads :
          ~Alive(c) /\ Becomes(c, [Off EXCEPT !.token = tokens + 1, !.pallet = p, !.job = job, !.leg = leg, !.pc = to])
    BY <2>1 DEF Spawn
  <2>. HIDE DEF job, leg, to
  <2>3. /\ Begins(c) /\ co'[c].pallet = p /\ co'[c].job = job /\ co'[c].leg = leg /\ co'[c].pc = to
    <3>1. co'[c] = [Off EXCEPT !.token = tokens + 1, !.pallet = p, !.job = job, !.leg = leg, !.pc = to] /\ Stays(c)
      BY <2>2, BecomesRecord
    <3>. QED
      BY <2>2, <3>1 DEF Begins, Off
  <2>4. Recovers(c, p)
    BY <2>1, <2>3 DEF Recovers, job, leg, to
  <2>. QED
    BY <2>4
<1>. QED
  BY <1>2, <1>3 DEF StartRecovery, Begun

\* An armed run gets its thread, or the row and the threads stay as they are.
Resumes(c) == /\ Armed /\ ~Alive(c) /\ Stays(c) /\ SameRun /\ SamePrompt /\ run'.loaded = run.loaded
              /\ run'.state = "working" /\ co'[c].pc = "prepare" /\ co'[c].token = run.token
              /\ co'[c].cmd = "none" /\ co'[c].late = 0
\* What resume_armed_run_mode leaves.
LEMMA ResumeFields ==
  ASSUME RunTyped, NEW q, NEW place, NEW finished, ResumeArmed(q, place, finished)
  PROVE  (SameRow /\ co' = co) \/ \E c \in Threads : Resumes(c)
<1>1. run \in RunRow
  BY DEF RunTyped
<1>2. CASE UNCHANGED <<run, co>>
  BY <1>2, ShowsFields
<1>3. CASE ~UNCHANGED <<run, co>>
  <2>1. PICK c \in Threads : ~Alive(c) /\ Becomes(c, [Off EXCEPT !.pc = "prepare", !.token = run.token])
    BY <1>3 DEF ResumeArmed, Spawn
  <2>2. Armed /\ run' = [run EXCEPT !.state = "working"]
    BY <1>3 DEF ResumeArmed
  <2>3. SameRun /\ SamePrompt /\ run'.loaded = run.loaded /\ run'.state = "working"
    BY <1>1, <2>2 DEF SameRun, SamePrompt, RunRow
  <2>4. Resumes(c)
    <3>1. co'[c] = [Off EXCEPT !.pc = "prepare", !.token = run.token] /\ Stays(c)
      BY <2>1, BecomesRecord
    <3>. QED
      BY <2>1, <2>2, <2>3, <3>1 DEF Resumes, Off
  <2>. QED
    BY <2>4
<1>. QED
  BY <1>2, <1>3

\* What an edit of the board changes for the threads: nothing while the run in
\* force has the pallet in the mill, or a robot moves it.
LEMMA EditFields ==
  ASSUME RunTyped, NEW p \in Pallets, QueuePallet(p) \/ Dequeue(p) \/ UpdatePallet(p)
  PROVE  /\ UNCHANGED <<motion, mill, tokens>>
         /\ (SameRow /\ co' = co) \/ \E c \in Threads : Resumes(c)
         /\ \/ loc' = loc /\ UNCHANGED seen
            \/ /\ motion.pallet # p /\ loc' = [loc EXCEPT ![p] = "pool"]
               /\ IF loc[p] = "machine" THEN ~run.enabled /\ NewStay(p) ELSE UNCHANGED seen
<1>. USE DEF board, cell
<1>1. CASE QueuePallet(p)
  <2>1. PICK q2, l2, c2 : loc' = [loc EXCEPT ![p] = "pool"] /\ ResumeArmed(q2, l2, c2)
    BY <1>1 DEF QueuePallet
  <2>. QED
    BY <1>1, <2>1, ResumeFields DEF QueuePallet, Manageable
<1>2. CASE Dequeue(p)
  BY <1>2, ShowsFields DEF Dequeue, seen
<1>3. CASE UpdatePallet(p)
  BY <1>3, ResumeFields DEF UpdatePallet, seen
<1>. QED
  BY <1>1, <1>2, <1>3

\* A pallet is moved by hand while no robot moves.
LEMMA RelocateFields ==
  ASSUME RunTyped, NEW p \in Pallets, NEW place \in Places, Relocate(p, place)
  PROVE  /\ SameRow /\ run' = run /\ co' = co /\ UNCHANGED <<motion, mill, tokens>> /\ ~Locked
         /\ (run.enabled => loc[p] # "machine" /\ place # "machine")
         /\ (place = "machine" => InMill = {})
         /\ loc' = [loc EXCEPT ![p] = place] /\ NewStay(p)
BY ShowsFields DEF Relocate, Manageable, cell

\* An operator says where a faulted motion left its pallet.
LEMMA RecoverFields ==
  ASSUME RunTyped, NEW place \in Places, RecoverMotion(place)
  PROVE  /\ SameRow /\ run' = run /\ co' = co /\ UNCHANGED <<mill, tokens>> /\ motion.status = "faulted"
         /\ motion'.status = "none" /\ (place = "machine" => InMill \subseteq {motion.pallet})
         /\ loc' = [loc EXCEPT ![motion.pallet] = place]
         /\ IF place = loc[motion.pallet] THEN UNCHANGED seen ELSE NewStay(motion.pallet)
BY ShowsFields DEF RecoverMotion, NoMotion

\* The threads that watch the program see its end; nothing else of them changes.
Seen(end) == \A c \in Threads :
  /\ co'[c].pc = co[c].pc /\ co'[c].act = co[c].act /\ SameThread(c)
  /\ co'[c].cmd = IF co[c].cmd = "running" THEN end ELSE co[c].cmd
\* The thread that watches the mill sees the end of its program, and only that.
LEMMA ObservedFields ==
  ASSUME RunTyped, NEW end \in {"completed", "stopped"}, co' = Observed(end)
  PROVE  Seen(end)
<1>1. \A c \in Threads : co[c] \in Coordinators
  BY DEF RunTyped
<1>2. \A r \in Coordinators : LET s == [r EXCEPT !.cmd = end] IN
        /\ s.pc = r.pc /\ s.act = r.act /\ s.token = r.token /\ s.leg = r.leg /\ s.job = r.job
        /\ s.pallet = r.pallet /\ s.late = r.late /\ s.earned = r.earned /\ s.cmd = end
  BY DEF Coordinators
<1>3. \A c \in Threads : co'[c] = IF co[c].cmd = "running" THEN [co[c] EXCEPT !.cmd = end] ELSE co[c]
  BY DEF Observed
<1>. QED
  <2>. SUFFICES ASSUME NEW c \in Threads
                PROVE  /\ co'[c].pc = co[c].pc /\ co'[c].act = co[c].act /\ SameThread(c)
                       /\ co'[c].cmd = IF co[c].cmd = "running" THEN end ELSE co[c].cmd
    BY DEF Seen
  <2>. DEFINE s == [co[c] EXCEPT !.cmd = end]
  <2>1. /\ s.pc = co[c].pc /\ s.act = co[c].act /\ s.token = co[c].token /\ s.leg = co[c].leg
        /\ s.job = co[c].job /\ s.pallet = co[c].pallet /\ s.late = co[c].late
        /\ s.earned = co[c].earned /\ s.cmd = end
    BY <1>1, <1>2
  <2>2. co'[c] = IF co[c].cmd = "running" THEN s ELSE co[c]
    BY <1>3
  <2>. HIDE DEF s
  <2>. QED
    BY <2>1, <2>2 DEF SameThread

\* The program ends, or the operator stops the mill and with it the run.
LEMMA MillFields ==
  ASSUME RunTyped
  PROVE  /\ \A normal \in BOOLEAN : MillEnds(normal) =>
              /\ SameRow /\ run' = run /\ UNCHANGED <<loc, motion, begun, tokens>> /\ mill'.program = "none"
              /\ Seen(IF normal THEN "completed" ELSE "stopped")
              /\ machined' = IF normal /\ mill.program \in Pallets
                             THEN machined \cup {mill.program} ELSE machined
         /\ ControlMillStop =>
              /\ Seen("stopped") /\ mill'.program = "none" /\ UNCHANGED <<loc, motion, machined, begun, tokens>>
              /\ SameRow \/ (Disabled /\ run'.token = run.token)
<1>. USE DEF board, seen
<1>1. run \in RunRow /\ IdleMill.program = "none"
  BY DEF RunTyped, IdleMill
<1>2. ASSUME NEW normal \in BOOLEAN, MillEnds(normal)
      PROVE  Seen(IF normal THEN "completed" ELSE "stopped")
  BY <1>2, ObservedFields DEF MillEnds
<1>3. ControlMillStop => SameRow \/ (Disabled /\ run'.token = run.token)
  <2>1. run.token \in Nat
    BY <1>1 DEF RunRow
  <2>2. Stopped(run).enabled = FALSE /\ Stopped(run).asker = NoThread /\ Stopped(run).token = run.token
    BY <1>1 DEF Stopped, NoPrompt, RunRow
  <2>. QED
    BY <2>1, <2>2, ShowsFields DEF ControlMillStop, Disabled
<1>. QED
  BY <1>1, <1>2, <1>3, ObservedFields, ShowsFields DEF MillEnds, ControlMillStop, Aborts

\* A thread that did not poll the end of its program may watch another one.
Rewatches(c) ==
  /\ co'[c].pc = co[c].pc /\ co'[c].act = co[c].act /\ SameThread(c)
  /\ co'[c].cmd = "none" <=> co[c].cmd = "none"
  /\ co'[c].cmd = co[c].cmd \/ (Unpolled(c) /\ co'[c].cmd = "running")
\* The debug page starts a program of its own: nothing but the mill changes.
LEMMA DebugFields ==
  ASSUME RunTyped, DebugProgram
  PROVE  /\ SameRow /\ run' = run /\ UNCHANGED <<loc, motion, machined, begun, tokens>>
         /\ mill.program = "none" /\ mill'.program = "debug"
         /\ \A c \in Threads : Rewatches(c)
<1>. USE DEF board, seen
<1>1. PICK missed \in SUBSET {c \in Threads : Unpolled(c)} :
        co' = [c \in Threads |-> IF c \in missed THEN [co[c] EXCEPT !.cmd = "running"] ELSE co[c]]
  BY DEF DebugProgram
<1>2. ASSUME NEW c \in Threads
      PROVE  Rewatches(c)
  <2>. DEFINE s == [co[c] EXCEPT !.cmd = "running"]
  <2>1. co[c] \in Coordinators
    BY DEF RunTyped
  <2>2. /\ s.pc = co[c].pc /\ s.act = co[c].act /\ s.token = co[c].token /\ s.leg = co[c].leg
        /\ s.job = co[c].job /\ s.pallet = co[c].pallet /\ s.late = co[c].late
        /\ s.earned = co[c].earned /\ s.cmd = "running"
    BY <2>1 DEF Coordinators
  <2>3. co'[c] = co[c] \/ (Unpolled(c) /\ co'[c] = s)
    BY <1>1
  <2>. HIDE DEF s
  <2>. QED
    BY <2>2, <2>3 DEF Rewatches, SameThread, Unpolled
<1>. QED
  BY <1>2, ShowsFields DEF DebugProgram

\* A restart ends every thread and every run, and faults what the robot was doing.
LEMMA RestartFields ==
  ASSUME RunTyped, Restart
  PROVE  /\ \A c \in Threads : co'[c].pc = "off" /\ co'[c].cmd = "none" /\ co'[c].late = 0 /\ co'[c].token = 0
         /\ ~run'.enabled /\ run'.token <= run.token /\ UNCHANGED <<loc, mill, machined, begun, tokens>>
         /\ motion'.status # "running" /\ motion'.op = motion.op
<1>1. run \in RunRow /\ motion \in Motions /\ run.token \in Nat
  BY DEF RunTyped, RunRow
<1>2. ~run'.enabled /\ run'.token <= run.token
  <2>1. CASE run.enabled
    <3>1. run'.enabled = FALSE /\ run'.token = 0
      BY <1>1, <2>1 DEF Restart, NoPrompt, RunRow
    <3>. QED
      BY <1>1, <3>1
  <2>2. CASE ~run.enabled
    BY <1>1, <2>2 DEF Restart
  <2>. QED
    BY <2>1, <2>2
<1>3. motion'.status # "running" /\ motion'.op = motion.op
  BY <1>1 DEF Restart, Motions
<1>. QED
  BY <1>2, <1>3 DEF Restart, Off, board
\* The numbers of the state.
LEMMA NumbersTyped ==
  ASSUME RunTyped
  PROVE  /\ tokens \in Nat /\ run.token \in Nat /\ begun \in [Pallets -> Nat]
         /\ \A c \in Threads : co[c].token \in Nat /\ co[c].late \in Nat
<1>1. tokens \in Nat
  BY RecordsTyped DEF RunTyped
<1>2. run.token \in Nat /\ begun \in [Pallets -> Nat]
  BY DEF RunTyped, RunRow
<1>3. \A c \in Threads : co[c].token \in Nat /\ co[c].late \in Nat
  BY DEF RunTyped, Coordinators
<1>. QED
  BY <1>1, <1>2, <1>3
-----------------------------------------------------------------------------
(* Tokens.                                                                 *)

\* A step that hands out no token: no thread and no run begins, and only the
\* run's own thread leaves it armed.
Keeps(c) == co'[c].token \in {0, co[c].token} /\ (Alive(c)' => Alive(c) /\ co'[c].token = co[c].token)
Rearmed == \E c \in Threads : Active(c) /\ co[c].pc = "pick" /\ ~Alive(c)' /\ Stays(c)
Ongoing ==
  /\ tokens' = tokens /\ run'.token <= run.token
  /\ run'.enabled => run.enabled /\ run'.token = run.token
  /\ \A c \in Threads : Keeps(c)
  /\ Armed' => Armed \/ Rearmed
\* A row that changes as little as SameRow keeps the run as it was.
LEMMA RowOngoing ==
  ASSUME RunTyped, SameRow \/ Disabled
  PROVE  /\ run'.token <= run.token /\ (Armed' => Armed)
         /\ run'.enabled => run.enabled /\ run'.token = run.token
<1>1. run.token \in Nat
  BY DEF RunTyped, RunRow
<1>. QED
  BY <1>1 DEF SameRow, SameRun, NotArmed, Disabled, Armed

\* A thread's step is of that kind.
LEMMA ThreadOngoing ==
  ASSUME RunTyped, LegsOK, NEW c \in Threads, ThreadStep(c) \/ ThreadConflicts(c)
  PROVE  Ongoing
<1>1. run.token \in Nat
  BY DEF RunTyped, RunRow
<1>2. ASSUME tokens' = tokens, SameRow \/ Disabled, Stays(c), Keeps(c)
      PROVE  Ongoing
  BY <1>2, RowOngoing DEF Ongoing, Stays, Keeps, Alive
<1>3. ASSUME co[c].pc # "off", Leaves(c)
      PROVE  Stays(c) /\ Keeps(c)
  BY <1>3 DEF Leaves, Keeps, Alive
<1>4. ASSUME co[c].pc # "off", NEW to, GoesOn(c, to)
      PROVE  Stays(c) /\ Keeps(c)
  BY <1>4 DEF GoesOn, SameThread, Keeps, Alive
<1>5. ASSUME co[c].pc # "off", NEW act, Asked(c, act)
      PROVE  Stays(c) /\ Keeps(c)
  BY <1>5 DEF Asked, SameThread, Keeps, Alive
<1>6. ASSUME co[c].pc # "off", NEW leg, NEW job, NEW p, Takes(c, leg, job, p)
      PROVE  Stays(c) /\ Keeps(c)
  BY <1>6 DEF Takes, Keeps, Alive
<1>7. CASE GivesUp(c) \/ ThreadConflicts(c)
  <2>1. co[c].pc # "off"
    BY <1>7 DEF GivesUp, ThreadConflicts, TokenChecked, Committing
  <2>. QED
    BY <1>2, <1>3, <1>7, <2>1, LeavingFields DEF Refused
<1>8. CASE Prepare(c)
  BY <1>2, <1>3, <1>4, <1>8, PrepareFields DEF Quiet, Retried
<1>9. CASE HandleLoaded(c)
  BY <1>2, <1>4, <1>6, <1>9, HandleLoadedFields DEF Quiet
<1>10. CASE Pick(c)
  <2>1. /\ co[c].pc = "pick" /\ TokenActive(c) /\ tokens' = tokens /\ SameRun
        /\ \/ Leaves(c) /\ co'[c].pc = "off"
           \/ NotArmed /\ (Leaves(c) \/ \E p \in Pallets : Takes(c, "loading", "queue", p))
    BY <1>10, PickFields
  <2>2. Stays(c) /\ Keeps(c)
    BY <1>3, <1>6, <2>1
  <2>3. Armed' => Armed \/ Rearmed
    BY <2>1, <2>2 DEF SameRun, NotArmed, Armed, Rearmed, Active, Alive
  <2>. QED
    BY <1>1, <2>1, <2>2, <2>3 DEF Ongoing, SameRun, Stays, Keeps, Alive
<1>11. CASE Ask(c) \/ Granted(c)
  <2>1. /\ tokens' = tokens /\ SameRun /\ NotArmed /\ co[c].pc \in {"ask", "wait"}
        /\ \E to : GoesOn(c, to)
    BY <1>11, AskFields, GrantedFields
  <2>2. Stays(c) /\ Keeps(c)
    BY <1>4, <2>1
  <2>. QED
    BY <1>1, <2>1, <2>2 DEF Ongoing, SameRun, NotArmed, Armed, Stays, Keeps, Alive
<1>12. CASE Position(c) \/ Machine(c) \/ CheckMill(c)
  BY <1>2, <1>3, <1>4, <1>5, <1>12, PositionFields, MachineFields, CheckMillFields DEF Quiet, Retried
<1>13. CASE Send(c)
  <2>1. PICK starts \in BOOLEAN, next \in {"monitor", "ask", "ending"} : SentRecord(c, starts, next)
    BY <1>13, SendFields
  <2>2. Stays(c) /\ Keeps(c)
    BY <1>3, <1>13, <2>1, SendFields DEF SentRecord, Keeps, Alive
  <2>. QED
    BY <1>2, <1>13, <2>2, SendFields
<1>14. CASE Monitor(c) \/ PauseWait(c)
  <2>1. tokens' = tokens /\ SameRow /\ co[c].pc # "off"
    BY <1>14, MonitorFields, PauseWaitFields DEF Quiet
  <2>2. Cycled(c) => Stays(c) /\ Keeps(c)
    BY <2>1 DEF Cycled, Keeps, Alive
  <2>3. co' = co => Stays(c) /\ Keeps(c)
    BY DEF Stays, Keeps, Alive
  <2>. QED
    BY <1>2, <1>3, <1>5, <1>14, <2>1, <2>2, <2>3, MonitorFields, PauseWaitFields
<1>15. CASE Transfer(c)
  BY <1>2, <1>4, <1>5, <1>15, TransferFields DEF Reserved, Retried
<1>16. CASE MotionDone(c)
  <2>1. Stays(c) /\ Keeps(c)
    BY <1>16, MotionDoneFields DEF Keeps, Alive
  <2>. QED
    BY <1>2, <1>16, <2>1, MotionDoneFields
<1>17. CASE MotionFaults(c)
  BY <1>2, <1>3, <1>17, MotionFaultsFields
<1>18. CASE Finish(c)
  <2>1. Again(c) => Stays(c) /\ Keeps(c)
    BY <1>18, FinishFields DEF Again, Keeps, Alive
  <2>2. Stays(c) /\ Keeps(c)
    BY <1>3, <1>18, <2>1, FinishFields
  <2>. QED
    BY <1>1, <1>18, <2>2, FinishFields DEF Ongoing, SameRun, NotArmed, Armed, Stays, Keeps, Alive
<1>19. CASE Ending(c)
  BY <1>2, <1>3, <1>19, EndingFields
<1>. QED
  BY <1>7, <1>8, <1>9, <1>10, <1>11, <1>12, <1>13, <1>14, <1>15, <1>16, <1>17, <1>18, <1>19 DEF ThreadStep

\* A run begins, with a thread or armed.
Starts == Begun /\ (co' = co \/ (run'.state = "working" /\ \E c \in Threads : Begins(c)))

\* The steps of the operator, of the watchdog, of the mill and of the process.
LEMMA LifeCycle ==
  ASSUME RunTyped, LegsOK, Next
  PROVE  Ongoing \/ Starts \/ (tokens' = tokens /\ \E c \in Threads : Resumes(c))
<1>1. run.token \in Nat
  BY DEF RunTyped, RunRow
<1>2. ASSUME tokens' = tokens, SameRow \/ Disabled, co' = co
      PROVE  Ongoing
  BY <1>2, RowOngoing DEF Ongoing, Keeps, Alive
<1>3. ASSUME NEW end, tokens' = tokens, SameRow \/ Disabled, Seen(end)
      PROVE  Ongoing
  BY <1>3, RowOngoing DEF Ongoing, Keeps, Alive, Seen, SameThread
<1>4. CASE \E c \in Threads : ThreadStep(c) \/ ThreadConflicts(c)
  BY <1>4, ThreadOngoing
<1>5. CASE \E loaded \in LoadedActions \cup {"none"}, safe \in BOOLEAN : Start(loaded, safe)
  BY <1>5, StartFields DEF Starts
<1>6. CASE \E strategy \in Strategies : StartRecovery(strategy)
  BY <1>6, RecoveryFields DEF Starts, Recovers
<1>7. CASE Stop \/ CancelRecovery \/ Decline \/ ClearStatus
  BY <1>2, <1>7, DisableFields
<1>8. CASE Approve
  <2>1. run'.token <= run.token /\ (run'.enabled => run.enabled /\ run'.token = run.token) /\ ~Armed'
    BY <1>1, <1>8, ApproveFields DEF SameRun, Armed
  <2>. QED
    BY <1>8, <2>1, ApproveFields DEF Ongoing, Keeps, Alive
<1>9. CASE PauseForManual \/ ResumeManual
  BY <1>2, <1>9, PauseFields
<1>10. CASE \E p \in Pallets : QueuePallet(p) \/ Dequeue(p) \/ UpdatePallet(p)
  BY <1>2, <1>10, EditFields
<1>11. CASE \E p \in Pallets, place \in Places : Relocate(p, place)
  BY <1>2, <1>11, RelocateFields
<1>12. CASE \E place \in Places : RecoverMotion(place)
  BY <1>2, <1>12, RecoverFields
<1>13. CASE ControlMillStop \/ \E normal \in BOOLEAN : MillEnds(normal)
  BY <1>3, <1>13, MillFields
<1>14. CASE Restart
  BY <1>1, <1>14, RestartFields DEF Ongoing, Keeps, Alive, Armed
<1>15. CASE DebugProgram
  BY <1>15, DebugFields, RowOngoing DEF Ongoing, Keeps, Alive, Rewatches, SameThread
<1>. QED
  BY <1>4, <1>5, <1>6, <1>7, <1>8, <1>9, <1>10, <1>11, <1>12, <1>13, <1>14, <1>15 DEF Next, Operator

\* One thread works under a token.
LEMMA TokensStep ==
  ASSUME RunTyped, LegsOK, TokensOK, Next
  PROVE  TokensOK'
<1>1. tokens \in Nat /\ run.token \in Nat /\ \A c \in Threads : co[c].token \in Nat
  BY NumbersTyped
<1>2. CASE Ongoing
  <2>1. run'.token <= tokens' /\ (run'.enabled => run'.token > 0)
    <3>1. run' \in RunRow
      BY TypesStep DEF RunTyped
    <3>2. run'.token \in Nat
      BY <3>1 DEF RunRow
    <3>. QED
      BY <1>1, <1>2, <3>2 DEF TokensOK, Ongoing
  <2>2. \A c \in Threads : co'[c].token <= tokens' /\ (Alive(c)' => co'[c].token > 0)
    BY <1>1, <1>2 DEF TokensOK, Ongoing, Keeps
  <2>3. \A c, d \in Threads : Alive(c)' /\ Alive(d)' /\ co'[c].token = co'[d].token => c = d
    BY <1>2 DEF TokensOK, Ongoing, Keeps
  <2>4. Armed' => \A c \in Threads : Alive(c)' => co'[c].token # run'.token
    <3>1. CASE Armed
      BY <1>2, <3>1 DEF TokensOK, Ongoing, Keeps, Armed
    <3>2. ASSUME NEW c \in Threads, Active(c), ~Alive(c)', Stays(c), Armed'
          PROVE  \A d \in Threads : Alive(d)' => co'[d].token # run'.token
      <4>1. run'.token = run.token /\ co[c].token = run.token /\ Alive(c)
        BY <1>2, <3>2 DEF Ongoing, Active, TokenActive, Armed
      <4>2. \A d \in Threads : Alive(d)' => Alive(d) /\ co'[d].token = co[d].token /\ d # c
        BY <1>2, <3>2 DEF Ongoing, Keeps
      <4>. QED
        BY <4>1, <4>2 DEF TokensOK
    <3>. QED
      BY <1>2, <3>1, <3>2 DEF Ongoing, Rearmed
  <2>. QED
    BY <2>1, <2>2, <2>3, <2>4 DEF TokensOK, Alive, Armed
<1>3. CASE Starts
  <2>1. tokens' = tokens + 1 /\ run'.enabled /\ run'.token = tokens + 1
    BY <1>3 DEF Starts, Begun
  <2>2. CASE co' = co
    BY <1>1, <2>1, <2>2 DEF TokensOK, Alive, Armed
  <2>3. CASE co' # co
    <3>1. PICK c \in Threads : Begins(c)
      BY <1>3, <2>3 DEF Starts
    <3>2. ~Armed'
      BY <1>3, <2>3 DEF Starts, Armed
    <3>3. \A d \in Threads : co'[d].token = IF d = c THEN tokens + 1 ELSE co[d].token
      BY <3>1 DEF Begins, Stays
    <3>4. \A d \in Threads : Alive(d)' => d = c \/ Alive(d)
      BY <3>1 DEF Begins, Stays, Alive
    <3>. QED
      BY <1>1, <2>1, <3>2, <3>3, <3>4 DEF TokensOK, Alive, Armed
  <2>. QED
    BY <2>2, <2>3
<1>4. ASSUME tokens' = tokens, NEW c \in Threads, Resumes(c)
      PROVE  TokensOK'
  <2>1. ~Armed' /\ Armed /\ run'.token = run.token /\ run'.enabled = run.enabled
    BY <1>4 DEF Resumes, Armed, SameRun
  <2>2. \A d \in Threads : co'[d].token = IF d = c THEN run.token ELSE co[d].token
    BY <1>4 DEF Resumes, Stays
  <2>3. \A d \in Threads : Alive(d)' => d = c \/ Alive(d)
    BY <1>4 DEF Resumes, Stays, Alive
  <2>4. run.token > 0 /\ run.token <= tokens
    BY <2>1 DEF TokensOK, Armed
  <2>. QED
    BY <1>1, <1>4, <2>1, <2>2, <2>3, <2>4 DEF TokensOK, Alive, Armed
<1>. QED
  BY <1>2, <1>3, <1>4, LifeCycle
-----------------------------------------------------------------------------
(* What a step leaves to the threads that do not take it.                  *)

\* The thread, its prompt and its hold on the run are as they were, or it lost the run.
Idles(d) ==
  /\ co'[d].pc = co[d].pc /\ co'[d].act = co[d].act /\ SameThread(d)
  /\ co'[d].cmd = "none" <=> co[d].cmd = "none"
  /\ Active(d)' => Active(d)
  /\ Prompted(d)' => Prompted(d) /\ run'.pending = run.pending
\* A thread's step leaves the other threads idle.
LEMMA OthersIdle ==
  ASSUME RunTyped, LegsOK, NEW c \in Threads, ThreadStep(c) \/ ThreadConflicts(c),
         NEW d \in Threads, d # c
  PROVE  co'[d] = co[d] /\ Idles(d) /\ (Prompted(d)' => run'.granted = run.granted)
<1>1. Stays(c)
  <2>1. CASE GivesUp(c) \/ ThreadConflicts(c)
    BY <2>1, LeavingFields DEF Refused, Leaves
  <2>2. CASE Prepare(c) \/ HandleLoaded(c) \/ Pick(c) \/ Ask(c) \/ Granted(c)
    BY <2>2, PrepareFields, HandleLoadedFields, PickFields, AskFields, GrantedFields
       DEF Leaves, GoesOn, Retried, Takes
  <2>3. CASE Position(c) \/ Machine(c) \/ CheckMill(c)
    BY <2>3, PositionFields, MachineFields, CheckMillFields DEF Leaves, GoesOn, Retried, Asked
  <2>4. CASE Send(c)
    BY <2>4, SendFields DEF SentRecord, Leaves
  <2>5. CASE Monitor(c) \/ PauseWait(c)
    BY <2>5, MonitorFields, PauseWaitFields DEF Cycled, Asked, Leaves, Stays
  <2>6. CASE Transfer(c) \/ MotionDone(c) \/ MotionFaults(c)
    BY <2>6, TransferFields, MotionDoneFields, MotionFaultsFields
       DEF Reserved, GoesOn, Retried, Asked, Leaves
  <2>7. CASE Finish(c) \/ Ending(c)
    BY <2>7, FinishFields, EndingFields DEF Leaves, Again
  <2>. QED
    BY <2>1, <2>2, <2>3, <2>4, <2>5, <2>6, <2>7 DEF ThreadStep
<1>2. SamePrompt \/ run'.asker \in {c, NoThread}
  <2>1. CASE GivesUp(c) \/ ThreadConflicts(c)
    BY <2>1, LeavingFields DEF Refused, SameRow
  <2>2. CASE Prepare(c) \/ HandleLoaded(c) \/ Pick(c) \/ Ask(c) \/ Granted(c)
    BY <2>2, PrepareFields, HandleLoadedFields, PickFields, AskFields, GrantedFields DEF Quiet, SameRow
  <2>3. CASE Position(c) \/ Machine(c) \/ CheckMill(c) \/ Send(c) \/ Monitor(c) \/ PauseWait(c)
    BY <2>3, PositionFields, MachineFields, CheckMillFields, SendFields, MonitorFields, PauseWaitFields
       DEF Quiet, SameRow
  <2>4. CASE Transfer(c) \/ MotionDone(c) \/ MotionFaults(c) \/ Finish(c) \/ Ending(c)
    BY <2>4, TransferFields, MotionDoneFields, MotionFaultsFields, FinishFields, EndingFields
       DEF SameRow, Disabled
  <2>. QED
    BY <2>1, <2>2, <2>3, <2>4 DEF ThreadStep
<1>3. co'[d] = co[d]
  BY <1>1 DEF Stays
<1>4. Active(d)' => Active(d)
  BY <1>3, ThreadOngoing DEF Ongoing, Active, TokenActive, Alive
<1>5. Prompted(d)' => Prompted(d) /\ run'.pending = run.pending /\ run'.granted = run.granted
  BY <1>2, <1>3, RunModeAssumption DEF Prompted, SamePrompt
<1>. QED
  BY <1>3, <1>4, <1>5 DEF Idles, SameThread

\* A thread that an operator's step begins.
News(d) == \/ Begun /\ Begins(d) /\ co'[d].pc = "prepare"
           \/ Begun /\ \E p \in InMill : Recovers(d, p)
           \/ Resumes(d)
\* The steps that are no thread's.
Others == Operator \/ PauseForManual \/ (\E normal \in BOOLEAN : MillEnds(normal)) \/ Restart
\* A step of nobody's thread leaves a thread idle, begins it, or ends it.
LEMMA OperatorIdle ==
  ASSUME RunTyped, TokensOK, Others, NEW d \in Threads
  PROVE  Idles(d) \/ News(d) \/ (co'[d].pc = "off" /\ co'[d].cmd = "none" /\ co'[d].late = 0)
<1>1. ASSUME co'[d] = co[d], SameRow \/ Disabled
      PROVE  Idles(d)
  BY <1>1, RunModeAssumption DEF Idles, SameThread, Active, TokenActive, Alive, Prompted, SameRow, SameRun, SamePrompt,
     Disabled
<1>2. ASSUME NEW end \in {"completed", "stopped"}, Seen(end), SameRow \/ Disabled
      PROVE  Idles(d)
  <2>1. /\ co'[d].pc = co[d].pc /\ co'[d].act = co[d].act /\ SameThread(d)
        /\ co'[d].cmd = "none" <=> co[d].cmd = "none"
    BY <1>2 DEF Seen
  <2>. QED
    BY <1>2, <2>1, RunModeAssumption DEF Idles, SameThread, Active, TokenActive, Alive, Prompted, SameRow, SameRun,
       SamePrompt, Disabled
<1>3. ASSUME co'[d] = co[d], Begun
      PROVE  Idles(d)
  <2>1. ~Active(d)'
    BY <1>3, NumbersTyped DEF Begun, TokensOK, Active, TokenActive
  <2>2. ~Prompted(d)'
    BY <1>3, RunModeAssumption DEF Begun, Prompted
  <2>. QED
    BY <1>3, <2>1, <2>2 DEF Idles, SameThread
<1>4. ASSUME NEW c \in Threads, Resumes(c)
      PROVE  Idles(d) \/ News(d)
  <2>1. CASE d = c
    BY <1>4, <2>1 DEF News
  <2>2. CASE d # c
    BY <1>4, <2>2 DEF Resumes, Stays, Idles, SameThread, Active, TokenActive, Alive, Prompted, SameRun, SamePrompt
  <2>. QED
    BY <2>1, <2>2
<1>5. CASE \E loaded \in LoadedActions \cup {"none"}, safe \in BOOLEAN : Start(loaded, safe)
  BY <1>3, <1>5, StartFields DEF Begins, Stays, News
<1>6. CASE \E strategy \in Strategies : StartRecovery(strategy)
  BY <1>3, <1>6, RecoveryFields DEF Recovers, Begins, Stays, News
<1>7. CASE Stop \/ CancelRecovery \/ Decline \/ ClearStatus
  BY <1>1, <1>7, DisableFields
<1>8. CASE Approve
  BY <1>8, ApproveFields DEF Idles, SameThread, Active, TokenActive, Alive, Prompted, SameRun
<1>9. CASE PauseForManual \/ ResumeManual
  BY <1>1, <1>9, PauseFields
<1>10. CASE \E p \in Pallets : QueuePallet(p) \/ Dequeue(p) \/ UpdatePallet(p)
  BY <1>1, <1>4, <1>10, EditFields
<1>11. CASE (\E p \in Pallets, place \in Places : Relocate(p, place)) \/ \E place \in Places : RecoverMotion(place)
  BY <1>1, <1>11, RelocateFields, RecoverFields
<1>12. CASE ControlMillStop \/ \E normal \in BOOLEAN : MillEnds(normal)
  BY <1>1, <1>2, <1>12, MillFields
<1>13. CASE Restart
  BY <1>13, RestartFields
<1>14. CASE DebugProgram
  <2>1. Rewatches(d) /\ SameRow
    BY <1>14, DebugFields
  <2>. QED
    BY <2>1, RunModeAssumption DEF Rewatches, Idles, SameThread, Active, TokenActive, Alive, Prompted, SameRow,
       SameRun, SamePrompt
<1>. QED
  BY <1>5, <1>6, <1>7, <1>8, <1>9, <1>10, <1>11, <1>12, <1>13, <1>14 DEF Others, Operator
-----------------------------------------------------------------------------
(* Legs, and the programs of a run that is over.                           *)

\* A thread that takes no step keeps its place in the cycle.
LEMMA LegKept ==
  ASSUME NEW d \in Threads, LegAt(d), Idles(d)
  PROVE  LegAt(d)'
BY DEF LegAt, Idles, SameThread, Works, Prompted, Wants

\* A thread that begins starts at a place of the cycle.
LEMMA LegBegun ==
  ASSUME NEW d \in Threads, News(d) \/ (co'[d].pc = "off" /\ co'[d].cmd = "none")
  PROVE  LegAt(d)'
<1>1. CASE co'[d].pc \in {"off", "prepare"} /\ co'[d].cmd = "none"
  BY <1>1 DEF LegAt, Works, Prompted, Wants
<1>2. CASE \E p \in InMill : Recovers(d, p)
  <2>1. PICK p \in InMill : Recovers(d, p)
    BY <1>2
  <2>2. /\ co'[d].pallet \in Pallets /\ co'[d].cmd = "none"
        /\ \/ co'[d].pc \in {"transfer", "position"} /\ co'[d].leg = "unloading"
           \/ co'[d].pc = "machine" /\ co'[d].leg = "machining"
    BY <2>1 DEF Recovers, Begins, InMill
  <2>. QED
    BY <2>2 DEF LegAt, Works, Prompted, Wants
<1>. QED
  BY <1>1, <1>2 DEF News, Begins, Resumes

\* A thread that takes a step comes to another place of the cycle.
LEMMA LegGoes ==
  ASSUME RunTyped, LegsOK, NEW c \in Threads, ThreadStep(c) \/ ThreadConflicts(c)
  PROVE  LegAt(c)'
<1>1. LegAt(c)
  BY DEF LegsOK
<1>2. Leaves(c) => LegAt(c)'
  BY DEF Leaves, LegAt, Works, Prompted, Wants
<1>3. ASSUME Retried(c), co[c].pc \notin {"ask", "wait"}
      PROVE  LegAt(c)'
  BY <1>1, <1>3 DEF Retried, GoesOn, SameThread, LegAt, Works, Prompted, Wants
<1>4. ASSUME NEW act \in Legs \cup Retries, Asked(c, act), Works(c),
             act \in Legs => act = co[c].leg, act = "retry_robot_transfer" => co[c].leg # "machining"
      PROVE  LegAt(c)'
  <2>1. act # "none"
    BY DEF Legs, Retries
  <2>. QED
    BY <1>1, <1>4, <2>1 DEF Asked, SameThread, LegAt, Works, Prompted, Wants
<1>5. ASSUME NEW leg \in Legs, NEW job, NEW p \in Pallets, Takes(c, leg, job, p), co[c].cmd = "none"
      PROVE  LegAt(c)'
  <2>1. leg \notin {"none", "retry_robot_transfer"}
    BY DEF Legs
  <2>. QED
    BY <1>5, <2>1 DEF Takes, LegAt, Works, Prompted, Wants
<1>6. CASE GivesUp(c) \/ ThreadConflicts(c) \/ Ending(c) \/ MotionFaults(c)
  BY <1>2, <1>6, LeavingFields, EndingFields, MotionFaultsFields DEF Refused
<1>7. CASE Prepare(c)
  <2>1. GoesOn(c, "loaded") => LegAt(c)'
    BY <1>1, <1>7, PrepareFields DEF GoesOn, SameThread, LegAt, Works, Prompted, Wants
  <2>. QED
    BY <1>2, <1>3, <1>7, <2>1, PrepareFields
<1>8. CASE HandleLoaded(c)
  <2>1. GoesOn(c, "pick") => LegAt(c)'
    BY <1>1, <1>8, HandleLoadedFields DEF GoesOn, SameThread, LegAt, Works, Prompted, Wants
  <2>2. LoadedLeg \in Legs /\ co[c].cmd = "none" /\ \A p \in InMill : p \in Pallets
    BY <1>1, <1>8, HandleLoadedFields, NamesTyped DEF LoadedLeg, LegAt, InMill
  <2>. QED
    BY <1>5, <1>8, <2>1, <2>2, HandleLoadedFields
<1>9. CASE Pick(c)
  BY <1>1, <1>2, <1>5, <1>9, PickFields, NamesTyped DEF LegAt
<1>10. CASE Ask(c)
  <2>1. co[c].act # "none" /\ co[c].cmd = "none" /\ co[c].pallet \in Pallets /\ co[c].pc = "ask"
    BY <1>1, <1>10, AskFields DEF LegAt, Works
  <2>2. CASE GoesOn(c, "wait") /\ run'.asker = c /\ run'.pending = co[c].act /\ run'.granted = FALSE
    <3>1. co[c].act # ""
      BY DEF RunTyped, Coordinators, Legs, Retries
    <3>. QED
      BY <1>1, <2>1, <2>2, <3>1 DEF GoesOn, SameThread, LegAt, Works, Prompted, Wants
  <2>3. CASE co[c].act \in Legs /\ GoesOn(c, After(co[c].act)) /\ SamePrompt
    <3>1. co[c].leg = co[c].act /\ co[c].act \in {"loading", "machining", "unloading"}
      BY <1>1, <2>1, <2>3 DEF LegAt, Wants, Legs
    <3>2. After(co[c].act) = IF co[c].act = "machining" THEN "machine" ELSE "position"
      BY <3>1 DEF After
    <3>. QED
      BY <2>1, <2>3, <3>1, <3>2 DEF GoesOn, SameThread, LegAt, Works, Prompted, Wants
  <2>. QED
    BY <1>10, <2>2, <2>3, AskFields
<1>11. CASE Granted(c)
  <2>1. /\ co[c].cmd = "none" /\ co[c].pallet \in Pallets /\ Prompted(c)
        /\ run.pending \in Legs \cup Retries /\ GoesOn(c, After(run.pending))
    BY <1>1, <1>11, GrantedFields DEF LegAt, Works, Prompted
  <2>2. /\ run.pending \in Legs => co[c].leg = run.pending
        /\ run.pending = "retry_robot_transfer" => co[c].leg # "machining"
    BY <1>1, <2>1 DEF LegAt, Wants
  <2>3. run.pending \in {"loading", "machining", "unloading", "retry_cnc_program", "retry_cnc_preflight",
                         "retry_robot_transfer"}
    BY <2>1 DEF Legs, Retries
  <2>4. After(run.pending) = IF run.pending = "machining" THEN "machine"
                             ELSE IF run.pending \in {"loading", "unloading"} THEN "position"
                             ELSE IF run.pending = "retry_robot_transfer" THEN "transfer" ELSE "cnc"
    BY <2>3 DEF After
  <2>. QED
    BY <2>1, <2>2, <2>3, <2>4 DEF GoesOn, SameThread, LegAt, Works, Prompted, Wants, Legs
<1>12. CASE Position(c) \/ Machine(c) \/ CheckMill(c)
  <2>1. \A to \in {"cnc", "send"} : GoesOn(c, to) => LegAt(c)'
    BY <1>1, <1>12, PositionFields, MachineFields, CheckMillFields
       DEF GoesOn, SameThread, LegAt, Works, Prompted, Wants
  <2>2. "retry_cnc_preflight" \in Retries \ Legs
    BY DEF Retries, Legs
  <2>. QED
    BY <1>2, <1>3, <1>4, <1>12, <2>1, <2>2, PositionFields, MachineFields, CheckMillFields DEF Works
<1>13. CASE Send(c)
  <2>1. PICK starts \in BOOLEAN, next \in {"monitor", "ask", "ending"} : SentRecord(c, starts, next)
    BY <1>13, SendFields
  <2>2. "retry_cnc_program" \notin Legs /\ co[c].pc = "send" /\ co[c].pallet \in Pallets
    BY <1>1, <1>13, SendFields DEF Legs, LegAt, Works
  <2>3. CASE next = "ending"
    BY <1>2, <2>1, <2>3 DEF SentRecord
  <2>4. CASE next = "monitor"
    BY <2>1, <2>2, <2>4 DEF SentRecord, LegAt, Works, Prompted, Wants
  <2>5. CASE next = "ask"
    BY <2>1, <2>2, <2>5 DEF SentRecord, LegAt, Works, Prompted, Wants
  <2>. QED
    BY <2>3, <2>4, <2>5
<1>14. CASE Monitor(c)
  <2>1. co[c].pc = "monitor" /\ SamePrompt
    BY <1>14, MonitorFields DEF Quiet, SameRow
  <2>2. Cycled(c) => LegAt(c)'
    BY <1>1, <2>1 DEF Cycled, LegAt, Works, Prompted, Wants
  <2>3. co' = co => LegAt(c)'
    BY <1>1, <2>1 DEF SamePrompt, LegAt, Works, Prompted, Wants
  <2>4. "retry_cnc_program" \in Retries \ Legs
    BY DEF Retries, Legs
  <2>. QED
    BY <1>2, <1>4, <1>14, <2>1, <2>2, <2>3, <2>4, MonitorFields DEF Works
<1>15. CASE PauseWait(c)
  BY <1>1, <1>4, <1>15, PauseWaitFields, NamesTyped DEF LegAt, Works
<1>16. CASE Transfer(c)
  <2>1. co[c].pc = "transfer" /\ co[c].leg # "machining"
    BY <1>1, <1>16, TransferFields DEF LegAt
  <2>2. GoesOn(c, "motion") => LegAt(c)'
    BY <1>1, <2>1 DEF GoesOn, SameThread, LegAt, Works, Prompted, Wants
  <2>3. "retry_robot_transfer" \in Retries \ Legs
    BY DEF Retries, Legs
  <2>. QED
    BY <1>3, <1>4, <1>16, <2>1, <2>2, <2>3, TransferFields DEF Reserved, Works
<1>17. CASE MotionDone(c)
  BY <1>1, <1>17, MotionDoneFields DEF Loads, Unloads, LegAt, Works, Prompted, Wants, Legs
<1>18. CASE Finish(c)
  <2>1. Again(c) => LegAt(c)'
    BY DEF Again, LegAt, Works, Prompted, Wants
  <2>. QED
    BY <1>2, <1>18, <2>1, FinishFields
<1>. QED
  BY <1>6, <1>7, <1>8, <1>9, <1>10, <1>11, <1>12, <1>13, <1>14, <1>15, <1>16, <1>17, <1>18 DEF ThreadStep

\* Every thread is at a place of the cycle.
LEMMA LegsStep ==
  ASSUME RunTyped, TokensOK, LegsOK, Next
  PROVE  LegsOK'
<1>1. CASE \E c \in Threads : ThreadStep(c) \/ ThreadConflicts(c)
  BY <1>1, LegGoes, LegKept, OthersIdle DEF LegsOK
<1>2. CASE Others
  BY <1>2, LegKept, LegBegun, OperatorIdle DEF LegsOK
<1>. QED
  BY <1>1, <1>2 DEF Next, Others

\* A thread whose run is over begins one program at most and then gives up.
LEMMA LateGoes ==
  ASSUME RunTyped, LegsOK, LateOK, NEW c \in Threads, ThreadStep(c) \/ ThreadConflicts(c)
  PROVE  LateAt(c)'
<1>1. LateAt(c)
  BY DEF LateOK
<1>2. Leaves(c) => LateAt(c)'
  BY DEF Leaves, LateAt
<1>3. CASE GivesUp(c) \/ ThreadConflicts(c) \/ Ending(c) \/ MotionFaults(c)
  BY <1>2, <1>3, LeavingFields, EndingFields, MotionFaultsFields DEF Refused
<1>4. CASE Send(c)
  <2>1. PICK starts \in BOOLEAN, next \in {"monitor", "ask", "ending"} : SentRecord(c, starts, next)
    BY <1>4, SendFields
  <2>2. co[c].late = 0 /\ SameRun
    BY <1>1, <1>4, SendFields DEF LateAt, SameRow
  <2>. QED
    BY <1>2, <2>1, <2>2 DEF SentRecord, LateAt, TokenActive, SameRun
<1>5. ASSUME co[c].late = 0, co'[c].late = co[c].late
      PROVE  LateAt(c)'
  BY <1>5 DEF LateAt
<1>6. CASE Prepare(c) \/ HandleLoaded(c) \/ Pick(c) \/ Ask(c) \/ Granted(c)
  <2>1. co[c].late = 0
    BY <1>1, <1>6, PrepareFields, HandleLoadedFields, PickFields, AskFields, GrantedFields DEF LateAt
  <2>2. Leaves(c) \/ co'[c].late = co[c].late
    BY <1>6, PrepareFields, HandleLoadedFields, PickFields, AskFields, GrantedFields
       DEF GoesOn, Retried, Takes, SameThread
  <2>. QED
    BY <1>2, <1>5, <2>1, <2>2
<1>7. CASE Position(c) \/ Machine(c) \/ CheckMill(c) \/ Monitor(c) \/ PauseWait(c)
  <2>1. co[c].late = 0
    BY <1>1, <1>7, PositionFields, MachineFields, CheckMillFields, MonitorFields, PauseWaitFields DEF LateAt
  <2>2. Leaves(c) \/ co'[c].late = co[c].late
    BY <1>7, PositionFields, MachineFields, CheckMillFields, MonitorFields, PauseWaitFields
       DEF GoesOn, Retried, Asked, Cycled, SameThread
  <2>. QED
    BY <1>2, <1>5, <2>1, <2>2
<1>8. CASE Transfer(c) \/ MotionDone(c) \/ Finish(c)
  <2>1. co[c].late = 0
    BY <1>1, <1>8, TransferFields, MotionDoneFields, FinishFields DEF LateAt
  <2>2. Leaves(c) \/ co'[c].late = co[c].late
    BY <1>8, TransferFields, MotionDoneFields, FinishFields
       DEF Reserved, GoesOn, Retried, Asked, Again, SameThread
  <2>. QED
    BY <1>2, <1>5, <2>1, <2>2
<1>. QED
  BY <1>3, <1>4, <1>6, <1>7, <1>8 DEF ThreadStep
\* No thread begins a second one.
LEMMA LateStep ==
  ASSUME RunTyped, LegsOK, TokensOK, LateOK, Next
  PROVE  LateOK'
<1>1. ASSUME NEW d \in Threads, Idles(d)
      PROVE  LateAt(d)'
  <2>1. LateAt(d)
    BY DEF LateOK
  <2>. QED
    BY <1>1, <2>1 DEF LateAt, Idles, SameThread, Active, Alive
<1>2. ASSUME NEW d \in Threads, News(d)
      PROVE  LateAt(d)'
  BY <1>2 DEF News, Begins, Recovers, Resumes, LateAt
<1>3. CASE \E c \in Threads : ThreadStep(c) \/ ThreadConflicts(c)
  BY <1>1, <1>3, LateGoes, OthersIdle DEF LateOK
<1>4. CASE Others
  <2>1. ASSUME NEW d \in Threads
        PROVE  LateAt(d)'
    BY <1>1, <1>2, <1>4, OperatorIdle DEF LateAt
  <2>. QED
    BY <2>1 DEF LateOK
<1>. QED
  BY <1>3, <1>4 DEF Next, Others
-----------------------------------------------------------------------------
(* The robot.                                                              *)

\* The steps of a thread that touch the locked motion.
MotionSteps(c) == Reserved(c) \/ MotionDone(c) \/ MotionFaults(c)
\* Every other step leaves it alone.
LEMMA MotionKept ==
  ASSUME RunTyped, LegsOK, NEW c \in Threads, ThreadStep(c) \/ ThreadConflicts(c)
  PROVE  motion' = motion \/ MotionSteps(c)
<1>1. CASE GivesUp(c) \/ ThreadConflicts(c)
  BY <1>1, LeavingFields DEF Refused, CellStays
<1>2. CASE Prepare(c) \/ HandleLoaded(c) \/ Pick(c) \/ Ask(c) \/ Granted(c)
  BY <1>2, PrepareFields, HandleLoadedFields, PickFields, AskFields, GrantedFields DEF Quiet, CellStays
<1>3. CASE Position(c) \/ Machine(c) \/ CheckMill(c) \/ Send(c) \/ Monitor(c) \/ PauseWait(c)
  BY <1>3, PositionFields, MachineFields, CheckMillFields, SendFields, MonitorFields, PauseWaitFields
     DEF Quiet, CellStays
<1>4. CASE Transfer(c) \/ MotionDone(c) \/ MotionFaults(c) \/ Finish(c) \/ Ending(c)
  BY <1>4, TransferFields, FinishFields, EndingFields DEF CellStays, MotionSteps
<1>. QED
  BY <1>1, <1>2, <1>3, <1>4 DEF ThreadStep

\* A thread gets to the robot's motion, and from it, by these steps only.
LEMMA AtMotion ==
  ASSUME RunTyped, LegsOK, NEW c \in Threads, ThreadStep(c) \/ ThreadConflicts(c)
  PROVE  /\ co'[c].pc = "motion" => Reserved(c) /\ co[c].pc = "transfer" /\ Active(c) /\ SameRow
         /\ co[c].pc = "motion" => MotionDone(c) \/ MotionFaults(c)
         /\ co[c].pc = "ending" => co'[c].pc = "off"
<1>1. LegAt(c)
  BY DEF LegsOK
<1>2. CASE GivesUp(c) \/ ThreadConflicts(c)
  <2>1. co[c].pc \notin {"motion", "ending"}
    BY <1>2 DEF GivesUp, ThreadConflicts, TokenChecked, Committing
  <2>. QED
    BY <1>2, <2>1, LeavingFields DEF Refused, Leaves
<1>3. CASE Prepare(c) \/ HandleLoaded(c) \/ Pick(c)
  BY <1>3, PrepareFields, HandleLoadedFields, PickFields DEF GoesOn, Retried, Takes, Leaves
<1>4. CASE Ask(c) \/ Granted(c)
  <2>1. \A action : After(action) # "motion"
    BY DEF After
  <2>2. co[c].pc \in {"ask", "wait"} /\ \E to : GoesOn(c, to) /\ to \in {"wait", After(co[c].act), After(run.pending)}
    BY <1>4, AskFields, GrantedFields
  <2>. QED
    BY <2>1, <2>2 DEF GoesOn
<1>5. CASE Position(c) \/ Machine(c) \/ CheckMill(c) \/ Monitor(c) \/ PauseWait(c)
  BY <1>5, PositionFields, MachineFields, CheckMillFields, MonitorFields, PauseWaitFields
     DEF GoesOn, Retried, Asked, Leaves, Cycled
<1>6. CASE Send(c)
  BY <1>6, SendFields DEF SentRecord, Leaves
<1>7. CASE Transfer(c)
  BY <1>7, TransferFields DEF Retried, GoesOn, Asked, Active, Alive
<1>8. CASE MotionDone(c) \/ MotionFaults(c)
  <2>1. co[c].pc = "motion" /\ co'[c].pc # "motion"
    BY <1>8, MotionDoneFields, MotionFaultsFields DEF Loads, Unloads, Leaves
  <2>. QED
    BY <1>8, <2>1
<1>9. CASE Finish(c) \/ Ending(c)
  BY <1>9, FinishFields, EndingFields DEF Again, Leaves
<1>. QED
  BY <1>2, <1>3, <1>4, <1>5, <1>6, <1>7, <1>8, <1>9 DEF ThreadStep

\* What the operator's steps do to the motion.
LEMMA MotionByOthers ==
  ASSUME RunTyped, Others
  PROVE  \/ motion' = motion /\ \A d \in Threads : co'[d].pc = "off" => co[d].pc = "off"
         \/ motion'.status = "none" /\ motion.status = "faulted" /\ SameRow /\ co' = co
         \/ ~run'.enabled /\ motion'.status # "running" /\ \A d \in Threads : co'[d].pc = "off"
<1>. DEFINE Alone == \A d \in Threads : co'[d].pc = "off" => co[d].pc = "off"
<1>1. \A end : Seen(end) => Alone
  BY DEF Seen
<1>2. \A c \in Threads : (Begins(c) /\ co'[c].pc # "off") \/ Resumes(c) => Alone
  BY DEF Begins, Resumes, Stays
<1>3. co' = co => Alone
  OBVIOUS
<1>. HIDE DEF Alone
<1>4. CASE \E loaded \in LoadedActions \cup {"none"}, safe \in BOOLEAN : Start(loaded, safe)
  BY <1>2, <1>3, <1>4, StartFields DEF Begun, Alone
<1>5. CASE \E strategy \in Strategies : StartRecovery(strategy)
  <2>1. \A c \in Threads, p \in InMill : Recovers(c, p) => Begins(c) /\ co'[c].pc # "off"
    BY DEF Recovers
  <2>. QED
    BY <1>2, <1>5, <2>1, RecoveryFields DEF Begun, Alone
<1>6. CASE Stop \/ CancelRecovery \/ Decline \/ ClearStatus \/ Approve \/ PauseForManual \/ ResumeManual
  BY <1>3, <1>6, DisableFields, ApproveFields, PauseFields DEF CellStays, Alone
<1>7. CASE \E p \in Pallets : QueuePallet(p) \/ Dequeue(p) \/ UpdatePallet(p)
  BY <1>2, <1>3, <1>7, EditFields DEF Alone
<1>8. CASE (\E p \in Pallets, place \in Places : Relocate(p, place)) \/ \E place \in Places : RecoverMotion(place)
  BY <1>3, <1>8, RelocateFields, RecoverFields DEF Alone
<1>9. CASE ControlMillStop \/ \E normal \in BOOLEAN : MillEnds(normal)
  BY <1>1, <1>9, MillFields DEF Alone
<1>10. CASE Restart
  BY <1>10, RestartFields
<1>11. CASE DebugProgram
  BY <1>11, DebugFields DEF Rewatches
<1>. QED
  BY <1>4, <1>5, <1>6, <1>7, <1>8, <1>9, <1>10, <1>11 DEF Others, Operator

\* A run that is armed or begins finds the robot free.
LEMMA NewsUnlocked ==
  ASSUME MotionOK, NEW d \in Threads, News(d)
  PROVE  ~Locked /\ co'[d].pc # "motion"
BY DEF News, Begins, Recovers, Resumes, Begun, MotionOK

\* The thread's own side of the motion it reserves or ends.
LEMMA MotionGoes ==
  ASSUME RunTyped, LegsOK, TokensOK, MotionOK, NEW c \in Threads, ThreadStep(c) \/ ThreadConflicts(c)
  PROVE  MotionAt(c)'
<1>1. co'[c].pc = "motion" => MotionAt(c)'
  <2>. SUFFICES ASSUME co'[c].pc = "motion"
                PROVE  MotionAt(c)'
    OBVIOUS
  <2>1. Reserved(c) /\ Active(c) /\ SameRow
    BY AtMotion
  <2>. QED
    BY <2>1 DEF MotionAt, Reserved, GoesOn, SameThread, SameRow, SameRun, Active, TokenActive
<1>2. ASSUME co'[c].pc # "motion", Locked', Active(c)'
      PROVE  co'[c].pc = "ending"
  <2>1. Active(c) /\ co[c].pc # "ending"
    BY <1>2, AtMotion, ThreadOngoing DEF Ongoing, Keeps, Active, TokenActive, Alive
  <2>2. ~Reserved(c)
    BY <1>2 DEF Reserved, GoesOn
  <2>3. CASE motion' = motion
    <3>1. co[c].pc = "motion"
      BY <1>2, <2>1, <2>3 DEF MotionOK, MotionAt, Locked
    <3>2. motion.status = "running" /\ motion'.status # "running"
      BY <3>1, AtMotion, MotionDoneFields, MotionFaultsFields
    <3>. QED
      BY <2>3, <3>2
  <2>4. CASE MotionDone(c)
    BY <1>2, <2>4, MotionDoneFields DEF Locked
  <2>5. CASE MotionFaults(c)
    BY <1>2, <2>5, MotionFaultsFields DEF Leaves, Active, Alive
  <2>. QED
    BY <2>2, <2>3, <2>4, <2>5, MotionKept DEF MotionSteps
<1>. QED
  BY <1>1, <1>2 DEF MotionAt

\* The locked motion stays one thread's.
LEMMA MotionStep ==
  ASSUME RunTyped, LegsOK, TokensOK, MotionOK, Next
  PROVE  MotionOK'
<1>1. ASSUME NEW c \in Threads, ThreadStep(c) \/ ThreadConflicts(c)
      PROVE  MotionOK'
  <2>1. Ongoing
    BY <1>1, ThreadOngoing
  <2>2. \A d \in Threads : d # c => co'[d] = co[d] /\ Idles(d)
    BY <1>1, OthersIdle
  <2>3. motion' = motion \/ MotionSteps(c)
    BY <1>1, MotionKept
  <2>4. Reserved(c) => ~Locked
    BY DEF Reserved, MayTransfer
  <2>5. \A d \in Threads : MotionAt(d)'
    <3>. SUFFICES ASSUME NEW d \in Threads, d # c
                  PROVE  MotionAt(d)'
      BY <1>1, MotionGoes
    <3>1. MotionAt(d) /\ co'[d] = co[d] /\ Idles(d)
      BY <2>2 DEF MotionOK
    <3>2. CASE motion' = motion
      BY <2>1, <3>1, <3>2 DEF MotionAt, Ongoing, Idles, Locked
    <3>3. CASE Reserved(c)
      <4>1. c = d \/ ~Active(d)
        <5>1. Active(c)
          BY <1>1, <3>3, AtMotion DEF Reserved, GoesOn
        <5>. QED
          BY <5>1 DEF TokensOK, Active, TokenActive
      <4>2. co[d].pc # "motion"
        BY <2>4, <3>1, <3>3 DEF MotionAt, Locked
      <4>. QED
        BY <3>1, <4>1, <4>2 DEF MotionAt, Idles
    <3>4. CASE MotionDone(c) \/ MotionFaults(c)
      <4>1. co[c].pc = "motion" /\ Locked
        BY <3>4, MotionDoneFields, MotionFaultsFields DEF Locked
      <4>2. co[d].pc # "motion"
        BY <4>1 DEF MotionOK
      <4>. QED
        BY <3>1, <4>1, <4>2 DEF MotionAt, Idles
    <3>. QED
      BY <2>3, <3>2, <3>3, <3>4 DEF MotionSteps
  <2>6. motion'.status = "running" => \E d \in Threads : co'[d].pc = "motion"
    <3>1. CASE motion' = motion /\ motion'.status = "running"
      <4>1. PICK d \in Threads : co[d].pc = "motion"
        BY <3>1 DEF MotionOK
      <4>2. d # c
        BY <1>1, <3>1, <4>1, AtMotion, MotionDoneFields, MotionFaultsFields
      <4>. QED
        BY <2>2, <4>1, <4>2
    <3>2. CASE Reserved(c)
      BY <3>2 DEF Reserved, GoesOn
    <3>. QED
      BY <2>3, <3>1, <3>2, MotionDoneFields, MotionFaultsFields DEF MotionSteps
  <2>7. \A d, e \in Threads : co'[d].pc = "motion" /\ co'[e].pc = "motion" => d = e
    <3>1. CASE Reserved(c)
      <4>1. \A d \in Threads : co[d].pc # "motion"
        BY <2>4, <3>1 DEF MotionOK, MotionAt, Locked
      <4>. QED
        BY <2>2, <4>1
    <3>2. CASE ~Reserved(c)
      <4>1. co'[c].pc # "motion"
        BY <1>1, <3>2, AtMotion
      <4>. QED
        BY <2>2, <4>1 DEF MotionOK
    <3>. QED
      BY <3>1, <3>2
  <2>8. Locked' => ~Armed'
    <3>1. CASE Reserved(c)
      <4>1. Active(c) /\ SameRow
        BY <1>1, <3>1, AtMotion DEF Reserved, GoesOn
      <4>2. ~Armed
        BY <4>1 DEF TokensOK, Active, TokenActive
      <4>. QED
        BY <4>1, <4>2 DEF SameRow, SameRun, NotArmed, Armed
    <3>2. CASE ~Reserved(c) /\ Locked'
      <4>1. Locked
        BY <2>3, <3>2, MotionDoneFields, MotionFaultsFields DEF MotionSteps, Locked
      <4>. QED
        BY <2>1, <4>1 DEF Ongoing, Rearmed, MotionOK, MotionAt
    <3>. QED
      BY <3>1, <3>2
  <2>. QED
    BY <2>5, <2>6, <2>7, <2>8 DEF MotionOK
<1>2. CASE Others
  <2>1. CASE motion' = motion /\ \A d \in Threads : co'[d].pc = "off" => co[d].pc = "off"
    <3>1. \A d \in Threads : MotionAt(d)'
      <4>. SUFFICES ASSUME NEW d \in Threads
                    PROVE  MotionAt(d)'
        OBVIOUS
      <4>1. CASE Idles(d)
        <5>1. MotionAt(d) /\ co'[d].pc = co[d].pc /\ SameThread(d) /\ (Active(d)' => Active(d))
          BY <4>1 DEF MotionOK, Idles
        <5>2. Locked /\ run'.enabled => run.enabled /\ run'.token = run.token
          BY LifeCycle DEF Ongoing, Starts, Begun, Resumes, SameRun
        <5>. QED
          BY <2>1, <5>1, <5>2 DEF MotionAt, SameThread, Locked
      <4>2. CASE News(d)
        BY <2>1, <4>2, NewsUnlocked DEF MotionAt, Locked
      <4>. QED
        BY <1>2, <4>1, <4>2, OperatorIdle DEF MotionAt, Active, Alive
    <3>2. \A d \in Threads : co'[d].pc = "motion" => co[d].pc = "motion"
      BY <1>2, OperatorIdle, NewsUnlocked DEF Idles
    <3>3. motion'.status = "running" => \E d \in Threads : co'[d].pc = "motion"
      <4>. SUFFICES ASSUME motion'.status = "running"
                    PROVE  \E d \in Threads : co'[d].pc = "motion"
        OBVIOUS
      <4>1. PICK d \in Threads : co[d].pc = "motion"
        BY <2>1 DEF MotionOK
      <4>2. ~News(d)
        BY <2>1, NewsUnlocked DEF Locked
      <4>3. co'[d].pc # "off"
        BY <2>1, <4>1
      <4>. QED
        BY <1>2, <4>1, <4>2, <4>3, OperatorIdle DEF Idles
    <3>4. Locked' => ~Armed'
      <4>. SUFFICES ASSUME Locked
                    PROVE  ~Armed'
        BY <2>1 DEF Locked
      <4>1. Ongoing
        BY LifeCycle DEF Starts, Begun, Resumes, MotionOK
      <4>. QED
        BY <4>1 DEF Ongoing, Rearmed, MotionOK, MotionAt
    <3>. QED
      BY <3>1, <3>2, <3>3, <3>4 DEF MotionOK
  <2>2. CASE motion'.status = "none" /\ motion.status = "faulted" /\ SameRow /\ co' = co
    <3>1. \A d \in Threads : co[d].pc # "motion"
      BY <2>2 DEF MotionOK, MotionAt
    <3>. QED
      BY <2>2, <3>1 DEF MotionOK, MotionAt, Locked
  <2>3. CASE ~run'.enabled /\ motion'.status # "running" /\ \A d \in Threads : co'[d].pc = "off"
    BY <2>3 DEF MotionOK, MotionAt, Active, Alive, Armed
  <2>. QED
    BY <1>2, <2>1, <2>2, <2>3, MotionByOthers
<1>. QED
  BY <1>1, <1>2 DEF Next, Others
-----------------------------------------------------------------------------
(* The pallet in the mill.                                                 *)

\* The kinds of a thread's step: it leaves, it is between two pallets, it takes
\* one, it goes on with it, its program has ended, or its pallet has moved.
Between(c) == /\ co[c].pc \in {"prepare", "loaded", "finish"} /\ co'[c].cmd = "none"
              /\ co'[c].pc \in {"prepare", "loaded", "pick"}
SameWork(c) == /\ co'[c].token = co[c].token /\ co'[c].leg = co[c].leg /\ co'[c].job = co[c].job
               /\ co'[c].pallet = co[c].pallet /\ co'[c].earned = co[c].earned
GoesOnWith(c) == /\ Works(c) /\ co[c].pc \notin {"finish", "motion"} /\ SameWork(c)
                 /\ co'[c].pc \notin {"prepare", "loaded", "pick", "finish"} /\ (co'[c].cmd = "none" \/ co'[c].cmd = co[c].cmd \/ Send(c))
\* The kinds of step a thread can take.
LEMMA ThreadKinds ==
  ASSUME RunTyped, LegsOK, NEW c \in Threads, ThreadStep(c) \/ ThreadConflicts(c)
  PROVE  \/ Leaves(c) \/ Between(c) \/ MotionDone(c) \/ GoesOnWith(c)
         \/ HandleLoaded(c) /\ \E p \in InMill : run.loaded \in LoadedActions /\ Takes(c, LoadedLeg, run.loaded, p)
         \/ Pick(c) /\ \E p \in Pallets : Takes(c, "loading", "queue", p)
         \/ Monitor(c) /\ Cycled(c)
<1>1. LegAt(c)
  BY DEF LegsOK
<1>2. CASE GivesUp(c) \/ ThreadConflicts(c) \/ Ending(c) \/ MotionFaults(c)
  BY <1>2, LeavingFields, EndingFields, MotionFaultsFields DEF Refused
<1>3. CASE Prepare(c) \/ HandleLoaded(c) \/ Pick(c)
  BY <1>1, <1>3, PrepareFields, HandleLoadedFields, PickFields DEF Between, Retried, GoesOn, LegAt
<1>4. CASE Ask(c) \/ Granted(c)
  <2>1. \A action : After(action) \notin {"prepare", "loaded", "pick", "finish"}
    BY DEF After
  <2>2. co[c].pc \in {"ask", "wait"}
    BY <1>4, AskFields, GrantedFields
  <2>3. GoesOn(c, "wait") \/ GoesOn(c, After(co[c].act)) \/ GoesOn(c, After(run.pending))
    BY <1>4, AskFields, GrantedFields
  <2>4. SameThread(c) /\ co'[c].cmd = co[c].cmd /\ co'[c].pc \notin {"prepare", "loaded", "pick", "finish"}
    BY <2>1, <2>3 DEF GoesOn
  <2>. QED
    BY <2>2, <2>4 DEF SameThread, SameWork, GoesOnWith, Works
<1>5. CASE Position(c) \/ Machine(c) \/ CheckMill(c) \/ PauseWait(c)
  BY <1>5, PositionFields, MachineFields, CheckMillFields, PauseWaitFields
     DEF GoesOn, Retried, Asked, SameThread, SameWork, GoesOnWith, Works
<1>6. CASE Send(c)
  BY <1>6, SendFields DEF SentRecord, GoesOnWith, SameWork, Works
<1>7. CASE Monitor(c)
  <2>1. co[c].pc = "monitor" /\ (Cycled(c) \/ Asked(c, "retry_cnc_program") \/ Leaves(c) \/ co' = co)
    BY <1>7, MonitorFields
  <2>. QED
    BY <1>7, <2>1 DEF Asked, GoesOnWith, SameThread, SameWork, Works
<1>8. CASE Transfer(c)
  BY <1>8, TransferFields DEF Reserved, GoesOn, Retried, Asked, SameThread, SameWork, GoesOnWith, Works
<1>9. CASE MotionDone(c)
  BY <1>9
<1>10. CASE Finish(c)
  BY <1>10, FinishFields DEF Again, Between
<1>. QED
  BY <1>2, <1>3, <1>4, <1>5, <1>6, <1>7, <1>8, <1>9, <1>10 DEF ThreadStep

\* Only the end of a motion moves a pallet in a thread's step.
LEMMA LocKept ==
  ASSUME RunTyped, LegsOK, NEW c \in Threads, ThreadStep(c) \/ ThreadConflicts(c), ~MotionDone(c)
  PROVE  loc' = loc /\ machined' = machined /\ (Send(c) \/ (mill' = mill /\ begun' = begun))
<1>1. CASE GivesUp(c) \/ ThreadConflicts(c)
  BY <1>1, LeavingFields DEF Refused, CellStays
<1>2. CASE Prepare(c) \/ HandleLoaded(c) \/ Pick(c) \/ Ask(c) \/ Granted(c)
  BY <1>2, PrepareFields, HandleLoadedFields, PickFields, AskFields, GrantedFields DEF Quiet, CellStays
<1>3. CASE Position(c) \/ Machine(c) \/ CheckMill(c) \/ Send(c) \/ Monitor(c) \/ PauseWait(c)
  BY <1>3, PositionFields, MachineFields, CheckMillFields, SendFields, MonitorFields, PauseWaitFields
     DEF Quiet, CellStays
<1>4. CASE Transfer(c) \/ MotionFaults(c) \/ Finish(c) \/ Ending(c)
  BY <1>4, TransferFields, MotionFaultsFields, FinishFields, EndingFields DEF CellStays
<1>. QED
  BY <1>1, <1>2, <1>3, <1>4 DEF ThreadStep

\* While the pallets stay where they are, so do the claims of an idle thread.
LEMMA StayKept ==
  ASSUME NEW d \in Threads, StayAt(d), Idles(d), loc' = loc
  PROVE  StayAt(d)'
BY DEF StayAt, Idles, SameThread, Works, InMill

\* The thread's own pallet is in the mill, or has left it.
LEMMA StayGoes ==
  ASSUME RunTyped, LegsOK, TokensOK, MotionOK, StayOK, NEW c \in Threads, ThreadStep(c) \/ ThreadConflicts(c)
  PROVE  StayAt(c)'
<1>1. StayAt(c) /\ LegAt(c) /\ MotionAt(c) /\ (Active(c)' => Active(c) \/ ~Alive(c))
  BY ThreadOngoing DEF StayOK, LegsOK, MotionOK, Ongoing, Keeps, Active, TokenActive
<1>2. CASE Leaves(c) \/ Between(c)
  BY <1>2 DEF Leaves, Between, StayAt, Works
<1>3. CASE GoesOnWith(c) /\ ~MotionDone(c)
  <2>1. loc' = loc /\ co'[c].leg = co[c].leg /\ co'[c].pallet = co[c].pallet
    BY <1>3, LocKept DEF GoesOnWith, SameWork
  <2>2. co'[c].pc = "motion" => Active(c)
    BY AtMotion
  <2>3. Active(c)' => Active(c)
    BY <1>1, <1>3 DEF GoesOnWith, Works, Alive
  <2>. QED
    BY <1>1, <1>3, <2>1, <2>2, <2>3 DEF GoesOnWith, StayAt
<1>4. CASE HandleLoaded(c) /\ \E p \in InMill : run.loaded \in LoadedActions /\ Takes(c, LoadedLeg, run.loaded, p)
  <2>1. loc' = loc
    BY <1>4, HandleLoadedFields DEF Quiet, CellStays
  <2>. QED
    BY <1>4, <2>1 DEF Takes, StayAt, InMill
<1>5. CASE Pick(c) /\ \E p \in Pallets : Takes(c, "loading", "queue", p)
  BY <1>5 DEF Takes, StayAt
<1>6. CASE Monitor(c) /\ Cycled(c)
  <2>1. loc' = loc /\ co[c].pc = "monitor" /\ Active(c)
    BY <1>6, MonitorFields DEF Quiet, CellStays, Active, Alive
  <2>. QED
    BY <1>1, <1>6, <2>1 DEF Cycled, StayAt, Works
<1>7. CASE MotionDone(c)
  <2>1. co[c].pallet = motion.pallet /\ co'[c].pallet = motion.pallet /\ motion.pallet \in Pallets /\ co[c].pc = "motion"
    BY <1>1, <1>7, MotionDoneFields DEF MotionAt, LegAt, Works
  <2>2. CASE Loads(c)
    BY <2>1, <2>2 DEF Loads, StayAt, RunTyped
  <2>3. CASE Unloads(c)
    <3>1. co[c].leg # "loading"
      BY <1>1, <2>1, <2>3 DEF Unloads, MotionAt
    <3>2. loc[motion.pallet] = "machine"
      BY <1>1, <2>1, <3>1 DEF StayAt, Works
    <3>3. \A p \in Pallets : loc'[p] # "machine"
      BY <2>1, <2>3, <3>2 DEF Unloads, StayOK, InMill, RunTyped
    <3>. QED
      BY <2>3, <3>3 DEF Unloads, StayAt, InMill
  <2>. QED
    BY <1>7, <2>2, <2>3, MotionDoneFields
<1>. QED
  BY <1>2, <1>3, <1>4, <1>5, <1>6, <1>7, ThreadKinds

\* What an operator's step does to the places: nothing; a pallet that no thread
\* counts on goes to the pool, or is moved by hand; or a faulted motion is recovered.
Pooled(p) == /\ motion' = motion /\ mill' = mill /\ motion.pallet # p /\ loc' = [loc EXCEPT ![p] = "pool"]
             /\ IF loc[p] = "machine" THEN ~run.enabled /\ NewStay(p) ELSE UNCHANGED seen
Moved(p, place) ==
  /\ SameRow /\ run' = run /\ co' = co /\ motion' = motion /\ mill' = mill /\ ~Locked
  /\ (run.enabled => loc[p] # "machine" /\ place # "machine")
  /\ (place = "machine" => InMill = {}) /\ loc' = [loc EXCEPT ![p] = place] /\ NewStay(p)
Settled(p, place) ==
  /\ SameRow /\ run' = run /\ co' = co /\ mill' = mill /\ motion.status = "faulted" /\ motion'.status = "none"
  /\ p = motion.pallet /\ (place = "machine" => InMill \subseteq {p})
  /\ loc' = [loc EXCEPT ![p] = place] /\ IF place = loc[p] THEN UNCHANGED seen ELSE NewStay(p)
\* How a step of nobody's thread may move a pallet.
LEMMA PlacesByOthers ==
  ASSUME RunTyped, Others
  PROVE  \/ loc' = loc
         \/ \E p \in Pallets : Pooled(p)
         \/ \E p \in Pallets, place \in Places : Moved(p, place)
         \/ \E p \in Pallets \cup {NoPallet}, place \in Places : Settled(p, place)
<1>1. CASE \E loaded \in LoadedActions \cup {"none"}, safe \in BOOLEAN : Start(loaded, safe)
  BY <1>1, StartFields DEF Begun
<1>2. CASE \E strategy \in Strategies : StartRecovery(strategy)
  BY <1>2, RecoveryFields DEF Begun
<1>3. CASE Stop \/ CancelRecovery \/ Decline \/ ClearStatus \/ Approve \/ PauseForManual \/ ResumeManual
  BY <1>3, DisableFields, ApproveFields, PauseFields DEF CellStays
<1>4. CASE \E p \in Pallets : QueuePallet(p) \/ Dequeue(p) \/ UpdatePallet(p)
  BY <1>4, EditFields DEF Pooled
<1>5. CASE \E p \in Pallets, place \in Places : Relocate(p, place)
  BY <1>5, RelocateFields DEF Moved
<1>6. CASE \E place \in Places : RecoverMotion(place)
  <2>1. motion.pallet \in Pallets \cup {NoPallet}
    BY DEF RunTyped, Motions
  <2>2. PICK place \in Places : RecoverMotion(place)
    BY <1>6
  <2>3. Settled(motion.pallet, place)
    BY <2>2, RecoverFields DEF Settled
  <2>. QED
    BY <2>1, <2>3
<1>7. CASE ControlMillStop \/ \E normal \in BOOLEAN : MillEnds(normal)
  BY <1>7, MillFields
<1>8. CASE Restart \/ DebugProgram
  BY <1>8, RestartFields, DebugFields
<1>. QED
  BY <1>1, <1>2, <1>3, <1>4, <1>5, <1>6, <1>7, <1>8 DEF Others, Operator
\* The claims of an idle thread survive what an operator does to the places.
LEMMA StayMoved ==
  ASSUME RunTyped, MotionOK, StayOK, NEW d \in Threads, Idles(d),
         \/ \E p \in Pallets : Pooled(p)
         \/ \E p \in Pallets, place \in Places : Moved(p, place)
         \/ \E p \in Pallets \cup {NoPallet}, place \in Places : Settled(p, place)
  PROVE  StayAt(d)'
<1>1. /\ StayAt(d) /\ MotionAt(d) /\ co'[d].pc = co[d].pc /\ co'[d].leg = co[d].leg
      /\ co'[d].pallet = co[d].pallet /\ (Active(d)' => Active(d)) /\ loc \in [Pallets -> Places]
  BY DEF StayOK, MotionOK, Idles, SameThread, RunTyped
<1>2. ASSUME NEW p \in Pallets, Pooled(p)
      PROVE  StayAt(d)'
  <2>1. loc' = [loc EXCEPT ![p] = "pool"] /\ motion.pallet # p /\ (loc[p] = "machine" => ~run.enabled)
    BY <1>2 DEF Pooled
  <2>2. \A q : q # p \/ loc[p] # "machine" => (loc[q] = "machine" => loc'[q] = "machine")
    BY <1>1, <2>1
  <2>3. \A q \in Pallets : loc'[q] = "machine" => loc[q] = "machine"
    BY <1>1, <2>1
  <2>4. co[d].pc = "motion" => co[d].pallet # p
    BY <1>1, <2>1 DEF MotionAt
  <2>5. loc[p] = "machine" => ~Active(d)
    BY <2>1 DEF Active, TokenActive
  <2>. QED
    BY <1>1, <2>2, <2>3, <2>4, <2>5 DEF StayAt, Works, InMill
<1>3. ASSUME NEW p \in Pallets, NEW place \in Places, Moved(p, place)
      PROVE  StayAt(d)'
  <2>1. loc' = [loc EXCEPT ![p] = place] /\ ~Locked /\ (run.enabled => loc[p] # "machine" /\ place # "machine")
    BY <1>3 DEF Moved
  <2>2. co[d].pc # "motion"
    BY <1>1, <2>1 DEF MotionAt, Locked
  <2>3. Active(d) => run.enabled
    BY DEF Active, TokenActive
  <2>4. run.enabled => \A q : loc[q] = "machine" => loc'[q] = "machine"
    BY <1>1, <2>1
  <2>5. run.enabled => \A q \in Pallets : loc'[q] = "machine" => loc[q] = "machine"
    BY <1>1, <2>1
  <2>. QED
    BY <1>1, <2>2, <2>3, <2>4, <2>5 DEF StayAt, Works, InMill
<1>4. ASSUME NEW p \in Pallets \cup {NoPallet}, NEW place \in Places, Settled(p, place)
      PROVE  StayAt(d)'
  <2>1. motion.status = "faulted" /\ Locked
    BY <1>4 DEF Settled, Locked
  <2>2. co[d].pc # "motion" /\ (Active(d) => co[d].pc = "ending")
    BY <1>1, <2>1 DEF MotionAt
  <2>. QED
    BY <1>1, <2>2 DEF StayAt, Works
<1>. QED
  BY <1>2, <1>3, <1>4

\* At most one pallet is in the mill, and the run in force keeps it there.
LEMMA StayStep ==
  ASSUME RunTyped, LegsOK, TokensOK, MotionOK, StayOK, Next
  PROVE  StayOK'
<1>1. loc \in [Pallets -> Places] /\ (\A p, q \in InMill : p = q)
        /\ (motion.status = "running" /\ motion.op = "load" => InMill = {})
  BY DEF RunTyped, StayOK
<1>2. ASSUME NEW c \in Threads, ThreadStep(c) \/ ThreadConflicts(c), MotionDone(c)
      PROVE  StayOK'
  <2>1. /\ co[c].pc = "motion" /\ motion.status = "running" /\ motion'.status = "none" /\ Locked
        /\ Loads(c) \/ Unloads(c)
    BY <1>2, MotionDoneFields DEF Locked
  <2>2. \A p, q \in InMill' : p = q
    BY <1>1, <2>1 DEF Loads, Unloads, InMill
  <2>3. ASSUME NEW d \in Threads, d # c
        PROVE  StayAt(d)'
    <3>1. Idles(d) /\ MotionAt(d) /\ co[d].pc # "motion"
      BY <1>2, <2>1, <2>3, OthersIdle DEF MotionOK
    <3>2. Active(d) => co[d].pc = "ending"
      BY <2>1, <3>1 DEF MotionAt
    <3>. QED
      BY <3>1, <3>2 DEF Idles, StayAt, Works
  <2>. QED
    BY <1>2, <2>1, <2>2, <2>3, StayGoes DEF StayOK
<1>3. ASSUME NEW c \in Threads, ThreadStep(c) \/ ThreadConflicts(c), ~MotionDone(c)
      PROVE  StayOK'
  <2>1. loc' = loc
    BY <1>3, LocKept
  <2>2. motion'.status = "running" /\ motion'.op = "load" => InMill = {}
    <3>1. CASE motion' = motion
      BY <1>1, <3>1
    <3>2. CASE Reserved(c)
      BY <3>2 DEF Reserved, MayTransfer
    <3>3. CASE MotionFaults(c)
      BY <3>3, MotionFaultsFields
    <3>. QED
      BY <1>3, <3>1, <3>2, <3>3, MotionKept DEF MotionSteps
  <2>3. \A d \in Threads : StayAt(d)'
    BY <1>3, <2>1, OthersIdle, StayKept, StayGoes DEF StayOK
  <2>. QED
    BY <1>1, <2>1, <2>2, <2>3 DEF StayOK, InMill
<1>4. CASE Others
  <2>1. ASSUME NEW d \in Threads, ~Idles(d)
        PROVE  StayAt(d)'
    <3>1. CASE Begun /\ \E p \in InMill : Recovers(d, p)
      BY <3>1 DEF Begun, Recovers, StayAt, InMill
    <3>2. CASE co'[d].pc \in {"prepare", "off"}
      BY <3>2 DEF StayAt, Works
    <3>. QED
      BY <1>4, <2>1, <3>1, <3>2, OperatorIdle DEF News, Resumes
  <2>2. CASE loc' = loc
    <3>1. \A d \in Threads : StayAt(d)'
      BY <2>1, <2>2, StayKept DEF StayOK
    <3>. QED
      BY <1>1, <1>4, <2>2, <3>1, MotionByOthers DEF StayOK, InMill
  <2>3. CASE \E p \in Pallets : Pooled(p)
    <3>1. \A d \in Threads : StayAt(d)'
      BY <2>1, <2>3, StayMoved
    <3>2. InMill' \subseteq InMill /\ motion' = motion
      BY <1>1, <2>3 DEF Pooled, InMill
    <3>. QED
      BY <1>1, <3>1, <3>2 DEF StayOK
  <2>4. CASE \E p \in Pallets, place \in Places : Moved(p, place)
    <3>1. \A d \in Threads : StayAt(d)'
      BY <2>1, <2>4, StayMoved
    <3>2. motion'.status # "running"
      BY <2>4 DEF Moved, Locked
    <3>3. \A p, q \in InMill' : p = q
      BY <1>1, <2>4 DEF Moved, InMill
    <3>. QED
      BY <3>1, <3>2, <3>3 DEF StayOK
  <2>5. CASE \E p \in Pallets \cup {NoPallet}, place \in Places : Settled(p, place)
    <3>1. \A d \in Threads : StayAt(d)'
      BY <2>1, <2>5, StayMoved
    <3>2. motion'.status # "running"
      BY <2>5 DEF Settled
    <3>3. \A p, q \in InMill' : p = q
      BY <1>1, <2>5 DEF Settled, InMill
    <3>. QED
      BY <3>1, <3>2, <3>3 DEF StayOK
  <2>. QED
    BY <1>4, <2>2, <2>3, <2>4, <2>5, PlacesByOthers
<1>. QED
  BY <1>2, <1>3, <1>4 DEF Next, Others
-----------------------------------------------------------------------------
(* The mill.                                                               *)

\* A thread comes to the transfer from the end of a program, or from the
\* question whether to try it again.
ToTransfer(c) == co[c].pc = "transfer" \/ Wants(c, "retry_robot_transfer")
\* A thread is on its way to the transfer only if it was.
LEMMA TransferKept ==
  ASSUME RunTyped, LegsOK, NEW c \in Threads, ThreadStep(c) \/ ThreadConflicts(c), ToTransfer(c)'
  PROVE  (Active(c) /\ ToTransfer(c)) \/ (Monitor(c) /\ Cycled(c))
<1>1. LegAt(c)
  BY DEF LegsOK
<1>2. CASE GivesUp(c) \/ ThreadConflicts(c) \/ MotionFaults(c) \/ Ending(c)
  BY <1>2, LeavingFields, MotionFaultsFields, EndingFields DEF Refused, Leaves, ToTransfer, Wants, Prompted
<1>3. CASE Prepare(c) \/ HandleLoaded(c) \/ Pick(c)
  <2>1. LoadedLeg # "retry_robot_transfer"
    BY DEF LoadedLeg
  <2>. QED
    BY <1>3, <2>1, PrepareFields, HandleLoadedFields, PickFields
       DEF GoesOn, Retried, Takes, Leaves, ToTransfer, Wants, Prompted
<1>4. CASE Ask(c)
  <2>1. CASE GoesOn(c, "wait") /\ run'.asker = c /\ run'.pending = co[c].act /\ run'.granted = FALSE
    BY <1>4, <2>1, AskFields DEF GoesOn, ToTransfer, Wants, Prompted, Active, Alive
  <2>2. CASE co[c].act \in Legs /\ GoesOn(c, After(co[c].act)) /\ SamePrompt
    <3>1. After(co[c].act) \in {"position", "machine"}
      BY <2>2 DEF After, Legs
    <3>. QED
      BY <2>2, <3>1 DEF GoesOn, ToTransfer, Wants, Prompted
  <2>. QED
    BY <1>4, <2>1, <2>2, AskFields
<1>5. CASE Granted(c)
  <2>1. /\ Active(c) /\ Prompted(c) /\ run.pending \in Legs \cup Retries /\ GoesOn(c, After(run.pending))
    BY <1>5, GrantedFields DEF Active, Alive, Prompted
  <2>2. After(run.pending) \in {"position", "machine", "cnc", "transfer"}
          /\ (After(run.pending) = "transfer" => run.pending = "retry_robot_transfer")
    BY <2>1 DEF After, Legs, Retries
  <2>. QED
    BY <2>1, <2>2 DEF GoesOn, ToTransfer, Wants, Prompted
<1>6. CASE Position(c) \/ Machine(c) \/ CheckMill(c) \/ PauseWait(c)
  BY <1>6, PositionFields, MachineFields, CheckMillFields, PauseWaitFields
     DEF GoesOn, Retried, Asked, Leaves, ToTransfer, Wants, Prompted
<1>7. CASE Send(c)
  BY <1>7, SendFields DEF SentRecord, Leaves, ToTransfer, Wants, Prompted
<1>8. CASE Monitor(c)
  <2>1. co[c].pc = "monitor" /\ (Cycled(c) \/ Asked(c, "retry_cnc_program") \/ Leaves(c) \/ co' = co)
    BY <1>8, MonitorFields
  <2>. QED
    BY <1>8, <2>1 DEF Asked, Leaves, ToTransfer, Wants, Prompted
<1>9. CASE Transfer(c)
  BY <1>9, TransferFields DEF Active, Alive, ToTransfer
<1>10. CASE MotionDone(c)
  BY <1>10, MotionDoneFields DEF Loads, Unloads, ToTransfer, Wants, Prompted
<1>11. CASE Finish(c)
  BY <1>11, FinishFields DEF Leaves, Again, ToTransfer, Wants, Prompted
<1>. QED
  BY <1>2, <1>3, <1>4, <1>5, <1>6, <1>7, <1>8, <1>9, <1>10, <1>11 DEF ThreadStep

\* What an operator's step or the mill does to the program.
LEMMA MillByOthers ==
  ASSUME RunTyped, Others, NEW d \in Threads, Idles(d)
  PROVE  \/ mill' = mill /\ co'[d].cmd = co[d].cmd
         \/ mill'.program = "none" /\ co'[d].cmd # "running"
         \/ DebugProgram
<1>1. co'[d].cmd = "none" <=> co[d].cmd = "none"
  BY DEF Idles
<1>2. \A c \in Threads : Begins(c) \/ Resumes(c) => co'[d].cmd = co[d].cmd
  BY <1>1 DEF Begins, Resumes, Stays
<1>3. CASE \E loaded \in LoadedActions \cup {"none"}, safe \in BOOLEAN : Start(loaded, safe)
  BY <1>2, <1>3, StartFields DEF Begun
<1>4. CASE \E strategy \in Strategies : StartRecovery(strategy)
  BY <1>2, <1>4, RecoveryFields DEF Begun, Recovers
<1>5. CASE Stop \/ CancelRecovery \/ Decline \/ ClearStatus \/ Approve \/ PauseForManual \/ ResumeManual
  BY <1>5, DisableFields, ApproveFields, PauseFields DEF CellStays
<1>6. CASE \E p \in Pallets : QueuePallet(p) \/ Dequeue(p) \/ UpdatePallet(p)
  BY <1>2, <1>6, EditFields
<1>7. CASE (\E p \in Pallets, place \in Places : Relocate(p, place)) \/ \E place \in Places : RecoverMotion(place)
  BY <1>7, RelocateFields, RecoverFields
<1>8. CASE ControlMillStop \/ \E normal \in BOOLEAN : MillEnds(normal)
  BY <1>8, MillFields DEF Seen
<1>9. CASE Restart
  BY <1>1, <1>9, RestartFields
<1>. QED
  BY <1>3, <1>4, <1>5, <1>6, <1>7, <1>8, <1>9 DEF Others, Operator

\* An idle thread while the program is as it was.
LEMMA MillKept ==
  ASSUME NEW d \in Threads, MillAt(d), Idles(d), mill' = mill, co'[d].cmd = co[d].cmd
  PROVE  MillAt(d)'
BY DEF MillAt, Idles, SameThread, Idling, Wants, Prompted

\* The thread's own step.
LEMMA MillGoes ==
  ASSUME RunTyped, LegsOK, TokensOK, MillOK, NEW c \in Threads, ThreadStep(c) \/ ThreadConflicts(c)
  PROVE  MillAt(c)'
<1>1. MillAt(c) /\ LegAt(c) /\ (Active(c)' => Active(c) \/ ~Alive(c))
  BY ThreadOngoing DEF MillOK, LegsOK, Ongoing, Keeps, Active, TokenActive
<1>2. CASE Leaves(c) \/ Between(c)
  BY <1>2 DEF Leaves, Between, MillAt, Wants, Prompted
<1>3. CASE Send(c)
  <2>1. PICK starts \in BOOLEAN, next \in {"monitor", "ask", "ending"} :
          (next = "monitor" => starts) /\ SentRecord(c, starts, next) /\ SentMill(c, starts)
    BY <1>3, SendFields
  <2>2. CASE next = "ending"
    BY <1>2, <2>1, <2>2 DEF SentRecord
  <2>3. CASE next = "monitor"
    BY <2>1, <2>3 DEF SentRecord, SentMill, MillAt, Wants, Prompted
  <2>4. CASE next = "ask"
    BY <2>1, <2>4 DEF SentRecord, MillAt, Wants, Prompted
  <2>. QED
    BY <2>2, <2>3, <2>4
<1>4. CASE GoesOnWith(c) /\ ~Send(c) /\ ~MotionDone(c)
  <2>1. /\ mill' = mill /\ co'[c].leg = co[c].leg /\ co'[c].pallet = co[c].pallet /\ co'[c].job = co[c].job
        /\ co'[c].cmd \in {"none", co[c].cmd} /\ (Active(c)' => Active(c))
    BY <1>1, <1>4, LocKept DEF GoesOnWith, SameWork, Works, Alive
  <2>2. ToTransfer(c)' => Active(c) /\ (ToTransfer(c) \/ (co[c].cmd = "completed" /\ co[c].pc = "monitor"))
    BY TransferKept, MonitorFields DEF Cycled, Active, Alive
  <2>3. co'[c].pc = "motion" => Active(c) /\ co[c].pc = "transfer"
    BY AtMotion
  <2>. QED
    BY <1>1, <2>1, <2>2, <2>3 DEF MillAt, Idling, ToTransfer
<1>5. CASE (HandleLoaded(c) /\ \E p \in InMill : run.loaded \in LoadedActions /\ Takes(c, LoadedLeg, run.loaded, p))
           \/ (Pick(c) /\ \E p \in Pallets : Takes(c, "loading", "queue", p))
  <2>1. co[c].cmd = "none"
    BY <1>1, <1>5, HandleLoadedFields, PickFields DEF LegAt
  <2>2. co'[c].cmd = "none" /\ co'[c].pc = "ask" /\ co'[c].act \in {"loading", "machining", "unloading"}
    BY <1>5, <2>1 DEF Takes, LoadedLeg
  <2>. QED
    BY <2>2 DEF MillAt, Wants, Prompted
<1>6. CASE Monitor(c) /\ Cycled(c)
  <2>1. mill' = mill /\ Active(c) /\ co[c].cmd = "completed" /\ co'[c].job = co[c].job
    BY <1>6, MonitorFields DEF Quiet, CellStays, Cycled, Active, Alive
  <2>2. Idling(c)'
    BY <1>1, <2>1 DEF MillAt, Idling
  <2>. QED
    BY <1>6, <2>2 DEF Cycled, MillAt
<1>7. CASE MotionDone(c)
  BY <1>1, <1>7, MotionDoneFields DEF Loads, Unloads, LegAt, MillAt, Wants, Prompted
<1>. QED
  BY <1>2, <1>3, <1>4, <1>5, <1>6, <1>7, ThreadKinds

\* The run in force moves the robot while no program of its own runs.
LEMMA MillStep ==
  ASSUME RunTyped, LegsOK, TokensOK, MotionOK, MillOK, Next
  PROVE  MillOK'
<1>1. ASSUME NEW c \in Threads, ThreadStep(c) \/ ThreadConflicts(c), NEW d \in Threads, d # c
      PROVE  MillAt(d)'
  <2>1. MillAt(d) /\ Idles(d) /\ co'[d] = co[d]
    BY <1>1, OthersIdle DEF MillOK
  <2>2. CASE mill' = mill
    BY <2>1, <2>2, MillKept
  <2>3. CASE Send(c) /\ mill' # mill
    <3>1. PICK starts \in BOOLEAN, next \in {"monitor", "ask", "ending"} :
            SentRecord(c, starts, next) /\ SentMill(c, starts)
      BY <2>3, SendFields
    <3>2. mill.program = "none" /\ mill'.late = ~TokenActive(c)
      BY <2>3, <3>1 DEF SentMill
    <3>3. co[d].cmd # "running"
      <4>1. co[d].cmd = "running" => LegAt(d) /\ co[d].pallet \in Pallets
        BY DEF LegsOK, LegAt, Works
      <4>. QED
        BY <2>1, <3>2, <4>1, RunModeAssumption DEF MillAt
    <3>4. TokenActive(c) => ~Active(d) /\ co[d].pc # "motion"
      <4>1. TokenActive(c) => Active(c) /\ co[c].pc = "send"
        BY <2>3, SendFields DEF Active, Alive
      <4>2. Active(c) => ~Active(d)
        BY <1>1 DEF TokensOK, Active, TokenActive
      <4>3. Active(c) /\ co[c].pc = "send" => ~Locked
        BY DEF MotionOK, MotionAt
      <4>. QED
        BY <4>1, <4>2, <4>3 DEF MotionOK, MotionAt, Locked
    <3>. QED
      BY <2>1, <3>2, <3>3, <3>4 DEF MillAt, Idles, Idling
  <2>4. mill' = mill \/ Send(c)
    BY <1>1, LocKept, MotionDoneFields
  <2>. QED
    BY <2>2, <2>3, <2>4
<1>2. ASSUME Others, NEW d \in Threads
      PROVE  MillAt(d)'
  <2>1. CASE Idles(d)
    <3>1. CASE mill'.program = "none" /\ co'[d].cmd # "running"
      BY <3>1 DEF MillAt, Idling
    <3>2. CASE DebugProgram
      BY <3>2, DebugFields DEF MillAt, Idling
    <3>. QED
      BY <1>2, <2>1, <3>1, <3>2, MillByOthers, MillKept DEF MillOK
  <2>2. CASE \E p \in InMill : Recovers(d, p)
    BY <2>2 DEF Recovers, Begins, MillAt, Idling, Wants, Prompted
  <2>3. CASE co'[d].pc \in {"prepare", "off"} /\ co'[d].cmd = "none"
    BY <2>3 DEF MillAt, Wants, Prompted
  <2>. QED
    BY <1>2, <2>1, <2>2, <2>3, OperatorIdle DEF News, Resumes, Begins
<1>. QED
  BY <1>1, <1>2, MillGoes DEF MillOK, Next, Others
-----------------------------------------------------------------------------
(* What was machined.                                                      *)

\* What an operator's step or the mill does to the record of ended programs.
SeenEnd(d) == \/ co'[d].cmd = co[d].cmd \/ co'[d].cmd \in {"stopped", "running"}
              \/ co[d].cmd = "running" /\ (mill.program \in Pallets => mill.program \in machined')
\* What a step of nobody's thread does to the history of the mill.
LEMMA MachinedByOthers ==
  ASSUME RunTyped, Others, NEW d \in Threads, Idles(d)
  PROVE  \/ machined \subseteq machined' /\ SeenEnd(d)
         \/ co'[d].cmd = co[d].cmd /\ \/ \E p \in Pallets : Pooled(p)
                                      \/ \E p \in Pallets, place \in Places : Moved(p, place)
                                      \/ \E p \in Pallets \cup {NoPallet}, place \in Places : Settled(p, place)
<1>1. co'[d].cmd = "none" <=> co[d].cmd = "none"
  BY DEF Idles
<1>2. \A c \in Threads : Begins(c) \/ Resumes(c) => co'[d].cmd = co[d].cmd
  BY <1>1 DEF Begins, Resumes, Stays
<1>3. CASE \E loaded \in LoadedActions \cup {"none"}, safe \in BOOLEAN : Start(loaded, safe)
  BY <1>2, <1>3, StartFields DEF Begun, SeenEnd
<1>4. CASE \E strategy \in Strategies : StartRecovery(strategy)
  BY <1>2, <1>4, RecoveryFields DEF Begun, Recovers, SeenEnd
<1>5. CASE Stop \/ CancelRecovery \/ Decline \/ ClearStatus \/ Approve \/ PauseForManual \/ ResumeManual
  BY <1>5, DisableFields, ApproveFields, PauseFields DEF CellStays, SeenEnd
<1>6. CASE \E p \in Pallets : QueuePallet(p) \/ Dequeue(p) \/ UpdatePallet(p)
  BY <1>2, <1>6, EditFields DEF Pooled, SeenEnd, seen
<1>7. CASE \E p \in Pallets, place \in Places : Relocate(p, place)
  BY <1>7, RelocateFields DEF Moved
<1>8. CASE \E place \in Places : RecoverMotion(place)
  <2>1. motion.pallet \in Pallets \cup {NoPallet}
    BY DEF RunTyped, Motions
  <2>2. PICK place \in Places : RecoverMotion(place)
    BY <1>8
  <2>3. Settled(motion.pallet, place) /\ co' = co
    BY <2>2, RecoverFields DEF Settled
  <2>. QED
    BY <2>1, <2>3
<1>9. CASE ControlMillStop
  BY <1>9, MillFields DEF Seen, SeenEnd
<1>10. ASSUME NEW normal \in BOOLEAN, MillEnds(normal)
      PROVE  machined \subseteq machined' /\ SeenEnd(d)
  BY <1>10, MillFields DEF Seen, SeenEnd
<1>11. CASE Restart
  BY <1>1, <1>11, RestartFields DEF SeenEnd
<1>12. CASE DebugProgram
  BY <1>12, DebugFields DEF Rewatches, SeenEnd
<1>. QED
  BY <1>3, <1>4, <1>5, <1>6, <1>7, <1>8, <1>9, <1>10, <1>11, <1>12 DEF Others, Operator

\* The thread saw the end of its program, or watches a program of the debug page,
\* whose end it will take for that.
Over(c) == co[c].cmd = "completed" \/ (co[c].cmd = "running" /\ mill.program = "debug")
\* An idle thread that comes to that sees the end of the program it watched.
LEMMA OverByOthers ==
  ASSUME RunTyped, LegsOK, MillOK, Others, NEW d \in Threads, Idles(d), Over(d)', co[d].leg = "machining"
  PROVE  Over(d) \/ (co[d].cmd = "running" /\ mill.program = co[d].pallet /\ co'[d].cmd = "completed")
<1>1. LegAt(d) /\ MillAt(d)
  BY DEF LegsOK, MillOK
<1>2. co[d].cmd = "running" => co[d].pallet \in Pallets /\ mill.program \in {co[d].pallet, "debug"}
  BY <1>1 DEF LegAt, MillAt, Works
<1>3. CASE DebugProgram
  <2>1. co[d].cmd # "running"
    BY <1>2, <1>3, DebugFields, RunModeAssumption
  <2>. QED
    BY <1>3, <2>1, DebugFields DEF Over, Rewatches, Unpolled
<1>4. CASE mill' = mill /\ co'[d].cmd = co[d].cmd
  BY <1>4 DEF Over
<1>5. CASE mill'.program = "none" /\ co'[d].cmd # "running"
  <2>1. co'[d].cmd = "completed"
    BY <1>5 DEF Over
  <2>2. co'[d].cmd = co[d].cmd \/ co[d].cmd = "running"
    BY <2>1, MachinedByOthers DEF SeenEnd
  <2>. QED
    BY <1>2, <2>1, <2>2 DEF Over
<1>. QED
  BY <1>3, <1>4, <1>5, MillByOthers

\* An idle thread's pallet stays machined.
LEMMA EarnedKept ==
  ASSUME RunTyped, LegsOK, MotionOK, StayOK, MillOK, EarnedOK, Others, NEW d \in Threads, Idles(d)
  PROVE  EarnedAt(d)'
<1>1. /\ EarnedAt(d) /\ StayAt(d) /\ MotionAt(d) /\ MillAt(d) /\ LegAt(d)
      /\ co'[d].pc = co[d].pc /\ SameThread(d) /\ (Active(d)' => Active(d))
  BY DEF EarnedOK, StayOK, MotionOK, MillOK, LegsOK, Idles
<1>2. CASE machined \subseteq machined' /\ SeenEnd(d)
  <2>1. Active(d)' /\ Over(d)' /\ co'[d].leg = "machining" => co'[d].pallet \in machined'
    <3>1. co[d].cmd = "running" => co[d].pallet \in Pallets
      BY <1>1 DEF LegAt, Works
    <3>. QED
      BY <1>1, <1>2, <3>1, OverByOthers DEF SeenEnd, EarnedAt, Over, SameThread
  <2>. QED
    BY <1>1, <1>2, <2>1 DEF EarnedAt, Over, SameThread, Works, Earning
<1>3. ASSUME co'[d].cmd = co[d].cmd, mill' = mill,
             Active(d) /\ Over(d) /\ co[d].leg = "machining" => co[d].pallet \in machined',
             Works(d) /\ co[d].pc # "finish" /\ co[d].leg = "unloading" /\ Earning(d)
               /\ (Active(d) \/ co[d].pc = "motion") => co[d].pallet \in machined'
      PROVE  EarnedAt(d)'
  BY <1>1, <1>3 DEF EarnedAt, Over, SameThread, Works, Earning
<1>4. ASSUME co'[d].cmd = co[d].cmd, NEW p \in Pallets, Pooled(p)
      PROVE  EarnedAt(d)'
  <2>1. motion.pallet # p /\ (machined' = machined \/ (machined' = machined \ {p} /\ ~run.enabled))
    BY <1>4 DEF Pooled, seen, NewStay
  <2>2. ~run.enabled => ~Active(d)
    BY DEF Active, TokenActive
  <2>. QED
    BY <1>1, <1>3, <1>4, <2>1, <2>2 DEF Pooled, EarnedAt, Over, MotionAt
<1>5. ASSUME co'[d].cmd = co[d].cmd, NEW p \in Pallets, NEW place \in Places, Moved(p, place)
      PROVE  EarnedAt(d)'
  <2>1. machined' = machined \ {p} /\ ~Locked /\ (run.enabled => loc[p] # "machine")
    BY <1>5 DEF Moved, NewStay
  <2>2. co[d].pc # "motion" /\ (Active(d) => loc[p] # "machine")
    BY <1>1, <2>1 DEF MotionAt, Locked, Active, TokenActive
  <2>3. Over(d) => co[d].pc = "monitor"
    BY <1>1 DEF LegAt, Over
  <2>. QED
    BY <1>1, <1>3, <1>5, <2>1, <2>2, <2>3 DEF Moved, EarnedAt, Over, StayAt, Works
<1>6. ASSUME co'[d].cmd = co[d].cmd, NEW p, NEW place, Settled(p, place)
      PROVE  EarnedAt(d)'
  <2>1. motion.status = "faulted" /\ Locked
    BY <1>6 DEF Settled, Locked
  <2>2. co[d].pc # "motion" /\ (Active(d) => co[d].pc = "ending")
    BY <1>1, <2>1 DEF MotionAt
  <2>3. Over(d) => co[d].pc = "monitor"
    BY <1>1 DEF LegAt, Over
  <2>. QED
    BY <1>3, <1>6, <2>2, <2>3 DEF Settled, Works
<1>. QED
  BY <1>2, <1>4, <1>5, <1>6, MachinedByOthers

\* No thread starts a program of the debug page.
LEMMA SentOwn ==
  ASSUME RunTyped, LegsOK, NEW c \in Threads, ThreadStep(c) \/ ThreadConflicts(c), mill'.program = "debug"
  PROVE  mill' = mill
<1>1. CASE Send(c)
  <2>1. co[c].pallet \in Pallets
    BY <1>1, SendFields DEF LegsOK, LegAt, Works
  <2>2. PICK starts \in BOOLEAN : SentMill(c, starts)
    BY <1>1, SendFields
  <2>. QED
    BY <2>1, <2>2, RunModeAssumption DEF SentMill
<1>2. CASE ~Send(c)
  BY <1>2, LocKept, MotionDoneFields
<1>. QED
  BY <1>1, <1>2

\* The thread's own pallet.
LEMMA EarnedGoes ==
  ASSUME RunTyped, LegsOK, MotionOK, EarnedOK, NEW c \in Threads, ThreadStep(c) \/ ThreadConflicts(c)
  PROVE  EarnedAt(c)'
<1>1. EarnedAt(c) /\ LegAt(c) /\ MotionAt(c) /\ (Active(c)' => Active(c) \/ ~Alive(c)) /\ co[c].leg \in Legs
  BY ThreadOngoing DEF EarnedOK, LegsOK, MotionOK, Ongoing, Keeps, Active, TokenActive, RunTyped, Coordinators
<1>2. CASE Leaves(c) \/ Between(c)
  BY <1>2 DEF Leaves, Between, EarnedAt, Works
<1>3. CASE GoesOnWith(c) /\ ~MotionDone(c)
  <2>1. machined' = machined /\ SameWork(c) /\ (Active(c)' => Active(c))
    BY <1>1, <1>3, LocKept DEF GoesOnWith, Works, Alive
  <2>2. Over(c)' => Over(c)
    <3>1. Send(c) => co'[c].cmd \in {"none", "running"} /\ (co'[c].cmd = "running" => mill'.program # "debug")
      <4>1. Send(c) => co[c].pallet \in Pallets
        BY SendFields DEF LegsOK, LegAt, Works
      <4>. QED
        BY <4>1, SendFields, RunModeAssumption DEF SentRecord, SentMill, Leaves
    <3>2. ~Send(c) => mill' = mill
      BY <1>3, LocKept
    <3>. QED
      BY <1>3, <3>1, <3>2 DEF GoesOnWith, Over
  <2>3. co'[c].pc = "motion" => Active(c)
    BY AtMotion
  <2>. QED
    BY <1>1, <1>3, <2>1, <2>2, <2>3 DEF GoesOnWith, SameWork, EarnedAt, Over, Earning
<1>4. CASE HandleLoaded(c) /\ \E p \in InMill : run.loaded \in LoadedActions /\ Takes(c, LoadedLeg, run.loaded, p)
  <2>1. co[c].cmd = "none"
    BY <1>1, <1>4, HandleLoadedFields DEF LegAt
  <2>. QED
    BY <1>4, <2>1 DEF Takes, LoadedLeg, LoadedActions, EarnedAt, Earning
<1>5. CASE Pick(c) /\ \E p \in Pallets : Takes(c, "loading", "queue", p)
  BY <1>5 DEF Takes, EarnedAt
<1>6. CASE Monitor(c) /\ Cycled(c)
  <2>1. machined' = machined /\ Active(c) /\ co[c].pc = "monitor"
    BY <1>6, MonitorFields DEF Quiet, CellStays, Active, Alive
  <2>. QED
    BY <1>1, <1>6, <2>1 DEF Cycled, EarnedAt, Works, Earning
<1>7. CASE MotionDone(c)
  <2>1. /\ co[c].pc = "motion" /\ co[c].pallet = motion.pallet /\ co'[c].job = co[c].job
        /\ co'[c].cmd = "none" /\ co[c].leg # "machining" /\ (Loads(c) \/ Unloads(c))
    BY <1>1, <1>7, MotionDoneFields DEF MotionAt, LegAt
  <2>2. CASE Loads(c)
    BY <2>1, <2>2 DEF Loads, EarnedAt
  <2>3. CASE Unloads(c)
    <3>1. co[c].leg = "unloading"
      BY <1>1, <2>1, <2>3 DEF Unloads, MotionAt, Legs
    <3>2. Earning(c) => motion.pallet \in machined
      BY <1>1, <2>1, <3>1 DEF EarnedAt, Works
    <3>3. Earning(c)' => co'[c].earned
      BY <2>1, <2>3, <3>2 DEF Unloads, Earning
    <3>. QED
      BY <2>1, <2>3, <3>3 DEF Unloads, EarnedAt
  <2>. QED
    BY <2>1, <2>2, <2>3
<1>. QED
  BY <1>2, <1>3, <1>4, <1>5, <1>6, <1>7, ThreadKinds

\* A pallet that the queue's cycle unloads was machined in this stay.
LEMMA EarnedStep ==
  ASSUME RunTyped, LegsOK, TokensOK, MotionOK, StayOK, MillOK, EarnedOK, Next
  PROVE  EarnedOK'
<1>1. ASSUME NEW c \in Threads, ThreadStep(c) \/ ThreadConflicts(c), NEW d \in Threads, d # c
      PROVE  EarnedAt(d)'
  <2>1. /\ EarnedAt(d) /\ LegAt(d) /\ MotionAt(d) /\ Idles(d) /\ co'[d] = co[d]
        /\ mill'.program = "debug" => mill' = mill
    BY <1>1, OthersIdle, SentOwn DEF EarnedOK, LegsOK, MotionOK
  <2>2. CASE MotionDone(c)
    <3>1. co[c].pc = "motion" /\ Locked
      BY <2>2, MotionDoneFields DEF Locked
    <3>2. co[d].pc # "motion" /\ (Active(d) => co[d].pc = "ending")
      BY <1>1, <2>1, <3>1 DEF MotionAt, MotionOK
    <3>. QED
      BY <2>1, <3>2 DEF EarnedAt, Idles, LegAt, Works, Earning
  <2>3. CASE ~MotionDone(c)
    <3>1. machined' = machined
      BY <1>1, <2>3, LocKept
    <3>. QED
      BY <2>1, <3>1 DEF EarnedAt, Idles, Works, Earning
  <2>. QED
    BY <2>2, <2>3
<1>2. ASSUME Others, NEW d \in Threads
      PROVE  EarnedAt(d)'
  <2>1. CASE Idles(d)
    BY <1>2, <2>1, EarnedKept
  <2>2. CASE \E p \in InMill : Recovers(d, p)
    BY <2>2 DEF Recovers, Begins, EarnedAt, Earning
  <2>3. CASE co'[d].pc \in {"prepare", "off"} /\ co'[d].cmd = "none"
    BY <2>3 DEF EarnedAt, Works
  <2>. QED
    BY <1>2, <2>1, <2>2, <2>3, OperatorIdle DEF News, Resumes, Begins
<1>. QED
  BY <1>1, <1>2, EarnedGoes DEF EarnedOK, Next, Others
-----------------------------------------------------------------------------
(* One run of a program for each request.                                  *)

\* No program is begun, and a pallet that comes into the mill starts anew.
Aging == /\ \A p \in Pallets : begun'[p] \in {0, begun[p]}
         /\ \A p \in InMill' : p \in InMill \/ begun'[p] = 0
\* A pallet that moves begins its history again.
LEMMA StayAges ==
  ASSUME RunTyped, NEW p \in Pallets \cup {NoPallet}, NEW place, loc' = [loc EXCEPT ![p] = place], NewStay(p)
  PROVE  Aging
BY DEF RunTyped, NewStay, Aging, InMill

\* A thread begins a program only when it sends one for the run in force.
LEMMA AgesByThread ==
  ASSUME RunTyped, LegsOK, NEW c \in Threads, ThreadStep(c) \/ ThreadConflicts(c)
  PROVE  Aging \/ (Send(c) /\ Active(c) /\ loc' = loc)
<1>1. CASE MotionDone(c)
  <2>1. motion.pallet \in Pallets \cup {NoPallet}
    BY DEF RunTyped, Motions
  <2>2. NewStay(motion.pallet) /\ \E place : loc' = [loc EXCEPT ![motion.pallet] = place]
    BY <1>1, MotionDoneFields DEF Loads, Unloads
  <2>. QED
    BY <2>1, <2>2, StayAges
<1>2. CASE ~MotionDone(c)
  <2>1. loc' = loc /\ (Send(c) \/ begun' = begun)
    BY <1>2, LocKept
  <2>2. Send(c) => begun' = begun \/ Active(c)
    BY SendFields DEF SentMill, Active, Alive
  <2>. QED
    BY <2>1, <2>2 DEF Aging, InMill
<1>. QED
  BY <1>1, <1>2

\* No other step begins one.
LEMMA AgesByOthers ==
  ASSUME RunTyped, Others
  PROVE  Aging
<1>1. loc' = loc /\ begun' = begun => Aging
  BY DEF Aging, InMill
<1>2. loc' = loc /\ begun' = [p \in Pallets |-> IF p \in InMill THEN 0 ELSE begun[p]] => Aging
  BY DEF Aging, InMill
<1>3. CASE \E loaded \in LoadedActions \cup {"none"}, safe \in BOOLEAN : Start(loaded, safe)
  BY <1>1, <1>2, <1>3, StartFields DEF Begun
<1>4. CASE \E strategy \in Strategies : StartRecovery(strategy)
  BY <1>1, <1>4, RecoveryFields, NumbersTyped DEF Begun, Recovers, Aging, InMill
<1>5. CASE Stop \/ CancelRecovery \/ Decline \/ ClearStatus \/ Approve \/ PauseForManual \/ ResumeManual
  BY <1>1, <1>2, <1>5, DisableFields, ApproveFields, PauseFields DEF CellStays
<1>6. ASSUME NEW p \in Pallets, QueuePallet(p) \/ Dequeue(p) \/ UpdatePallet(p)
      PROVE  Aging
  <2>1. CASE loc' = [loc EXCEPT ![p] = "pool"] /\ UNCHANGED seen
    BY <2>1 DEF Aging, InMill, seen, RunTyped
  <2>. QED
    BY <1>1, <1>6, <2>1, StayAges, EditFields DEF seen
<1>7. CASE \E p \in Pallets, place \in Places : Relocate(p, place)
  BY <1>7, RelocateFields, StayAges
<1>8. ASSUME NEW place \in Places, RecoverMotion(place)
      PROVE  Aging
  <2>1. motion.pallet \in Pallets \cup {NoPallet} /\ loc' = [loc EXCEPT ![motion.pallet] = place]
    BY <1>8, RecoverFields DEF RunTyped, Motions
  <2>2. CASE place = loc[motion.pallet]
    BY <1>8, <2>1, <2>2, RecoverFields DEF Aging, InMill, seen, RunTyped
  <2>. QED
    BY <1>8, <2>1, <2>2, RecoverFields, StayAges
<1>9. CASE ControlMillStop \/ \E normal \in BOOLEAN : MillEnds(normal)
  BY <1>1, <1>9, MillFields
<1>10. CASE Restart \/ DebugProgram
  BY <1>1, <1>10, RestartFields, DebugFields
<1>. QED
  BY <1>3, <1>4, <1>5, <1>6, <1>7, <1>8, <1>9, <1>10 DEF Others, Operator

\* The choice of the start is kept or carried out, as long as the run goes on.
LoadedKept == run'.loaded \in {"none", run.loaded}
\* The choice stays fresh while histories only age.
LEMMA FreshLoaded ==
  ASSUME RunTyped, LoadedFresh, Aging, LoadedKept
  PROVE  LoadedFresh'
BY DEF RunTyped, LoadedFresh, Aging, LoadedKept, InMill
\* A thread keeps the choice, or clears it, while the run is on.
LEMMA LoadedByThread ==
  ASSUME RunTyped, LegsOK, NEW c \in Threads, ThreadStep(c) \/ ThreadConflicts(c), run'.enabled
  PROVE  LoadedKept
<1>. USE DEF LoadedKept
<1>1. CASE GivesUp(c) \/ ThreadConflicts(c)
  BY <1>1, LeavingFields DEF Refused, SameRow
<1>2. CASE Prepare(c) \/ HandleLoaded(c) \/ Pick(c) \/ Ask(c) \/ Granted(c)
  BY <1>2, PrepareFields, HandleLoadedFields, PickFields, AskFields, GrantedFields DEF Quiet, SameRow
<1>3. CASE Position(c) \/ Machine(c) \/ CheckMill(c) \/ Send(c) \/ Monitor(c) \/ PauseWait(c)
  BY <1>3, PositionFields, MachineFields, CheckMillFields, SendFields, MonitorFields, PauseWaitFields
     DEF Quiet, SameRow
<1>4. CASE Transfer(c) \/ MotionDone(c) \/ MotionFaults(c)
  BY <1>4, TransferFields, MotionDoneFields, MotionFaultsFields DEF SameRow
<1>5. CASE Finish(c)
  BY <1>5, FinishFields
<1>6. CASE Ending(c)
  BY <1>6, EndingFields DEF SameRow, Disabled
<1>. QED
  BY <1>1, <1>2, <1>3, <1>4, <1>5, <1>6 DEF ThreadStep

\* An operator's step keeps the choice and grants nothing, or it begins a run, or
\* ends it, or grants what is asked.
LEMMA RowByOthers ==
  ASSUME RunTyped, Others
  PROVE  \/ LoadedKept /\ (SamePrompt \/ run'.asker = NoThread)
         \/ ~run'.enabled
         \/ Approve
         \/ \E loaded \in LoadedActions \cup {"none"}, safe \in BOOLEAN : Start(loaded, safe)
<1>. USE DEF LoadedKept
<1>1. CASE \E strategy \in Strategies : StartRecovery(strategy)
  BY <1>1, RecoveryFields DEF Begun
<1>2. CASE Stop \/ CancelRecovery \/ Decline \/ ClearStatus \/ PauseForManual \/ ResumeManual
  BY <1>2, DisableFields, PauseFields DEF SameRow, Disabled
<1>3. CASE \E p \in Pallets : QueuePallet(p) \/ Dequeue(p) \/ UpdatePallet(p)
  BY <1>3, EditFields DEF SameRow, Resumes
<1>4. CASE (\E p \in Pallets, place \in Places : Relocate(p, place)) \/ \E place \in Places : RecoverMotion(place)
  BY <1>4, RelocateFields, RecoverFields DEF SameRow
<1>5. CASE ControlMillStop \/ \E normal \in BOOLEAN : MillEnds(normal)
  BY <1>5, MillFields DEF SameRow, Disabled
<1>6. CASE Restart \/ DebugProgram
  BY <1>6, RestartFields, DebugFields DEF SameRow
<1>. QED
  BY <1>1, <1>2, <1>3, <1>4, <1>5, <1>6 DEF Others, Operator

\* A start that asks for the loaded pallet's program asks for it anew.
LEMMA StartFresh ==
  ASSUME RunTyped, NEW loaded \in LoadedActions \cup {"none"}, NEW safe \in BOOLEAN, Start(loaded, safe)
  PROVE  LoadedFresh'
BY StartFields DEF Begun, LoadedFresh, InMill, LoadedActions

\* A run begins by a start, or by a recovery with its thread.
LEMMA BegunByStart ==
  ASSUME RunTyped, Others, Begun
  PROVE  \/ \E loaded \in LoadedActions \cup {"none"}, safe \in BOOLEAN : Start(loaded, safe)
         \/ \E d \in Threads, p \in InMill : Recovers(d, p)
<1>1. ~run.enabled /\ run'.enabled
  BY DEF Begun
<1>2. ASSUME SameRow \/ Disabled
      PROVE  FALSE
  BY <1>1, <1>2 DEF SameRow, SameRun, Disabled
<1>3. CASE \E strategy \in Strategies : StartRecovery(strategy)
  BY <1>3, RecoveryFields
<1>4. CASE Stop \/ CancelRecovery \/ Decline \/ ClearStatus \/ PauseForManual \/ ResumeManual
  BY <1>2, <1>4, DisableFields, PauseFields
<1>5. CASE Approve
  BY <1>1, <1>5, ApproveFields
<1>6. CASE \E p \in Pallets : QueuePallet(p) \/ Dequeue(p) \/ UpdatePallet(p)
  BY <1>1, <1>2, <1>6, EditFields DEF Resumes, Armed
<1>7. CASE (\E p \in Pallets, place \in Places : Relocate(p, place)) \/ \E place \in Places : RecoverMotion(place)
  BY <1>2, <1>7, RelocateFields, RecoverFields
<1>8. CASE ControlMillStop \/ DebugProgram \/ \E normal \in BOOLEAN : MillEnds(normal)
  BY <1>2, <1>8, MillFields, DebugFields
<1>9. CASE Restart
  BY <1>1, <1>9, RestartFields
<1>. QED
  BY <1>3, <1>4, <1>5, <1>6, <1>7, <1>8, <1>9 DEF Others, Operator

\* A thread that is about to begin a program was about to before.
LEMMA SendingKept ==
  ASSUME RunTyped, LegsOK, NEW c \in Threads, ThreadStep(c) \/ ThreadConflicts(c),
         GoesOnWith(c), ~MotionDone(c), Sending(c)', co'[c].leg = "machining"
  PROVE  Sending(c) /\ begun' = begun
<1>1. LegAt(c) /\ co[c].leg = "machining" /\ Works(c)
  BY DEF LegsOK, GoesOnWith, SameWork
<1>2. ~Send(c)
  BY SendFields DEF SentRecord, Leaves, Sending, Prompted
<1>3. begun' = begun
  BY <1>2, LocKept
<1>4. CASE GivesUp(c) \/ ThreadConflicts(c) \/ MotionFaults(c) \/ Ending(c)
  BY <1>4, LeavingFields, MotionFaultsFields, EndingFields DEF Refused, Leaves, Sending, Prompted
<1>5. CASE Prepare(c) \/ HandleLoaded(c) \/ Pick(c) \/ Finish(c)
  BY <1>5, PrepareFields, HandleLoadedFields, PickFields, FinishFields DEF GoesOnWith, Works
<1>6. CASE Ask(c)
  <2>1. CASE GoesOn(c, "wait") /\ run'.asker = c /\ run'.pending = co[c].act /\ run'.granted = FALSE
    BY <1>3, <1>6, <2>1, AskFields DEF GoesOn, Sending, Prompted
  <2>2. CASE co[c].act \in Legs
    BY <1>3, <1>6, <2>2, AskFields DEF Legs, Sending
  <2>. QED
    BY <1>6, <2>1, <2>2, AskFields
<1>7. CASE Granted(c)
  BY <1>3, <1>7, GrantedFields DEF Sending, Prompted
<1>8. CASE Position(c) \/ PauseWait(c) \/ Transfer(c)
  BY <1>1, <1>3, <1>8, PositionFields, PauseWaitFields, TransferFields DEF LegAt
<1>9. CASE Machine(c) \/ CheckMill(c)
  BY <1>3, <1>9, MachineFields, CheckMillFields DEF Sending
<1>10. CASE Monitor(c)
  <2>1. co[c].pc = "monitor" /\ (Cycled(c) \/ Asked(c, "retry_cnc_program") \/ Leaves(c) \/ co' = co)
    BY <1>10, MonitorFields
  <2>. QED
    BY <1>1, <1>3, <2>1 DEF Cycled, Asked, Leaves, Sending, Prompted
<1>. QED
  BY <1>2, <1>3, <1>4, <1>5, <1>6, <1>7, <1>8, <1>9, <1>10 DEF ThreadStep

\* The thread's own request.
LEMMA FreshGoes ==
  ASSUME RunTyped, LegsOK, TokensOK, MotionOK, StayOK, FreshOK, NEW c \in Threads, ThreadStep(c) \/ ThreadConflicts(c)
  PROVE  FreshAt(c)'
<1>. SUFFICES ASSUME Active(c)'
              PROVE  FreshAt(c)'
  BY DEF FreshAt
<1>1. FreshAt(c) /\ LegAt(c) /\ MotionAt(c) /\ StayAt(c) /\ Active(c) /\ run'.enabled
  BY ThreadOngoing DEF FreshOK, LegsOK, MotionOK, StayOK, Ongoing, Keeps, Active, TokenActive, Alive
<1>2. LoadedKept
  BY <1>1, LoadedByThread
<1>3. CASE Leaves(c)
  BY <1>3 DEF Leaves, FreshAt, Sending, Prompted
<1>4. CASE Between(c)
  <2>1. ~Send(c)
    BY <1>4, SendFields DEF Between
  <2>2. Aging
    BY <2>1, AgesByThread
  <2>3. LoadedFresh'
    <3>1. CASE co[c].pc = "finish"
      <4>1. InMill = {} /\ loc' = loc
        BY <1>1, <3>1, LocKept, MotionDoneFields DEF StayAt
      <4>. QED
        BY <4>1 DEF LoadedFresh, InMill
    <3>2. CASE co[c].pc # "finish"
      BY <1>1, <1>2, <1>4, <2>2, <3>2, FreshLoaded DEF Between, FreshAt
    <3>. QED
      BY <3>1, <3>2
  <2>. QED
    BY <1>4, <2>3 DEF Between, FreshAt, Sending, Prompted
<1>5. CASE GoesOnWith(c) /\ ~MotionDone(c)
  <2>1. co'[c].pc \notin {"prepare", "loaded", "pick"}
    BY <1>5 DEF GoesOnWith
  <2>2. co'[c].leg = "machining" /\ Sending(c)' => begun'[co'[c].pallet] = 0
    BY <1>1, <1>5, SendingKept DEF FreshAt, GoesOnWith, SameWork
  <2>. QED
    BY <2>1, <2>2 DEF FreshAt
<1>6. CASE HandleLoaded(c) /\ \E p \in InMill : run.loaded \in LoadedActions /\ Takes(c, LoadedLeg, run.loaded, p)
  <2>1. LoadedFresh /\ begun' = begun
    BY <1>1, <1>6, HandleLoadedFields DEF FreshAt, Quiet, CellStays
  <2>. QED
    BY <1>6, <2>1 DEF Takes, LoadedLeg, LoadedFresh, FreshAt
<1>7. CASE Pick(c) /\ \E p \in Pallets : Takes(c, "loading", "queue", p)
  BY <1>7 DEF Takes, FreshAt
<1>8. CASE Monitor(c) /\ Cycled(c)
  BY <1>8 DEF Cycled, FreshAt
<1>9. CASE MotionDone(c)
  <2>1. /\ co[c].pc = "motion" /\ co'[c].pallet = motion.pallet /\ motion.pallet \in Pallets
        /\ NewStay(motion.pallet) /\ (Loads(c) \/ Unloads(c))
    BY <1>1, <1>9, MotionDoneFields DEF MotionAt, LegAt, Works
  <2>2. begun'[motion.pallet] = 0
    BY <2>1, NumbersTyped DEF NewStay
  <2>. QED
    BY <2>1, <2>2 DEF Loads, Unloads, FreshAt, Sending, Prompted
<1>. QED
  BY <1>3, <1>4, <1>5, <1>6, <1>7, <1>8, <1>9, ThreadKinds

\* A program is begun at most once for each time it was asked for.
LEMMA FreshStep ==
  ASSUME RunTyped, LegsOK, TokensOK, MotionOK, StayOK, FreshOK, Next
  PROVE  FreshOK'
<1>1. ASSUME NEW c \in Threads, ThreadStep(c) \/ ThreadConflicts(c), NEW d \in Threads, d # c
      PROVE  FreshAt(d)'
  <2>. SUFFICES ASSUME Active(d)'
                PROVE  FreshAt(d)'
    BY DEF FreshAt
  <2>1. /\ FreshAt(d) /\ LegAt(d) /\ Idles(d) /\ Active(d) /\ co'[d] = co[d] /\ run'.enabled
        /\ (Prompted(d)' => run'.granted = run.granted)
    BY <1>1, OthersIdle DEF FreshOK, LegsOK, Idles, Active, TokenActive
  <2>2. Aging /\ LoadedKept
    <3>1. ~Active(c)
      BY <1>1, <2>1 DEF TokensOK, Active, TokenActive
    <3>. QED
      BY <1>1, <2>1, <3>1, AgesByThread, LoadedByThread
  <2>3. Sending(d)' => Sending(d) /\ co[d].pallet \in Pallets
    BY <2>1 DEF Sending, Idles, LegAt, Works, Prompted
  <2>. QED
    BY <2>1, <2>2, <2>3, FreshLoaded DEF FreshAt, Aging
<1>2. ASSUME Others, NEW d \in Threads
      PROVE  FreshAt(d)'
  <2>. SUFFICES ASSUME Active(d)'
                PROVE  FreshAt(d)'
    BY DEF FreshAt
  <2>1. run'.enabled /\ Aging /\ co'[d].pc # "off"
    BY <1>2, AgesByOthers DEF Active, TokenActive, Alive
  <2>2. CASE Idles(d)
    <3>1. /\ FreshAt(d) /\ LegAt(d) /\ StayAt(d) /\ Active(d) /\ co'[d].pc = co[d].pc /\ co'[d].act = co[d].act
          /\ SameThread(d) /\ (Prompted(d)' => Prompted(d) /\ run'.pending = run.pending)
      BY <2>2 DEF FreshOK, LegsOK, StayOK, Idles
    <3>2. ~Begun
      BY <3>1 DEF Begun, Active, TokenActive
    <3>3. LoadedKept
      BY <1>2, <2>1, <3>2, RowByOthers, StartFields, ApproveFields DEF LoadedKept
    <3>4. co[d].pc \in {"prepare", "loaded", "pick"} => LoadedFresh'
      BY <2>1, <3>1, <3>3, FreshLoaded DEF FreshAt
    <3>5. Sending(d)' => co[d].pallet \in Pallets
      BY <3>1 DEF Sending, LegAt, Works, Prompted
    <3>6. CASE Approve
      <4>1. Sending(d)' => Sending(d) \/ (Prompted(d) /\ run.pending = "retry_cnc_program")
        BY <3>1 DEF Sending
      <4>2. Prompted(d) /\ co[d].leg = "machining" => co[d].pallet \in InMill
        BY <3>1, <3>5 DEF StayAt, LegAt, Works, Prompted, InMill
      <4>3. Prompted(d) /\ run.pending = "retry_cnc_program" /\ co[d].leg = "machining" => begun'[co[d].pallet] = 0
        BY <3>6, <4>2, ApproveFields DEF InMill
      <4>. QED
        BY <2>1, <3>1, <3>4, <3>5, <4>1, <4>3 DEF FreshAt, Aging, SameThread
    <3>7. CASE ~Approve
      <4>1. SamePrompt \/ run'.asker = NoThread
        BY <1>2, <2>1, <3>2, <3>7, RowByOthers, StartFields
      <4>2. Sending(d)' => Sending(d)
        BY <3>1, <4>1, RunModeAssumption DEF Sending, Prompted, SamePrompt
      <4>. QED
        BY <2>1, <3>1, <3>4, <3>5, <4>2 DEF FreshAt, Aging, SameThread
    <3>. QED
      BY <3>6, <3>7
  <2>3. CASE Begun /\ Begins(d) /\ co'[d].pc = "prepare"
    <3>1. LoadedFresh'
      <4>1. ~(\E e \in Threads, p \in InMill : Recovers(e, p))
        BY <2>3 DEF Recovers, Begins, Stays, Alive
      <4>. QED
        BY <1>2, <2>3, <4>1, StartFresh, BegunByStart
    <3>. QED
      BY <2>3, <3>1 DEF FreshAt, Sending, Prompted
  <2>4. CASE \E p \in InMill : Recovers(d, p)
    BY <2>4, NumbersTyped DEF Recovers, FreshAt, Sending, Prompted, InMill
  <2>5. CASE Resumes(d)
    <3>1. LoadedFresh /\ LoadedKept
      BY <2>5 DEF Resumes, FreshOK, LoadedKept
    <3>. QED
      BY <2>1, <2>5, <3>1, FreshLoaded DEF Resumes, FreshAt, Sending, Prompted
  <2>. QED
    BY <1>2, <2>1, <2>2, <2>3, <2>4, <2>5, OperatorIdle DEF News
<1>3. Armed' => LoadedFresh'
  <2>. SUFFICES ASSUME Armed'
                PROVE  LoadedFresh'
    OBVIOUS
  <2>1. run'.enabled
    BY DEF Armed
  <2>2. CASE Ongoing
    <3>1. LoadedFresh
      BY <2>2 DEF Ongoing, Rearmed, FreshOK, FreshAt
    <3>2. CASE Others
      <4>1. ~Begun
        BY <2>1, <2>2 DEF Ongoing, Begun
      <4>2. LoadedKept
        BY <2>1, <3>2, <4>1, RowByOthers, StartFields, ApproveFields DEF LoadedKept
      <4>. QED
        BY <3>1, <3>2, <4>2, AgesByOthers, FreshLoaded
    <3>3. ASSUME NEW c \in Threads, ThreadStep(c) \/ ThreadConflicts(c)
          PROVE  LoadedFresh'
      <4>1. ~(Send(c) /\ Active(c))
        <5>1. Send(c) => co[c].pc = "send"
          BY SendFields
        <5>2. Armed => ~Active(c)
          BY DEF TokensOK, Active, TokenActive
        <5>3. Rearmed /\ Active(c) => co[c].pc = "pick"
          BY DEF Rearmed, TokensOK, Active, TokenActive
        <5>. QED
          BY <2>2, <5>1, <5>2, <5>3 DEF Ongoing
      <4>. QED
        BY <2>1, <3>1, <3>3, <4>1, AgesByThread, LoadedByThread, FreshLoaded
    <3>. QED
      BY <3>2, <3>3 DEF Next, Others
  <2>3. CASE Starts
    <3>1. co' = co \/ run'.state = "working"
      BY <2>3 DEF Starts
    <3>2. co' = co
      BY <3>1 DEF Armed
    <3>3. ~(\E e \in Threads, p \in InMill : Recovers(e, p))
      BY <3>2, NumbersTyped DEF Recovers, Begins, Alive
    <3>4. Others
      BY <2>3, ThreadOngoing DEF Starts, Begun, Ongoing, Next, Others
    <3>. QED
      BY <2>3, <3>3, <3>4, StartFresh, BegunByStart DEF Starts
  <2>4. CASE \E c \in Threads : Resumes(c)
    BY <2>4 DEF Resumes, Armed
  <2>. QED
    BY <2>2, <2>3, <2>4, LifeCycle
<1>. QED
  BY <1>1, <1>2, <1>3, FreshGoes DEF FreshOK, Next, Others
-----------------------------------------------------------------------------
(* The invariant, and the properties that rest on it.                      *)

\* A set of pallets that counts at most one has at most one.
LEMMA AtMostOne ==
  ASSUME Cardinality(InMill) <= 1
  PROVE  \A p, q \in InMill : p = q
<1>. SUFFICES ASSUME NEW p \in InMill, NEW q \in InMill, p # q
              PROVE  FALSE
  OBVIOUS
<1>1. IsFiniteSet(InMill) /\ {p, q} \subseteq InMill
  BY RunModeAssumption, FS_Subset DEF InMill
<1>2. IsFiniteSet({p}) /\ Cardinality({p}) = 1
  BY FS_Singleton
<1>3. Cardinality({p} \cup {q}) = 2
  BY <1>2, FS_AddElement
<1>4. Cardinality({p, q}) <= Cardinality(InMill)
  BY <1>1, FS_Subset
<1>5. {p} \cup {q} = {p, q}
  OBVIOUS
<1>6. Cardinality(InMill) \in Nat
  BY <1>1, FS_CardinalityType
<1>. QED
  BY <1>3, <1>4, <1>5, <1>6

\* A process that starts has no thread, no motion and no program.
LEMMA RunInvInit == Init => RunInv
<1>. SUFFICES ASSUME Init
              PROVE  RunInv
  OBVIOUS
<1>1. /\ run.enabled = FALSE /\ run.state = "interrupted" /\ run.token = 0 /\ run.pending = ""
      /\ run.asker = NoThread /\ run.loaded = "none" /\ run \in RunRow
  BY DEF Init, RunRow, States, Read
<1>2. \A c \in Threads : /\ co[c] = Off /\ co[c].pc = "off" /\ co[c].token = 0 /\ co[c].late = 0
                         /\ co[c].cmd = "none"
  BY DEF Init, Off
<1>3. Off \in Coordinators
  BY RunModeAssumption DEF Off, Coordinators, Pcs, Legs, Jobs
<1>4. motion.status = "none" /\ motion \in Motions /\ mill.program = "none"
  BY DEF Init, NoMotion, IdleMill, Motions
<1>5. queue \in Seq(Pallets) /\ IsInjective(queue)
  <2>1. queue \in BoundedSeq(Pallets, Cardinality(Pallets)) /\ IsInjective(queue)
    BY DEF Init
  <2>2. PICK n \in 0..Cardinality(Pallets) : queue \in [1..n -> Pallets]
    BY <2>1 DEF BoundedSeq, SeqOf
  <2>3. n \in Nat
    BY <2>2
  <2>. QED
    BY <2>1, <2>2, <2>3, SeqDef
<1>6. RunTyped
  <2>1. mill \in [program : Pallets \cup {"position", "debug", "none"}, late : BOOLEAN]
    BY DEF Init, IdleMill
  <2>2. begun \in [Pallets -> Nat] /\ machined \subseteq Pallets /\ loc \in [Pallets -> Places]
        /\ complete \subseteq Pallets
    BY DEF Init
  <2>3. tokens \in 0..MaxToken /\ edits \in Nat /\ safety \in BOOLEAN
    <3>1. tokens = 0 /\ edits = 0 /\ safety = TRUE
      BY DEF Init
    <3>. QED
      BY <3>1, RunModeAssumption
  <2>4. co \in [Threads -> Coordinators]
    BY <1>3 DEF Init
  <2>. QED
    BY <1>1, <1>4, <1>5, <2>1, <2>2, <2>3, <2>4 DEF RunTyped
<1>7. ~Armed /\ \A c \in Threads : ~Alive(c) /\ ~Works(c) /\ ~Active(c)
  <2>1. ~Armed
    BY <1>1 DEF Armed
  <2>2. \A c \in Threads : co[c].pc = "off"
    BY <1>2
  <2>. QED
    BY <2>1, <2>2 DEF Alive, Works, Active
<1>8. TokensOK
  <2>1. tokens = 0
    BY DEF Init
  <2>2. run.token <= tokens
    <3>1. run.token = 0
      BY <1>1
    <3>. QED
      BY <2>1, <3>1
  <2>3. \A c \in Threads : co[c].token <= tokens
    BY <1>2, <2>1
  <2>4. ~run.enabled
    BY <1>1
  <2>. QED
    BY <1>7, <2>2, <2>3, <2>4, Zenon DEF TokensOK
<1>9. LegsOK
  BY <1>2, <1>7 DEF LegsOK, LegAt, Wants, Prompted
<1>10. LateOK /\ MotionOK /\ StayOK
  BY <1>2, <1>4, <1>7, AtMostOne DEF LateOK, LateAt, MotionOK, MotionAt, StayOK, StayAt, Locked, Init
<1>11. MillOK /\ EarnedOK /\ FreshOK
  BY <1>2, <1>4, <1>7 DEF MillOK, MillAt, Idling, EarnedOK, EarnedAt, FreshOK, FreshAt
<1>. QED
  BY <1>6, <1>8, <1>9, <1>10, <1>11 DEF RunInv

\* Every step keeps it.
LEMMA RunInvStep == RunInv /\ [Next]_vars => RunInv'
<1>1. CASE RunInv /\ Next
  BY <1>1, TypesStep, TokensStep, LegsStep, LateStep, MotionStep, StayStep, MillStep, EarnedStep, FreshStep
     DEF RunInv
<1>2. CASE RunInv /\ UNCHANGED vars
  <2>. USE <1>2 DEF vars, board, cell, seen
  <2>1. RunTyped'
    BY DEF RunInv, RunTyped
  <2>2. TokensOK' /\ LegsOK' /\ LateOK'
    BY DEF RunInv, TokensOK, Armed, Alive, LegsOK, LegAt, Works, Wants, Prompted, LateOK, LateAt, TokenActive
  <2>3. MotionOK' /\ StayOK'
    BY DEF RunInv, MotionOK, MotionAt, Locked, Active, Alive, TokenActive, Armed, StayOK, StayAt, Works, InMill
  <2>4. MillOK'
    BY DEF RunInv, MillOK, MillAt, Idling, Active, Alive, TokenActive, Wants, Prompted
  <2>5. EarnedOK'
    BY DEF RunInv, EarnedOK, EarnedAt, Earning, Active, Alive, TokenActive, Works
  <2>6. FreshOK'
    BY DEF RunInv, FreshOK, FreshAt, LoadedFresh, Sending, Prompted, Active, Alive, TokenActive, Armed, InMill
  <2>. QED
    BY <2>1, <2>2, <2>3, <2>4, <2>5, <2>6 DEF RunInv
<1>. QED
  BY <1>1, <1>2

\* All of it holds of every state of the process: what OneCoordinator,
\* ProgramEndsBeforeTransfer and the three action properties below need.
THEOREM RunIsInvariant == Spec => []RunInv
BY RunInvInit, RunInvStep, PTL DEF Spec

\* The settings row, the threads, the board and the cell are well formed.
THEOREM RunIsTyped == Spec => []RunTypeOK
<1>1. RunInv => RunTypeOK
  <2>. SUFFICES ASSUME RunInv
                PROVE  RunTypeOK
    OBVIOUS
  <2>. USE DEF RunInv
  <2>1. run \in RunRow /\ tokens \in 0..MaxToken /\ tokens \in Nat
    BY RunModeAssumption DEF RunTyped
  <2>2. motion \in Motions /\ mill.program \in Pallets \cup {"position", "debug", "none"}
    BY DEF RunTyped
  <2>3. run.token \in 0..tokens
    <3>1. run.token \in Nat /\ run.token <= tokens
      BY <2>1 DEF TokensOK, RunRow
    <3>. QED
      BY <2>1, <3>1
  <2>4. ASSUME NEW c \in Threads
        PROVE  /\ co[c].token \in 0..tokens /\ co[c].leg \in Legs /\ co[c].job \in Jobs
               /\ co[c].tries \in 0..RetryLimit
               /\ co[c].cmd \in {"none", "running", "completed", "stopped"}
    <3>1. co[c] \in Coordinators /\ co[c].token <= tokens
      BY DEF RunTyped, TokensOK
    <3>. QED
      BY <2>1, <3>1 DEF Coordinators
  <2>. QED
    BY <2>1, <2>2, <2>3, <2>4 DEF RunTypeOK, RunTyped, RunRow, Motions
<1>. QED
  BY <1>1, RunIsInvariant, PTL

\* start_run_mode, start_run_mode_recovery and resume_armed_run_mode never leave
\* two live threads with the token of the run that is enabled.
THEOREM OneThreadPerRun == Spec => []OneCoordinator
<1>1. RunInv => OneCoordinator
  BY DEF RunInv, TokensOK, OneCoordinator
<1>. QED
  BY <1>1, RunIsInvariant, PTL

\* No thread moves a pallet in or out of the mill while a program of Run Mode is
\* still running, but for the recovery that moves the robot alone and a program that
\* a stopped thread began. A program of the debug page is not Run Mode's: its handler
\* starts it whatever the robot does.
THEOREM ProgramsEndBeforeTransfers == Spec => []ProgramEndsBeforeTransfer
<1>1. RunInv => ProgramEndsBeforeTransfer
  BY DEF RunInv, MotionOK, MillOK, MillAt, Idling, ProgramEndsBeforeTransfer
<1>. QED
  BY <1>1, RunIsInvariant, PTL
\* stop_run_mode does not wait for the threads: one that is past its last check
\* of the token still sends its program, and that is all it does.
THEOREM OverIsTheEnd == Spec => OverIsOver
<1>1. ASSUME RunInv, RunInv', [Next]_vars, NEW c \in Threads
      PROVE  /\ co'[c].late <= 1
             /\ co[c].pc # "motion" /\ co'[c].pc = "motion" => run.enabled /\ run.token = co[c].token
  <2>1. co'[c].late <= 1
    BY <1>1 DEF RunInv, LateOK, LateAt
  <2>2. ASSUME co[c].pc # "motion", co'[c].pc = "motion"
        PROVE  run.enabled /\ run.token = co[c].token
    <3>1. Next
      BY <1>1, <2>2 DEF vars
    <3>2. CASE ThreadStep(c) \/ ThreadConflicts(c)
      BY <1>1, <2>2, <3>2, AtMotion DEF RunInv, Active, TokenActive
    <3>3. ASSUME NEW d \in Threads, d # c, ThreadStep(d) \/ ThreadConflicts(d)
          PROVE  FALSE
      BY <1>1, <2>2, <3>3, OthersIdle DEF RunInv, Idles
    <3>4. CASE Others
      BY <1>1, <2>2, <3>4, OperatorIdle DEF RunInv, Idles, News, Recovers, Resumes
    <3>. QED
      BY <3>1, <3>2, <3>3, <3>4 DEF Next, Others
  <2>. QED
    BY <2>1, <2>2
<1>2. RunInv /\ RunInv' /\ [Next]_vars =>
        \A c \in Threads :
          /\ co'[c].late <= 1
          /\ co[c].pc # "motion" /\ co'[c].pc = "motion" => run.enabled /\ run.token = co[c].token
  BY <1>1
<1>. QED
  BY <1>2, RunIsInvariant, PTL DEF Spec, OverIsOver

\* Only the end of a cycle and the operator's edits mark a pallet complete.
LEMMA CompletedBy ==
  ASSUME RunTyped, Next, NEW p \in complete' \ complete
  PROVE  UpdatePallet(p) \/ \E c \in Threads : /\ Finish(c) /\ co[c].pallet = p
                                               /\ co[c].job # "unload_then_queue"
<1>. USE DEF board
<1>1. ASSUME complete' = complete
      PROVE  FALSE
  BY <1>1
<1>2. ASSUME NEW c \in Threads, ThreadStep(c) \/ ThreadConflicts(c)
      PROVE  Finish(c) /\ co[c].pallet = p /\ co[c].job # "unload_then_queue"
  <2>1. CASE GivesUp(c) \/ ThreadConflicts(c) \/ Prepare(c) \/ HandleLoaded(c) \/ Pick(c)
    BY <1>1, <2>1 DEF GivesUp, ThreadConflicts, Prepare, HandleLoaded, Pick
  <2>2. CASE Ask(c) \/ Granted(c) \/ Position(c) \/ Machine(c) \/ CheckMill(c) \/ Send(c)
    BY <1>1, <2>2 DEF Ask, Granted, Position, Machine, CheckMill, Send
  <2>3. CASE Monitor(c) \/ PauseWait(c) \/ Transfer(c) \/ MotionDone(c) \/ MotionFaults(c) \/ Ending(c)
    BY <1>1, <2>3 DEF Monitor, PauseWait, Transfer, MotionDone, MotionFaults, Ending
  <2>4. CASE Finish(c)
    BY <2>4 DEF Finish
  <2>. QED
    BY <1>2, <2>1, <2>2, <2>3, <2>4 DEF ThreadStep
<1>3. CASE \E loaded \in LoadedActions \cup {"none"}, safe \in BOOLEAN : Start(loaded, safe)
  BY <1>1, <1>3 DEF Start
<1>4. CASE \E strategy \in Strategies : StartRecovery(strategy)
  BY <1>1, <1>4 DEF StartRecovery
<1>5. CASE Stop \/ CancelRecovery \/ Approve \/ Decline \/ ClearStatus \/ PauseForManual \/ ResumeManual
  BY <1>1, <1>5 DEF Stop, CancelRecovery, Approve, Decline, ClearStatus, PauseForManual, ResumeManual
<1>6. ASSUME NEW q \in Pallets, QueuePallet(q) \/ Dequeue(q)
      PROVE  FALSE
  BY <1>6 DEF QueuePallet, Dequeue
<1>7. ASSUME NEW q \in Pallets, UpdatePallet(q)
      PROVE  q = p
  BY <1>7 DEF UpdatePallet
<1>8. CASE (\E q \in Pallets, place \in Places : Relocate(q, place)) \/ \E place \in Places : RecoverMotion(place)
  BY <1>1, <1>8 DEF Relocate, RecoverMotion
<1>9. CASE ControlMillStop \/ DebugProgram \/ (\E normal \in BOOLEAN : MillEnds(normal)) \/ Restart
  BY <1>1, <1>9 DEF ControlMillStop, DebugProgram, MillEnds, Restart
<1>. QED
  BY <1>2, <1>3, <1>4, <1>5, <1>6, <1>7, <1>8, <1>9 DEF Next, Operator

\* A pallet is marked complete by the cycle that machined it in this stay, by a
\* recovery the operator chose, or by the operator's own edit.
THEOREM CompletionEarned == Spec => CompletionIsEarned
<1>1. ASSUME RunInv, [Next]_vars, NEW p \in complete' \ complete
      PROVE  \/ \E c \in Threads : co[c].pc = "finish" /\ co[c].pallet = p
                                   /\ (co[c].earned \/ Recovering(c))
             \/ UpdatePallet(p)
  <2>1. Next
    BY <1>1 DEF vars, board
  <2>2. CASE UpdatePallet(p)
    BY <2>2
  <2>3. ASSUME NEW c \in Threads, Finish(c), co[c].pallet = p, co[c].job # "unload_then_queue"
        PROVE  co[c].pc = "finish" /\ (co[c].earned \/ Recovering(c))
    <3>1. co[c].pc = "finish"
      BY <2>3 DEF Finish
    <3>2. co[c].job \in Jobs
      BY <1>1 DEF RunInv, RunTyped, Coordinators
    <3>3. Earning(c) \/ Recovering(c)
      BY <2>3, <3>2 DEF Earning, Recovering, Jobs, LoadedActions
    <3>. QED
      BY <1>1, <3>1, <3>3 DEF RunInv, EarnedOK, EarnedAt
  <2>. QED
    BY <1>1, <2>1, <2>2, <2>3, CompletedBy DEF RunInv
<1>2. RunInv /\ [Next]_vars =>
        \A p \in complete' \ complete :
          \/ \E c \in Threads : co[c].pc = "finish" /\ co[c].pallet = p
                                /\ (co[c].earned \/ Recovering(c))
          \/ UpdatePallet(p)
  BY <1>1
<1>. QED
  BY <1>2, RunIsInvariant, PTL DEF Spec, CompletionIsEarned

\* An operator who asked once for a pallet's program gets it begun once, however
\* often the dispatch is retried, and with that pallet in the mill.
THEOREM OneRunForOneRequest == Spec => OneRunPerRequest
<1>1. ASSUME RunInv, [Next]_vars, NEW p \in Pallets, begun'[p] > begun[p]
      PROVE  begun[p] = 0 /\ loc[p] = "machine"
  <2>1. begun \in [Pallets -> Nat]
    BY <1>1 DEF RunInv, RunTyped
  <2>2. Next
    BY <1>1, <2>1 DEF vars, seen
  <2>3. ~Aging
    BY <1>1, <2>1 DEF Aging
  <2>4. PICK c \in Threads : Send(c) /\ Active(c)
    BY <1>1, <2>2, <2>3, AgesByThread, AgesByOthers DEF RunInv, Next, Others
  <2>5. co[c].pc = "send" /\ co[c].leg = "machining" /\ p = co[c].pallet
    BY <1>1, <2>1, <2>4, SendFields DEF RunInv, SentMill
  <2>6. FreshAt(c) /\ StayAt(c)
    BY <1>1 DEF RunInv, FreshOK, StayOK
  <2>. QED
    BY <2>4, <2>5, <2>6 DEF FreshAt, StayAt, Sending, Works
<1>2. RunInv /\ [Next]_vars =>
        \A p \in Pallets : begun'[p] > begun[p] => begun[p] = 0 /\ loc[p] = "machine"
  BY <1>1
<1>. QED
  BY <1>2, RunIsInvariant, PTL DEF Spec, OneRunPerRequest
=============================================================================
