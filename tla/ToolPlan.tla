------------------------------ MODULE ToolPlan ------------------------------
(***************************************************************************)
(* The automatic schedule (autoschedule.py and autoschedule_queue_preview  *)
(* of service.py): an order of the queued pallets that moves few tools     *)
(* through the changer of the mill, found by an exact search for a short   *)
(* queue and by a greedy search with local improvement for a long one, and *)
(* its application to the queue by the operator.                           *)
(*                                                                         *)
(* A preview reads the queue and the changer once; the pass over the pairs *)
(* of a long queue is the only part that runs step by step here.           *)
(***************************************************************************)
EXTENDS Naturals, Sequences, FiniteSets, SequencesExt

CONSTANTS
  MaxQueue,       \* bound: pallets in the queue
  MaxTool,        \* bound: tool numbers
  Programs,       \* bound: the tools of the programs of the pallets
  MaxSlots,       \* bound: positions of the changer that telemetry reports
  Baseline,       \* capacity assumed without telemetry (16 in the code)
  ExactLimit,     \* jobs up to which every order is tried (8 in the code)
  MaxPasses,      \* passes of the local improvement (5 in the code)
  MaxPreviews     \* bound: previews of one queue

ASSUME PlanConstants == /\ {MaxQueue, MaxTool, MaxSlots, Baseline, ExactLimit, MaxPasses, MaxPreviews} \subseteq Nat
                        /\ 0 < Baseline /\ 0 < ExactLimit /\ \A p \in Programs : p \subseteq 1..MaxTool

VARIABLES
  queue,      \* the queue: pallets in their order, each with the tools of its program
  changer,    \* the tools that telemetry reports, and the number of positions (0: no telemetry)
  search,     \* the search in progress: phase, best order, pass, pair, and whether the pass improved
  previews    \* how often a preview was asked for

vars == <<queue, changer, search, previews>>

Tools == 1..MaxTool
Pallets == 1..MaxQueue

\* How many jobs there are up to a place of the queue: a pallet whose program names no tool is none.
JobNumber(q, place) == Cardinality({i \in 1..place : q[i].tools # {}})

\* A pallet whose program names no tool keeps its place.
Jobs(q) ==
  LET places == {i \in 1..Len(q) : q[i].tools # {}}
  IN  [n \in 1..Cardinality(places) |-> q[CHOOSE i \in places : JobNumber(q, i) = n]]

Position(q, id) == CHOOSE i \in 1..Len(q) : q[i].id = id

LargestJob(jobs) == Max({Cardinality(jobs[i].tools) : i \in 1..Len(jobs)} \cup {0})

\* The changer is taken to be large enough for what is in it and for the largest program.
Capacity(jobs) ==
  Max({changer.slots, Cardinality(changer.tools), LargestJob(jobs), IF changer.slots = 0 THEN Baseline ELSE 0})

-----------------------------------------------------------------------------
(* Simulation of an order of jobs.                                         *)

\* Faulty variant: a tool without a further use counts as needed at once.
NextUse_NeverIsNow(tool, order, start) ==
  LET later == {i \in start..Len(order) : tool \in order[i].tools}
  IN  IF later = {} THEN 0 ELSE Min(later)

NextUse(tool, order, start) ==
  LET later == {i \in start..Len(order) : tool \in order[i].tools}
  IN  IF later = {} THEN Len(order) + 2 ELSE Min(later)

\* Faulty variant: one more tool is thought to fit.
RemoveCount_OneLess(loaded, missing, capacity) ==
  LET count == Cardinality(loaded) + Cardinality(missing)
  IN  IF count <= capacity + 1 THEN 0 ELSE count - capacity - 1

RemoveCount(loaded, missing, capacity) ==
  LET count == Cardinality(loaded) + Cardinality(missing)
  IN  IF count <= capacity THEN 0 ELSE count - capacity

\* Of the tools the job does not use, those whose next use is furthest away, lower numbers first.
Removals(order, index, loaded, count) ==
  LET removable == loaded \ order[index].tools
      Before(s, t) == \/ NextUse(s, order, index + 1) > NextUse(t, order, index + 1)
                      \/ NextUse(s, order, index + 1) = NextUse(t, order, index + 1) /\ s < t
  IN  {t \in removable : Cardinality({s \in removable : Before(s, t)}) < count}

\* After each job: what is loaded, what was exchanged for it, and the totals.
simulate_tool_plan(order, initial, capacity) ==
  LET sim[i \in 0..Len(order)] ==
        IF i = 0 THEN [loaded |-> initial, loads |-> 0, unloads |-> 0, taken |-> {}, put |-> {}]
        ELSE LET before  == sim[i - 1]
                 missing == order[i].tools \ before.loaded
                 removed == Removals(order, i, before.loaded, RemoveCount(before.loaded, missing, capacity))
             IN  [loaded  |-> (before.loaded \ removed) \cup missing,
                  loads   |-> before.loads + Cardinality(missing),
                  unloads |-> before.unloads + Cardinality(removed),
                  taken   |-> removed, put |-> missing]
  IN  sim

Totals(order, capacity) == simulate_tool_plan(order, changer.tools, capacity)[Len(order)]

Movements(order, capacity) == LET t == Totals(order, capacity) IN t.loads + t.unloads

-----------------------------------------------------------------------------
(* Search.                                                                 *)

\* Faulty variant: higher positions first.
EarlierPositions_Later(jobs, a, b) ==
  \E i \in 1..Len(a) : /\ Position(jobs, a[i].id) > Position(jobs, b[i].id)
                       /\ \A j \in 1..(i - 1) : a[j] = b[j]

\* Lower positions first; two orders of the same jobs differ somewhere.
EarlierPositions(jobs, a, b) ==
  \E i \in 1..Len(a) : /\ Position(jobs, a[i].id) < Position(jobs, b[i].id)
                       /\ \A j \in 1..(i - 1) : a[j] = b[j]

\* _plan_key: movements, then loads, then the original positions.
PlanBefore(jobs, capacity, a, b) ==
  LET p == Totals(a, capacity)
      q == Totals(b, capacity)
  IN  \/ p.loads + p.unloads < q.loads + q.unloads
      \/ p.loads + p.unloads = q.loads + q.unloads /\ p.loads < q.loads
      \/ /\ p.loads + p.unloads = q.loads + q.unloads /\ p.loads = q.loads
         /\ EarlierPositions(jobs, a, b)

BestOf(orders, jobs, capacity) ==
  CHOOSE o \in orders : \A p \in orders : ~PlanBefore(jobs, capacity, p, o)

\* The job whose addition makes the best plan so far, again and again.
Greedy(seed, jobs, capacity) ==
  LET order[n \in 1..Len(jobs)] ==
        IF n = 1 THEN <<seed>>
        ELSE LET remaining == ToSet(jobs) \ ToSet(order[n - 1])
             IN  BestOf({Append(order[n - 1], job) : job \in remaining}, jobs, capacity)
  IN  order[Len(jobs)]

GreedyOrders(jobs, capacity) == {jobs} \cup {Greedy(jobs[i], jobs, capacity) : i \in 1..Len(jobs)}

Exact(jobs) == Len(jobs) <= ExactLimit

Candidates(jobs, capacity) ==
  IF Exact(jobs) THEN SetToSeqs(ToSet(jobs)) ELSE GreedyOrders(jobs, capacity)

-----------------------------------------------------------------------------
(* A preview and its application.                                          *)

NoSearch == [phase |-> "none", best |-> << >>, pass |-> 0, left |-> 1, right |-> 2, improved |-> FALSE]

\* Everything up to the local improvement.
Preview ==
  LET jobs == Jobs(queue)
  IN  /\ search.phase = "none" /\ previews < MaxPreviews
      /\ search' = [NoSearch EXCEPT !.best = BestOf(Candidates(jobs, Capacity(jobs)), jobs, Capacity(jobs)),
                                    !.phase = IF Exact(jobs) THEN "shown" ELSE "improving",
                                    !.pass = IF Exact(jobs) THEN 0 ELSE 1]
      /\ previews' = previews + 1
      /\ UNCHANGED <<queue, changer>>

Swapped(order, left, right) == [order EXCEPT ![left] = order[right], ![right] = order[left]]

\* One pair of one pass: swapped when that makes the plan better.
TryPair ==
  LET jobs      == Jobs(queue)
      candidate == Swapped(search.best, search.left, search.right)
      better    == PlanBefore(jobs, Capacity(jobs), candidate, search.best)
  IN  /\ search.phase = "improving" /\ search.left < Len(jobs)
      /\ search' = [search EXCEPT !.best = IF better THEN candidate ELSE @,
                                  !.improved = @ \/ better,
                                  !.left  = IF search.right = Len(jobs) THEN @ + 1 ELSE @,
                                  !.right = IF @ = Len(jobs) THEN search.left + 2 ELSE @ + 1]
      /\ UNCHANGED <<queue, changer, previews>>

EndPass ==
  /\ search.phase = "improving" /\ search.left >= Len(Jobs(queue))
  /\ search' = IF search.improved /\ search.pass < MaxPasses
               THEN [search EXCEPT !.pass = @ + 1, !.left = 1, !.right = 2, !.improved = FALSE]
               ELSE [NoSearch EXCEPT !.phase = "shown", !.best = search.best]
  /\ UNCHANGED <<queue, changer, previews>>

\* The jobs of the plan fill the places that jobs had; the other pallets keep theirs.
FullOrder(order) ==
  [i \in 1..Len(queue) |->
     IF queue[i].tools = {} THEN queue[i]
     ELSE order[JobNumber(queue, i)]]

\* The operator applies the order shown (reorder_queue, refused when the board changed meanwhile).
Apply ==
  /\ search.phase = "shown"
  /\ queue' = FullOrder(search.best)
  /\ search' = NoSearch
  /\ UNCHANGED <<changer, previews>>

\* A queue, and a changer with telemetry or without.
Init ==
  /\ \E n \in 0..MaxQueue :
       \E tools \in [1..n -> Programs] :
         queue = [i \in 1..n |-> [id |-> i, tools |-> tools[i]]]
  /\ changer \in {c \in [tools : SUBSET Tools, slots : {0, MaxSlots}] : Cardinality(c.tools) <= c.slots}
  /\ search = NoSearch
  /\ previews = 0

Next == Preview \/ TryPair \/ EndPass \/ Apply

Spec == Init /\ [][Next]_vars

-----------------------------------------------------------------------------
(* Properties.                                                             *)

Shown == search.phase = "shown"

\* Tools moved to turn one content of the changer into another.
Exchange(a, b) == Cardinality(a \ b) + Cardinality(b \ a)

\* The reference: the fewest tools that any plan moves, whatever the order of the jobs and
\* whatever it leaves in the changer, tools brought in early included.
CheapestMovements(jobs, capacity) ==
  LET ServedBy(job) == {c \in SUBSET Tools : job.tools \subseteq c /\ Cardinality(c) <= capacity}
      cost[remaining \in SUBSET ToSet(jobs)] ==
        [loaded \in SUBSET Tools |->
           IF remaining = {} THEN 0
           ELSE Min(UNION {{Exchange(loaded, c) + cost[remaining \ {job}][c] : c \in ServedBy(job)} : job \in remaining})]
  IN  cost[ToSet(jobs)][changer.tools]

\* "Exact minimum search" is one: no other order, and no other choice of what to take out, moves
\* fewer tools (autoschedule.py 20-50 takes out the tool whose next use is furthest away).
PlanIsCheapest ==
  Shown /\ Exact(Jobs(queue)) =>
    Movements(search.best, Capacity(Jobs(queue))) = CheapestMovements(Jobs(queue), Capacity(Jobs(queue)))

\* A preview can be carried out: before each job no more tools are in the changer than fit, what is
\* taken out was in it and is not used by the job, and the job finds its tools (autoschedule.py 31-64).
\* It offers the queue's own pallets, leaves those without tools where they are, and never moves more
\* tools than the order it found, however the local improvement ended (service.py 2686-2692).
PreviewKeepsQueue ==
  Shown =>
    LET capacity == Capacity(Jobs(queue))
        sim == simulate_tool_plan(search.best, changer.tools, capacity)
    IN  /\ \A i \in 1..Len(search.best) :
             /\ search.best[i].tools \subseteq sim[i].loaded /\ Cardinality(sim[i].loaded) <= capacity
             /\ sim[i].taken \subseteq sim[i - 1].loaded \ search.best[i].tools
             /\ sim[i].put \subseteq search.best[i].tools \ sim[i - 1].loaded
        /\ ToSet(FullOrder(search.best)) = ToSet(queue) /\ Len(search.best) = Len(Jobs(queue))
        /\ \A i \in 1..Len(queue) : queue[i].tools = {} => FullOrder(search.best)[i] = queue[i]
        /\ Movements(search.best, capacity) <= Movements(Jobs(queue), capacity)

\* An exact plan that was applied is final: the next preview has nothing to change, although the
\* positions that break its ties are new ones (autoschedule.py 71-77).
AppliedPlanIsFinal ==
  Shown /\ previews > 1 /\ Exact(Jobs(queue)) => FullOrder(search.best) = queue

=============================================================================
