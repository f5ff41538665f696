------------------------------ MODULE MillProofs ------------------------------
(***************************************************************************)
(* Theorems about MillSupervisor, for every number of callers, sequences,  *)
(* connections and troubles: type correctness, and that the protocol       *)
(* implements OneProgramPerCommand.  The invariant MillInv is kept part by *)
(* part.                                                                   *)
(***************************************************************************)
EXTENDS MillSupervisor, SequenceTheorems, TLAPS

-----------------------------------------------------------------------------
(* Frames and connections.                                                 *)

\* What a frame towards the application can be.
LEMMA FrameKinds ==
  /\ \A f \in Hellos : f.kind = "hello" /\ f.seq \in 0..MaxSequence /\ f.result \in Results
  /\ \A f \in Reports : /\ f.kind = "event" /\ f.seq \in Seqs
                        /\ f.event \in Verdicts \cup {"accepted", "running"}
  /\ \A f \in Hellos \cup Reports : (f.kind = "hello" <=> f \in Hellos) /\ (f.kind = "event" <=> f \in Reports)
BY DEF Hellos, Reports

\* The numbers that count.
LEMMA Numbers ==
  /\ MaxSequence \in Nat \ {0} /\ Manual \in Nat /\ Manual \notin Seqs /\ 0 \notin Seqs
  /\ Seqs \subseteq 0..MaxSequence /\ 0 \notin Links
BY MillAssumption DEF Manual, Seqs

\* One connection.
LEMMA WireOf ==
  ASSUME LinkTyped, NEW k \in Links
  PROVE  /\ link[k] \in Wires /\ link[k].up \in Seq(Hellos \cup Reports) /\ link[k].down \in Seq(Commands)
         /\ link[k].server \in {"new", "live", "done"} /\ link[k].cut \in BOOLEAN
         /\ \A i \in 1..Len(link[k].up) : link[k].up[i] \in Hellos \cup Reports
         /\ \A i \in 1..Len(link[k].down) : link[k].down[i] \in Commands
BY DEF LinkTyped, Wires

\* What a queue loses at its head, and gains at its end.
LEMMA TailIs ==
  ASSUME NEW S, NEW q \in Seq(S), q # <<>>
  PROVE  /\ Head(q) \in S /\ Head(q) = q[1] /\ 1 \in 1..Len(q)
         /\ Tail(q) \in Seq(S) /\ Len(Tail(q)) = Len(q) - 1
         /\ \A i \in 1..Len(Tail(q)) : i + 1 \in 1..Len(q) /\ Tail(q)[i] = q[i + 1]
BY HeadTailProperties

\* The changes of one connection, and of the agent's.
Others(k) == \A j \in Links \ {k} : link'[j] = link[j]
UpIs(k, q) == /\ Others(k) /\ link'[k].up = q /\ link'[k].down = link[k].down
              /\ link'[k].server = link[k].server /\ link'[k].cut = link[k].cut
DownIs(k, q) == /\ Others(k) /\ link'[k].down = q /\ link'[k].up = link[k].up
                /\ link'[k].server = link[k].server /\ link'[k].cut = link[k].cut
Left(k) == /\ \A j \in Links \ {k} : link'[j] = link[j]
           /\ k # 0 => /\ link'[k].cut = TRUE /\ link'[k].down = <<>> /\ link'[k].up = link[k].up
                       /\ link'[k].server = link[k].server

\* A connection is replaced.
LEMMA WireReplaced ==
  ASSUME LinkTyped, NEW k \in Links, NEW w \in Wires, link' = [link EXCEPT ![k] = w]
  PROVE  LinkTyped' /\ Others(k) /\ link'[k] = w
BY DEF LinkTyped, Others

\* A queue of a connection is replaced.
LEMMA QueueReplaced ==
  ASSUME LinkTyped, NEW k \in Links
  PROVE  /\ \A q \in Seq(Hellos \cup Reports) :
              link' = [link EXCEPT ![k].up = q] => UpIs(k, q) /\ LinkTyped'
         /\ \A q \in Seq(Commands) :
              link' = [link EXCEPT ![k].down = q] => DownIs(k, q) /\ LinkTyped'
<1>1. link[k] \in Wires
  BY WireOf
<1>2. ASSUME NEW q \in Seq(Hellos \cup Reports), link' = [link EXCEPT ![k].up = q]
      PROVE  UpIs(k, q) /\ LinkTyped'
  BY <1>1, <1>2 DEF LinkTyped, Wires, UpIs, Others
<1>3. ASSUME NEW q \in Seq(Commands), link' = [link EXCEPT ![k].down = q]
      PROVE  DownIs(k, q) /\ LinkTyped'
  BY <1>1, <1>3 DEF LinkTyped, Wires, DownIs, Others
<1>. QED
  BY <1>2, <1>3

\* The agent gives its connection up, if it has one.
LEMMA DroppedIs ==
  ASSUME LinkTyped, NEW k \in Links \cup {0}, link' = Dropped(k)
  PROVE  Left(k) /\ LinkTyped'
<1>1. CASE k = 0
  BY <1>1, Numbers DEF Dropped, Left, LinkTyped
<1>2. CASE k \in Links
  <2>1. link[k] \in Wires /\ k # 0
    BY <1>2, WireOf, Numbers
  <2>2. link' = [link EXCEPT ![k].cut = TRUE, ![k].down = <<>>]
    BY <2>1 DEF Dropped
  <2>3. link' = [link EXCEPT ![k] = [link[k] EXCEPT !.cut = TRUE, !.down = <<>>]]
    BY <1>2, <2>2 DEF LinkTyped
  <2>4. [link[k] EXCEPT !.cut = TRUE, !.down = <<>>] \in Wires
    <3>1. <<>> \in Seq(Commands)
      OBVIOUS
    <3>. QED
      BY <2>1, <3>1 DEF Wires
  <2>5. LinkTyped'
    BY <1>2, <2>3, <2>4 DEF LinkTyped
  <2>6. Left(k)
    BY <1>2, <2>1, <2>3 DEF LinkTyped, Left, Wires
  <2>. QED
    BY <2>5, <2>6
<1>. QED
  BY <1>1, <1>2

\* What the agent writes arrives at the end of its connection, unless it is cut.
Tells(fs) == link' = link \/ (~link[agent.link].cut /\ UpIs(agent.link, link[agent.link].up \o fs))

\* That is what Writes does.
LEMMA WritesIs ==
  ASSUME LinkTyped, agent.link \in Links, NEW fs \in Seq(Hellos \cup Reports), Writes(fs)
  PROVE  Tells(fs) /\ LinkTyped'
<1>1. link[agent.link].up \in Seq(Hellos \cup Reports)
  BY WireOf
<1>2. link[agent.link].up \o fs \in Seq(Hellos \cup Reports)
  BY <1>1, ConcatProperties
<1>3. CASE link[agent.link].cut
  BY <1>3 DEF Writes, Tells, LinkTyped
<1>4. CASE ~link[agent.link].cut
  <2>1. link' = [link EXCEPT ![agent.link].up = link[agent.link].up \o fs]
    BY <1>4 DEF Writes
  <2>. QED
    BY <1>2, <1>4, <2>1, QueueReplaced DEF Tells
<1>. QED
  BY <1>3, <1>4
-----------------------------------------------------------------------------
(* What a step never takes back.                                           *)

Grows == \A s \in Seqs :
           Marked(s) => Marked(s)' /\ rows'[s].op = rows[s].op /\ (Ended(s) => Ended(s)')

\* A claim that held of a command still holds.
LEMMA Growing ==
  ASSUME Grows
  PROVE  /\ \A s : Marked(s) => Marked(s)'
         /\ \A s : Sent(s) => Sent(s)'
         /\ \A s, e : Says(s, e) => Says(s, e)'
         /\ \A f : SaysFrame(f) => SaysFrame(f)'
         /\ \A f : Due(f) => Due(f)'
<1>1. \A s : Marked(s) => s \in Seqs
  BY DEF Marked
<1>2. \A s : Marked(s) => Marked(s)' /\ rows'[s].op = rows[s].op /\ (Ended(s) => Ended(s)')
  BY <1>1 DEF Grows
<1>3. \A s : Sent(s) => Sent(s)'
  BY <1>2 DEF Sent
<1>4. \A s, e : Says(s, e) => Says(s, e)'
  BY <1>2 DEF Says
<1>5. \A f : SaysFrame(f) => SaysFrame(f)'
  BY <1>4 DEF SaysFrame
<1>6. \A f : Due(f) => Due(f)'
  BY <1>2 DEF Due
<1>. QED
  BY <1>2, <1>3, <1>4, <1>5, <1>6

\* A step that leaves the ledger's rows and the programs alone.
LEMMA StillGrows ==
  ASSUME UNCHANGED <<rows, part>>
  PROVE  Grows
BY DEF Grows, Marked, Ended

-----------------------------------------------------------------------------
(* How the connections move.                                               *)

\* The commands of a connection: taken from the front, or lost.
Shrinks(k) == \/ link'[k].down = link[k].down \/ link'[k].down = <<>>
              \/ link[k].down # <<>> /\ link'[k].down = Tail(link[k].down)

\* The frames towards the application: read from the front, lost, or joined by fs.
Gains(k, fs) == \/ link'[k].up = link[k].up \/ link'[k].up = <<>>
                \/ link[k].up # <<>> /\ link'[k].up = Tail(link[k].up)
                \/ link'[k].up = link[k].up \o fs

\* What the agent can do to a connection.
Calm(k, fs) == /\ link'[k].server = link[k].server
               /\ link[k].cut => link'[k].cut
               /\ \/ link'[k].up = link[k].up
                  \/ ~link[k].cut /\ link'[k].up = link[k].up \o fs
Moves(fs) == \A k \in Links : Shrinks(k) /\ Calm(k, fs)

\* How far a queue of commands moved up.
Shift(k) == Len(link[k].down) - Len(link'[k].down)

\* A command that waits now waited before, one place further back at most.
LEMMA ShiftIs ==
  ASSUME LinkTyped, LinkTyped', NEW k \in Links, Shrinks(k)
  PROVE  \A i \in 1..Len(link'[k].down) :
           /\ i \in Nat /\ Shift(k) \in Int
           /\ i + Shift(k) \in 1..Len(link[k].down)
           /\ link'[k].down[i] = link[k].down[i + Shift(k)]
<1>1. link[k].down \in Seq(Commands) /\ Len(link[k].down) \in Nat
  BY WireOf
<1>2. CASE link'[k].down = link[k].down
  BY <1>1, <1>2 DEF Shift
<1>3. CASE link'[k].down = <<>>
  BY <1>3
<1>4. CASE link[k].down # <<>> /\ link'[k].down = Tail(link[k].down)
  <2>1. /\ Len(link'[k].down) = Len(link[k].down) - 1
        /\ \A i \in 1..Len(link'[k].down) :
             i + 1 \in 1..Len(link[k].down) /\ link'[k].down[i] = link[k].down[i + 1]
    BY <1>1, <1>4, TailIs
  <2>2. Shift(k) = 1
    BY <1>1, <2>1 DEF Shift
  <2>. QED
    BY <2>1, <2>2
<1>. QED
  BY <1>2, <1>3, <1>4 DEF Shrinks

\* Frames that arrived before are still there, or are new.
LEMMA GainsIs ==
  ASSUME LinkTyped, LinkTyped', NEW k \in Links, NEW fs \in Seq(Reports), Gains(k, fs),
         NEW i \in 1..Len(link'[k].up)
  PROVE  \/ \E n \in 1..Len(link[k].up) : link'[k].up[i] = link[k].up[n]
         \/ \E n \in 1..Len(fs) : link'[k].up[i] = fs[n]
<1>1. link[k].up \in Seq(Hellos \cup Reports) /\ Len(link[k].up) \in Nat /\ i \in Nat
  BY WireOf
<1>2. CASE link'[k].up = link[k].up
  BY <1>2
<1>3. CASE link'[k].up = <<>>
  BY <1>3
<1>4. CASE link[k].up # <<>> /\ link'[k].up = Tail(link[k].up)
  <2>1. i + 1 \in 1..Len(link[k].up) /\ link'[k].up[i] = link[k].up[i + 1]
    BY <1>1, <1>4, TailIs
  <2>. QED
    BY <2>1
<1>5. CASE link'[k].up = link[k].up \o fs
  <2>1. fs \in Seq(Hellos \cup Reports) /\ Len(fs) \in Nat
    <3>1. Reports \subseteq Hellos \cup Reports
      OBVIOUS
    <3>. QED
      BY <3>1
  <2>2. /\ Len(link'[k].up) = Len(link[k].up) + Len(fs)
        /\ link'[k].up[i] = IF i <= Len(link[k].up) THEN link[k].up[i]
                            ELSE fs[i - Len(link[k].up)]
    BY <1>1, <1>5, <2>1, ConcatProperties
  <2>3. i <= Len(link[k].up) => i \in 1..Len(link[k].up)
    BY <1>1
  <2>4. ~(i <= Len(link[k].up)) => i - Len(link[k].up) \in 1..Len(fs)
    BY <1>1, <2>1, <2>2
  <2>. QED
    BY <2>2, <2>3, <2>4
<1>. QED
  BY <1>2, <1>3, <1>4, <1>5 DEF Gains

\* What is on the way stays in order when nothing new is sent and what comes
\* back is true.
LEMMA WiresKept ==
  ASSUME LinkTyped, LinkTyped', WiresOK, Grows, NEW fs \in Seq(Reports),
         \A k \in Links : Shrinks(k) /\ Gains(k, fs),
         \A i \in 1..Len(fs) : Sent(fs[i].seq)' /\ SaysFrame(fs[i])'
  PROVE  WiresOK' /\ \A s : Transmitted(s)' => Transmitted(s)
<1>1. \A k \in Links : \A i \in 1..Len(link'[k].down) :
        /\ i \in Nat /\ Shift(k) \in Int
        /\ i + Shift(k) \in 1..Len(link[k].down)
        /\ link'[k].down[i] = link[k].down[i + Shift(k)]
  BY ShiftIs
<1>2. ASSUME NEW k \in Links, NEW i \in 1..Len(link'[k].down)
      PROVE  Due(link[k].down[i])'
  <2>1. PICK f : f = link'[k].down[i]
    OBVIOUS
  <2>2. Due(f)
    <3>1. i + Shift(k) \in 1..Len(link[k].down) /\ f = link[k].down[i + Shift(k)]
      BY <1>1, <2>1
    <3>. QED
      BY <3>1 DEF WiresOK
  <2>3. Due(f)'
    BY <2>2, Growing
  <2>. QED
    BY <2>1, <2>3
<1>3. ASSUME NEW k \in Links, NEW i \in 1..Len(link'[k].up)
      PROVE  Sent(link[k].up[i].seq)' /\ SaysFrame(link[k].up[i])'
  <2>1. PICK f : f = link'[k].up[i]
    OBVIOUS
  <2>2. \/ \E n \in 1..Len(link[k].up) : f = link[k].up[n]
        \/ \E n \in 1..Len(fs) : f = fs[n]
    BY <2>1, GainsIs
  <2>3. (Sent(f.seq) /\ SaysFrame(f)) \/ (Sent(f.seq)' /\ SaysFrame(f)')
    BY <2>2 DEF WiresOK
  <2>4. Sent(f.seq)' /\ SaysFrame(f)'
    BY <2>3, Growing
  <2>. QED
    BY <2>1, <2>4
<1>4. ASSUME NEW j \in Links, NEW k \in Links, NEW i \in 1..Len(link'[j].down),
             NEW n \in 1..Len(link'[k].down),
             link'[j].down[i].seq = link'[k].down[n].seq
      PROVE  j = k /\ i = n
  <2>1. j = k /\ i + Shift(j) = n + Shift(k)
    <3>1. i + Shift(j) \in 1..Len(link[j].down) /\ link'[j].down[i] = link[j].down[i + Shift(j)]
      BY <1>1
    <3>2. n + Shift(k) \in 1..Len(link[k].down) /\ link'[k].down[n] = link[k].down[n + Shift(k)]
      BY <1>1
    <3>3. link[j].down[i + Shift(j)].seq = link[k].down[n + Shift(k)].seq
      BY <1>4, <3>1, <3>2
    <3>4. \A a \in 1..Len(link[j].down), b \in 1..Len(link[k].down) :
            link[j].down[a].seq = link[k].down[b].seq => j = k /\ a = b
      BY DEF WiresOK
    <3>. QED
      BY <3>1, <3>2, <3>3, <3>4
  <2>. QED
    BY <1>1, <2>1
<1>5. WiresOK'
  BY <1>2, <1>3, <1>4 DEF WiresOK
<1>6. \A s : Transmitted(s)' => Transmitted(s)
  BY <1>1 DEF Transmitted
<1>. QED
  BY <1>5, <1>6

\* The agent's changes keep what a connection is.
LEMMA CalmLinks ==
  ASSUME LinkTyped, LinkTyped', LinksOK, NEW fs \in Seq(Reports),
         \A k \in Links : Calm(k, fs),
         manager'.conn \in {0, manager.conn}, manager.conn \in Links \cup {0},
         agent'.pc \in AtWork => agent'.link # 0
  PROVE  LinksOK'
<1>1. ASSUME NEW k \in Links
      PROVE  /\ link'[k].server = "done" => link'[k].cut /\ link'[k].up = <<>>
             /\ link'[k].server = "new" => link'[k].up # <<>>
             /\ \A i \in 1..Len(link'[k].up) :
                  link'[k].up[i].kind = "hello" <=> link'[k].server = "new" /\ i = 1
  <2>1. /\ link[k].up \in Seq(Hellos \cup Reports) /\ Len(link[k].up) \in Nat
        /\ link[k].cut \in BOOLEAN
    BY WireOf
  <2>2. /\ link[k].server = "done" => link[k].cut /\ link[k].up = <<>>
        /\ link[k].server = "new" => link[k].up # <<>>
        /\ \A i \in 1..Len(link[k].up) :
             link[k].up[i].kind = "hello" <=> link[k].server = "new" /\ i = 1
    BY DEF LinksOK
  <2>3. Calm(k, fs)
    BY DEF Calm
  <2>4. CASE link'[k].up = link[k].up
    BY <2>2, <2>3, <2>4 DEF Calm
  <2>5. CASE ~link[k].cut /\ link'[k].up = link[k].up \o fs
    <3>1. \A i \in 1..Len(fs) : fs[i] \in Reports /\ Len(fs) \in Nat
      OBVIOUS
    <3>2. fs \in Seq(Hellos \cup Reports)
      <4>1. Reports \subseteq Hellos \cup Reports
        OBVIOUS
      <4>. QED
        BY <4>1
    <3>3. /\ Len(link'[k].up) = Len(link[k].up) + Len(fs)
          /\ \A i \in 1..Len(link'[k].up) :
               link'[k].up[i] = IF i <= Len(link[k].up) THEN link[k].up[i]
                                ELSE fs[i - Len(link[k].up)]
      BY <2>1, <2>5, <3>2, ConcatProperties
    <3>4. link'[k].server # "done" /\ link'[k].server = link[k].server
      BY <2>2, <2>3, <2>5 DEF Calm
    <3>5. link[k].up # <<>> => Len(link[k].up) >= 1
      BY <2>1, EmptySeq
    <3>6. link'[k].server = "new" => link'[k].up # <<>>
      <4>1. link'[k].up # <<>> <=> Len(link'[k].up) # 0
        BY WireOf, EmptySeq, <2>1, <3>2, <2>5, ConcatProperties
      <4>. QED
        BY <2>1, <2>2, <3>3, <3>4, <3>5, <4>1
    <3>7. ASSUME NEW i \in 1..Len(link'[k].up)
          PROVE  link'[k].up[i].kind = "hello" <=> link'[k].server = "new" /\ i = 1
      <4>1. CASE i <= Len(link[k].up)
        <5>1. i \in 1..Len(link[k].up) /\ link'[k].up[i] = link[k].up[i]
          BY <2>1, <3>3, <4>1
        <5>. QED
          BY <2>2, <3>4, <5>1
      <4>2. CASE ~(i <= Len(link[k].up))
        <5>1. i - Len(link[k].up) \in 1..Len(fs) /\ link'[k].up[i] = fs[i - Len(link[k].up)]
          BY <2>1, <3>2, <3>3, <4>2
        <5>2. link'[k].up[i].kind # "hello"
          BY <3>1, <5>1, FrameKinds
        <5>3. ~(link'[k].server = "new" /\ i = 1)
          BY <2>1, <2>2, <3>4, <3>5, <4>2
        <5>. QED
          BY <5>2, <5>3
      <4>. QED
        BY <4>1, <4>2
    <3>. QED
      BY <3>4, <3>6, <3>7
  <2>. QED
    BY <2>3, <2>4, <2>5 DEF Calm
<1>2. manager'.conn # 0 => link'[manager'.conn].server = "live"
  BY DEF LinksOK, Calm
<1>. QED
  BY <1>1, <1>2 DEF LinksOK

\* What the agent writes joins its connection's frames.
LEMMA WritesMoves ==
  ASSUME LinkTyped, agent.link \in Links, NEW fs \in Seq(Reports), Writes(fs)
  PROVE  LinkTyped' /\ Moves(fs)
<1>1. fs \in Seq(Hellos \cup Reports)
  <2>1. Reports \subseteq Hellos \cup Reports
    OBVIOUS
  <2>. QED
    BY <2>1
<1>2. LinkTyped' /\ Tells(fs)
  BY <1>1, WritesIs
<1>. QED
  BY <1>2 DEF Tells, UpIs, Others, Moves, Shrinks, Calm

\* A connection is given up.
LEMMA LeftMoves ==
  ASSUME LinkTyped, NEW k \in Links \cup {0}, link' = Dropped(k)
  PROVE  LinkTyped' /\ Moves(<<>>)
<1>1. LinkTyped' /\ Left(k)
  BY DroppedIs
<1>. QED
  BY <1>1, Numbers DEF Left, Moves, Shrinks, Calm

\* Nothing happens to the connections.
LEMMA StillMoves ==
  ASSUME LinkTyped, link' = link
  PROVE  LinkTyped' /\ Moves(<<>>)
BY DEF LinkTyped, Moves, Shrinks, Calm

-----------------------------------------------------------------------------
(* Steps of the agent that begin nothing and take nothing new.             *)

Quiet == /\ UNCHANGED <<appVars, caller, events, mill, part>>
         /\ manager'.conn = manager.conn /\ manager'.seq = manager.seq
         /\ manager'.result = manager.result /\ ManagerTyped'

\* What the agent watches is not disturbed by a step without a program.
LEMMA StillWatched ==
  ASSUME UNCHANGED <<rows, part, mill>>, NEW a, Watched(a)
  PROVE  Watched(a)'
BY DEF Watched, Marked

\* What it tells is so.
Truly(fs) == \A i \in 1..Len(fs) : Sent(fs[i].seq) /\ SaysFrame(fs[i])

\* A frame that says what is so.
LEMMA Framed ==
  ASSUME NEW s \in Seqs, NEW e \in Verdicts \cup {"accepted", "running"}, Marked(s), Says(s, e)
  PROVE  /\ Event(s, e) \in Reports
         /\ Sent(Event(s, e).seq) /\ SaysFrame(Event(s, e))
         /\ <<Event(s, e)>> \in Seq(Reports) /\ Truly(<<Event(s, e)>>)
<1>1. Event(s, e) \in Reports /\ Event(s, e).seq = s
  BY DEF Event, Reports
<1>2. Sent(Event(s, e).seq) /\ SaysFrame(Event(s, e))
  BY <1>1 DEF Sent, SaysFrame, Event
<1>. QED
  BY <1>1, <1>2 DEF Truly

\* Two such frames.
LEMMA FramedTwice ==
  ASSUME NEW f \in Reports, NEW g \in Reports, Sent(f.seq), Sent(g.seq), SaysFrame(f), SaysFrame(g)
  PROVE  <<f, g>> \in Seq(Reports) /\ Truly(<<f, g>>)
BY DEF Truly

\* What it leaves on disk and in its memory.
Settled ==
  /\ agent' \in Agents /\ disk' \in Disks /\ disk'.last = disk.last
  /\ agent'.pc \in {"taken", "starting"} => agent.pc \in {"taken", "starting"}
  /\ agent'.pc \in AtWork => agent'.link # 0
  /\ agent'.pc \in Handling <=> agent'.cmd.seq # 0
  /\ agent'.cmd \in {agent.cmd, NoCommand}
  /\ Says(disk'.result.seq, disk'.result.event)
  /\ Watched(agent'.active) /\ Watched(disk'.active)
  /\ agent'.pc # "down" => agent'.active = disk'.active \/ disk'.active.seq = 0
  /\ agent'.pc = "starting" => agent'.active.seq = 0
  /\ agent'.pc = "started" => agent'.active.seq # 0
  /\ agent'.pc = "telling" =>
       /\ agent'.active.seq # 0 /\ disk'.active.seq = 0
       /\ disk'.result.seq = agent'.active.seq /\ disk'.result.event # "none"

\* Such a step keeps the invariant, when what it writes down and tells is true
\* and it still watches the program it watched.
LEMMA QuietStep ==
  ASSUME MillInv, Quiet, LinkTyped', NEW fs \in Seq(Reports), Moves(fs), Truly(fs), Settled
  PROVE  MillInv'
<1>1. /\ LedgerTyped /\ ManagerTyped /\ LinkTyped /\ AgentTyped /\ LinksOK /\ CallersOK /\ WiresOK
      /\ TakenOK /\ OnceOK /\ RunningOK /\ WatchOK /\ ClaimsOK
  BY DEF MillInv, MillTyped
<1>2. Grows
  BY StillGrows DEF Quiet, appVars
<1>3. UNCHANGED <<expected, rows, caller, events, mill, part>>
  BY DEF Quiet, appVars
<1>4. MillTyped'
  <2>1. LedgerTyped'
    BY <1>1, <1>3 DEF LedgerTyped
  <2>2. AgentTyped'
    BY <1>1, <1>3 DEF AgentTyped, Settled
  <2>. QED
    BY <2>1, <2>2 DEF MillTyped, Quiet
<1>5. LinksOK'
  <2>1. manager.conn \in Links \cup {0}
    BY <1>1 DEF ManagerTyped, Managers
  <2>2. \A k \in Links : Calm(k, fs)
    BY DEF Moves
  <2>. QED
    BY <1>1, <2>1, <2>2, CalmLinks DEF Quiet, Settled
<1>6. CallersOK'
  BY <1>1, <1>3 DEF CallersOK, InHand
<1>7. WiresOK' /\ \A s : Transmitted(s)' => Transmitted(s)
  <2>1. \A k \in Links : Shrinks(k) /\ Gains(k, fs)
    BY DEF Moves, Calm, Gains
  <2>2. \A i \in 1..Len(fs) : Sent(fs[i].seq)' /\ SaysFrame(fs[i])'
    BY <1>2, Growing DEF Truly
  <2>. QED
    BY <1>1, <1>2, <2>1, <2>2, WiresKept
<1>8. TakenOK'
  <2>1. Sent(disk.last)' /\ Sent(manager.seq)'
    <3>1. Sent(disk'.last) /\ Sent(manager'.seq)
      BY <1>1 DEF TakenOK, Quiet, Settled
    <3>. QED
      BY <1>2, <3>1, Growing
  <2>2. agent'.cmd.seq # 0 => agent'.cmd = agent.cmd
    BY DEF NoCommand, Settled
  <2>3. agent'.cmd.seq # 0 => agent'.cmd.seq = disk'.last /\ Due(agent.cmd)'
    <3>1. agent'.cmd.seq # 0 => agent'.cmd.seq = disk'.last /\ Due(agent'.cmd)
      BY <1>1, <2>2 DEF TakenOK, Settled
    <3>. QED
      BY <1>2, <3>1, Growing
  <2>. QED
    BY <2>1, <2>3 DEF TakenOK, Settled
<1>9. OnceOK'
  <2>1. ~Transmitted(disk.last)'
    BY <1>1, <1>7 DEF OnceOK, Settled
  <2>2. \A c \in Callers : caller'[c].pc \in {"created", "dispatching"} =>
          ~Transmitted(caller[c].seq)' /\ disk'.last # caller'[c].seq
    BY <1>1, <1>3, <1>7 DEF OnceOK, Settled
  <2>3. \A s \in Seqs : part'[s] # "none" =>
          s <= disk'.last /\ ~(agent'.pc \in {"taken", "starting"} /\ s = disk'.last)
    BY <1>1, <1>3 DEF OnceOK, Settled
  <2>. QED
    BY <2>1, <2>2, <2>3 DEF OnceOK
<1>10. RunningOK'
  BY <1>1, <1>3 DEF RunningOK
<1>11. WatchOK'
  <2>1. Watched(agent.active)' /\ Watched(disk.active)'
    BY <1>3, StillWatched DEF Settled
  <2>. QED
    BY <2>1 DEF WatchOK, Settled
<1>12. ClaimsOK'
  <2>1. Says(disk.result.seq, disk.result.event)'
    BY <1>2, Growing DEF Settled
  <2>2. Says(manager.result.seq, manager.result.event)'
    <3>1. Says(manager'.result.seq, manager'.result.event)
      BY <1>1 DEF ClaimsOK, Quiet
    <3>. QED
      BY <1>2, <3>1, Growing
  <2>3. \A s \in Seqs : Says(s, events[s].verdict)'
    <3>1. \A s \in Seqs : Says(s, events'[s].verdict)
      BY <1>1, <1>3 DEF ClaimsOK
    <3>. QED
      BY <1>2, <3>1, Growing
  <2>4. \A s \in Seqs : rows'[s].status = "completed" => Ended(s)'
    BY <1>1, <1>3 DEF ClaimsOK, Ended
  <2>. QED
    BY <2>1, <2>2, <2>3, <2>4 DEF ClaimsOK
<1>. QED
  BY <1>4, <1>5, <1>6, <1>7, <1>8, <1>9, <1>10, <1>11, <1>12 DEF MillInv
-----------------------------------------------------------------------------
(* The agent's own steps.                                                  *)

\* What the invariant says of the agent and its disk.
LEMMA AgentIs ==
  ASSUME MillInv
  PROVE  /\ agent \in Agents /\ disk \in Disks /\ agent.active \in Actives /\ disk.active \in Actives
         /\ NoActive \in Actives /\ NoActive.seq = 0 /\ NoCommand.seq = 0
         /\ agent.link \in Links \cup {0} /\ (agent.pc \in AtWork => agent.link \in Links)
         /\ agent.active.seq # 0 => agent.active.seq \in Seqs /\ Marked(agent.active.seq)
         /\ agent.pc \in Handling <=> agent.cmd.seq # 0
         /\ agent.pc \in Handling =>
              /\ agent.cmd \in Commands /\ agent.cmd.seq \in Seqs /\ agent.cmd.seq = disk.last
              /\ Marked(agent.cmd.seq) /\ rows[agent.cmd.seq].op = agent.cmd.op
         /\ Says(disk.result.seq, disk.result.event)
         /\ Watched(agent.active) /\ Watched(disk.active) /\ Watched(NoActive)
<1>1. /\ agent \in Agents /\ disk \in Disks
      /\ TakenOK /\ WatchOK /\ ClaimsOK /\ LinksOK
  BY DEF MillInv, MillTyped, AgentTyped
<1>2. agent.active \in Actives /\ disk.active \in Actives /\ agent.link \in Links \cup {0}
  BY <1>1 DEF Agents, Disks
<1>3. NoActive \in Actives /\ NoActive.seq = 0 /\ NoCommand.seq = 0
  BY Numbers DEF NoActive, Actives, NoCommand
<1>4. agent.pc \in AtWork => agent.link \in Links
  BY <1>1, <1>2 DEF LinksOK
<1>5. agent.active.seq # 0 => agent.active.seq \in Seqs /\ Marked(agent.active.seq)
  BY <1>1 DEF WatchOK, Watched, Marked
<1>6. agent.pc \in Handling <=> agent.cmd.seq # 0
  BY <1>1 DEF TakenOK
<1>7. agent.pc \in Handling =>
        /\ agent.cmd \in Commands /\ agent.cmd.seq \in Seqs /\ agent.cmd.seq = disk.last
        /\ Marked(agent.cmd.seq) /\ rows[agent.cmd.seq].op = agent.cmd.op
  <2>1. agent.cmd.seq # 0 => agent.cmd \in Commands /\ agent.cmd.seq \in Seqs
    BY <1>1, <1>3 DEF Agents, Commands
  <2>. QED
    BY <1>1, <1>6, <2>1 DEF TakenOK, Due
<1>8. Watched(NoActive)
  BY <1>3 DEF Watched
<1>. QED
  BY <1>1, <1>2, <1>3, <1>4, <1>5, <1>6, <1>7, <1>8 DEF WatchOK, ClaimsOK

\* An agent that is left alone is settled.
LEMMA Unmoved ==
  ASSUME MillInv, UNCHANGED <<agent, disk>>
  PROVE  Settled
<1>1. TakenOK /\ WatchOK /\ ClaimsOK /\ LinksOK
  BY DEF MillInv
<1>2. agent.pc \in AtWork => agent.link # 0
  BY <1>1 DEF LinksOK
<1>3. /\ Watched(agent.active) /\ Watched(disk.active)
      /\ agent.pc # "down" => agent.active = disk.active \/ disk.active.seq = 0
      /\ agent.pc = "starting" => agent.active.seq = 0
      /\ agent.pc = "started" => agent.active.seq # 0
      /\ agent.pc = "telling" =>
           /\ agent.active.seq # 0 /\ disk.active.seq = 0
           /\ disk.result.seq = agent.active.seq /\ disk.result.event # "none"
  BY <1>1 DEF WatchOK
<1>. QED
  BY <1>2, <1>3, AgentIs DEF Settled

\* The silent frame list.
LEMMA Silent == <<>> \in Seq(Reports) /\ Truly(<<>>)
BY DEF Truly

\* A step that touches neither the agent nor the connections.
LEMMA Elsewhere ==
  ASSUME MillInv, Quiet, UNCHANGED <<link, agent, disk>>
  PROVE  MillInv'
<1>1. LinkTyped' /\ Moves(<<>>)
  BY StillMoves DEF MillInv, MillTyped
<1>2. Settled
  BY Unmoved
<1>. QED
  BY <1>1, <1>2, Silent, QuietStep

\* The agent ends, is started again, or gives its connection up.
Leaves == \/ agent.pc # "down" /\ agent' = Away(agent)
          \/ agent' \in {NoAgent, Started(TRUE), Started(FALSE)}

\* What it took and watches is still on disk then.
LEMMA AgentLeaves ==
  ASSUME MillInv, Quiet, UNCHANGED disk, Leaves, link' = link \/ link' = Dropped(agent.link)
  PROVE  MillInv'
<1>1. LinkTyped /\ WatchOK
  BY DEF MillInv, MillTyped
<1>2. LinkTyped' /\ Moves(<<>>)
  BY <1>1, StillMoves, LeftMoves, AgentIs
<1>3. /\ agent'.pc \in {"down", "away"} /\ agent'.link = 0 /\ agent'.cmd = NoCommand
      /\ agent'.exec \in BOOLEAN /\ agent' \in Agents
      /\ agent'.active \in {agent.active, disk.active, NoActive}
      /\ \/ agent'.pc = "down" \/ agent'.active = disk.active
         \/ agent.pc # "down" /\ agent'.active = agent.active
  <2>1. CASE agent.pc # "down" /\ agent' = Away(agent)
    BY <2>1, AgentIs DEF Away, Agents
  <2>2. CASE agent' = NoAgent
    BY <2>2, AgentIs DEF NoAgent, Agents
  <2>3. ASSUME NEW e \in BOOLEAN, agent' = Started(e)
        PROVE  /\ agent'.pc = "away" /\ agent'.link = 0 /\ agent'.cmd = NoCommand
               /\ agent'.exec \in BOOLEAN /\ agent' \in Agents /\ agent'.active = disk.active
    <3>1. agent' = [pc |-> "away", link |-> 0, exec |-> e, active |-> disk.active, cmd |-> NoCommand]
      BY <2>3 DEF Started, NoAgent
    <3>. QED
      BY <3>1, AgentIs DEF Agents
  <2>. QED
    BY <2>1, <2>2, <2>3 DEF Leaves
<1>4. agent'.pc # "down" => agent'.active = disk'.active \/ disk'.active.seq = 0
  BY <1>1, <1>3 DEF WatchOK
<1>5. Settled
  BY <1>3, <1>4, AgentIs DEF Settled, AtWork, Handling
<1>. QED
  BY <1>2, <1>5, Silent, QuietStep

\* The agent's quiet steps leave the rest alone.
LEMMA RestQuiet ==
  ASSUME MillInv, UNCHANGED <<appVars, setup, caller, manager, events, mill, part>>
  PROVE  Quiet
BY DEF MillInv, MillTyped, ManagerTyped, Quiet

\* "completed" of the program the agent watches is only said when it ended: the
\* record of a machining program is its own, and a fresh one (SeesIdle).
LEMMA OutcomeIsTrue ==
  ASSUME MillInv, agent.active.seq # 0, mill.running = 0
  PROVE  Says(agent.active.seq, Outcome(agent.active)) /\ Outcome(agent.active) \in Verdicts
<1>1. /\ Watched(agent.active) /\ RunningOK /\ AgentTyped /\ LedgerTyped
      /\ agent.active.seq \in Seqs /\ Marked(agent.active.seq)
  BY AgentIs DEF MillInv, MillTyped
<1>2. part[agent.active.seq] \in {"finished", "stopped"}
  <2>1. part[agent.active.seq] # "running"
    BY <1>1, Numbers DEF RunningOK
  <2>. QED
    BY <1>1, <2>1 DEF Watched, AgentTyped
<1>3. ASSUME Outcome(agent.active) = "completed", rows[agent.active.seq].op = "machine"
      PROVE  part[agent.active.seq] = "finished"
  <2>1. agent.active.checked /\ mill.file[1] \in {agent.active.seq, Manual}
    BY <1>1, <1>3 DEF Watched
  <2>2. Proven(agent.active)
    BY <1>3, <2>1 DEF Outcome
  <2>3. mill.file = <<agent.active.seq, "completed">>
    <3>1. mill.file \in (0..Manual) \X {"none", "started", "completed"}
      BY <1>1 DEF AgentTyped, Files
    <3>. QED
      BY <2>1, <2>2, <3>1 DEF Proven
  <2>. QED
    BY <1>1, <2>3 DEF RunningOK
<1>4. Outcome(agent.active) = "completed" => Ended(agent.active.seq)
  BY <1>2, <1>3 DEF Ended
<1>. QED
  BY <1>1, <1>4 DEF Says, Outcome, Verdicts

\* SeesIdle keeps the invariant.
LEMMA SeesIdleKeeps ==
  ASSUME MillInv, SeesIdle
  PROVE  MillInv'
<1>. DEFINE v == Outcome(agent.active)
<1>1. /\ agent.pc = "loop" /\ agent.active.seq # 0 /\ mill.running = 0
      /\ disk' = [disk EXCEPT !.result = [seq |-> agent.active.seq, event |-> v], !.active = NoActive]
      /\ agent' = [agent EXCEPT !.pc = "telling"]
      /\ UNCHANGED <<appVars, setup, caller, manager, events, link, mill, part>>
  BY DEF SeesIdle
<1>2. Says(agent.active.seq, v) /\ v \in Verdicts
  BY <1>1, OutcomeIsTrue
<1>. HIDE DEF v
<1>3. agent.active.seq \in Seqs /\ agent.active.seq \in 0..MaxSequence
  BY <1>1, AgentIs, Numbers
<1>4. [seq |-> agent.active.seq, event |-> v] \in Results
  BY <1>2, <1>3 DEF Results
<1>5. /\ disk' \in Disks /\ disk'.last = disk.last /\ disk'.active = NoActive
      /\ disk'.result.seq = agent.active.seq /\ disk'.result.event = v
  BY <1>1, <1>4, AgentIs DEF Disks
<1>6. /\ agent' \in Agents /\ agent'.pc = "telling" /\ agent'.link = agent.link
      /\ agent'.cmd = agent.cmd /\ agent'.active = agent.active
  BY <1>1, AgentIs DEF Agents, AtWork
<1>7. agent.cmd.seq = 0 /\ agent.link # 0
  BY <1>1, AgentIs, Numbers DEF Handling, AtWork
<1>8. v # "none"
  BY <1>2 DEF Verdicts
<1>9. Settled
  BY <1>1, <1>2, <1>5, <1>6, <1>7, <1>8, AgentIs DEF Settled, AtWork, Handling
<1>10. LinkTyped' /\ Moves(<<>>) /\ Quiet
  BY <1>1, StillMoves, RestQuiet DEF MillInv, MillTyped
<1>. QED
  BY <1>9, <1>10, Silent, QuietStep

\* TellsResult keeps the invariant.
LEMMA TellsResultKeeps ==
  ASSUME MillInv, TellsResult
  PROVE  MillInv'
<1>1. agent.pc = "telling" /\ UNCHANGED <<appVars, setup, caller, manager, events, disk, mill, part>>
  BY DEF TellsResult
<1>2. Quiet
  BY <1>1, RestQuiet
<1>3. CASE /\ Writes(<<Event(agent.active.seq, disk.result.event)>>)
           /\ agent' = [agent EXCEPT !.pc = "loop", !.active = NoActive]
  <2>. DEFINE fs == <<Event(agent.active.seq, disk.result.event)>>
  <2>1. /\ agent.active.seq \in Seqs /\ disk.result.event \in Verdicts
        /\ disk.result.seq = agent.active.seq /\ disk.active.seq = 0 /\ Marked(agent.active.seq)
    <3>1. /\ agent.active.seq # 0 /\ disk.active.seq = 0
          /\ disk.result.seq = agent.active.seq /\ disk.result.event # "none"
      BY <1>1 DEF MillInv, WatchOK
    <3>2. disk.result.event \in Verdicts \cup {"none"}
      BY AgentIs DEF Disks, Results
    <3>. QED
      BY <3>1, <3>2, AgentIs
  <2>2. Says(agent.active.seq, disk.result.event)
    BY <2>1, AgentIs
  <2>3. fs \in Seq(Reports) /\ Truly(fs)
    BY <2>1, <2>2, Framed
  <2>4. LinkTyped' /\ Moves(fs)
    <3>1. LinkTyped /\ agent.link \in Links
      BY <1>1, AgentIs DEF MillInv, MillTyped, AtWork
    <3>. QED
      BY <1>3, <2>3, <3>1, WritesMoves
  <2>5. /\ agent' \in Agents /\ agent'.pc = "loop" /\ agent'.link = agent.link
        /\ agent'.cmd = agent.cmd /\ agent'.active = NoActive
    BY <1>3, AgentIs DEF Agents, AtWork
  <2>6. agent.cmd.seq = 0 /\ agent.link # 0
    BY <1>1, AgentIs, Numbers DEF Handling, AtWork
  <2>7. Settled
    BY <1>1, <2>1, <2>5, <2>6, AgentIs DEF Settled, Handling
  <2>. HIDE DEF fs
  <2>. QED
    BY <1>2, <2>3, <2>4, <2>7, QuietStep
<1>4. CASE link' = Dropped(agent.link) /\ agent' = Away(agent)
  <2>1. Leaves
    BY <1>1, <1>4 DEF Leaves
  <2>. QED
    BY <1>1, <1>2, <1>4, <2>1, AgentLeaves
<1>. QED
  BY <1>3, <1>4 DEF TellsResult

\* The agent writes its answer down and replies, or finds the connection gone.
LEMMA AnswerKeeps ==
  ASSUME MillInv, UNCHANGED <<appVars, setup, caller, manager, events, mill, part>>,
         agent.pc \in Handling, NEW e \in Verdicts, Decides(agent.cmd.seq, e), Says(agent.cmd.seq, e),
         NEW fs \in Seq(Reports), Truly(fs), Replies(fs)
  PROVE  MillInv'
<1>1. Quiet
  BY RestQuiet
<1>2. disk' = [disk EXCEPT !.last = agent.cmd.seq, !.result = [seq |-> agent.cmd.seq, event |-> e]]
  BY DEF Decides
<1>3. agent.cmd.seq \in Seqs /\ agent.cmd.seq \in 0..MaxSequence /\ agent.cmd.seq = disk.last
  BY AgentIs, Numbers
<1>4. [seq |-> agent.cmd.seq, event |-> e] \in Results
  BY <1>3 DEF Results
<1>5. /\ disk' \in Disks /\ disk'.last = disk.last /\ disk'.active = disk.active
      /\ disk'.result.seq = agent.cmd.seq /\ disk'.result.event = e
  BY <1>2, <1>3, <1>4, AgentIs DEF Disks
<1>6. agent.pc # "down" => agent.active = disk.active \/ disk.active.seq = 0
  BY DEF MillInv, WatchOK
<1>7. LinkTyped /\ agent.link \in Links /\ agent.link # 0 /\ agent.pc # "down"
  BY AgentIs, Numbers DEF MillInv, MillTyped, Handling, AtWork
<1>8. CASE Writes(fs) /\ agent' = Loop(agent)
  <2>1. LinkTyped' /\ Moves(fs)
    BY <1>7, <1>8, WritesMoves
  <2>2. /\ agent' \in Agents /\ agent'.pc = "loop" /\ agent'.link = agent.link
        /\ agent'.cmd = NoCommand /\ agent'.active = agent.active
    BY <1>8, AgentIs DEF Loop, Agents, AtWork
  <2>3. Settled
    BY <1>5, <1>6, <1>7, <2>2, AgentIs DEF Settled, Handling
  <2>. QED
    BY <1>1, <2>1, <2>3, QuietStep
<1>9. CASE link' = Dropped(agent.link) /\ agent' = Away(agent)
  <2>1. LinkTyped' /\ Moves(<<>>)
    BY <1>7, <1>9, LeftMoves
  <2>2. /\ agent' \in Agents /\ agent'.pc = "away" /\ agent'.link = 0
        /\ agent'.cmd = NoCommand /\ agent'.active = agent.active
    BY <1>9, AgentIs DEF Away, Agents
  <2>3. Settled
    BY <1>5, <1>6, <1>7, <2>2, AgentIs DEF Settled, Handling, AtWork
  <2>. QED
    BY <1>1, <2>1, <2>3, Silent, QuietStep
<1>. QED
  BY <1>8, <1>9 DEF Replies

\* Acknowledge keeps the invariant: a probe is answered, a command beside a
\* program refused, and any other begins to be carried out.
LEMMA AcknowledgeKeeps ==
  ASSUME MillInv, Acknowledge
  PROVE  MillInv'
<1>1. agent.pc = "taken" /\ agent.pc \in Handling
      /\ UNCHANGED <<appVars, setup, caller, manager, events, mill, part>>
  BY DEF Acknowledge, Handling
<1>2. PICK s \in Seqs : s = agent.cmd.seq
  BY <1>1, AgentIs
<1>3. Marked(s) /\ rows[s].op = agent.cmd.op
  BY <1>1, <1>2, AgentIs
<1>4. Says(s, "accepted") /\ Says(s, "latched")
  BY <1>3 DEF Says
<1>5. CASE /\ agent.cmd.op = "probe"
           /\ Decides(s, "completed") /\ Replies(<<Event(s, "accepted"), Event(s, "completed")>>)
  <2>1. Says(s, "completed")
    BY <1>3, <1>5 DEF Says, Ended
  <2>2. \A e \in {"accepted", "completed"} :
          /\ Event(s, e) \in Reports /\ Sent(Event(s, e).seq) /\ SaysFrame(Event(s, e))
    <3>1. {"accepted", "completed"} \subseteq Verdicts \cup {"accepted", "running"}
      BY DEF Verdicts
    <3>. QED
      BY <1>3, <1>4, <2>1, <3>1, Framed
  <2>3. /\ <<Event(s, "accepted"), Event(s, "completed")>> \in Seq(Reports)
        /\ Truly(<<Event(s, "accepted"), Event(s, "completed")>>)
    BY <2>2, FramedTwice
  <2>. QED
    BY <1>1, <1>2, <1>5, <2>1, <2>3, AnswerKeeps DEF Verdicts
<1>6. CASE Decides(s, "latched") /\ Replies(<<Event(s, "latched")>>)
  <2>1. <<Event(s, "latched")>> \in Seq(Reports) /\ Truly(<<Event(s, "latched")>>)
    BY <1>3, <1>4, Framed DEF Verdicts
  <2>. QED
    BY <1>1, <1>2, <1>4, <1>6, <2>1, AnswerKeeps DEF Verdicts
<1>7. CASE /\ agent.active.seq = 0 /\ UNCHANGED disk
           /\ Writes(<<Event(s, "accepted")>>) /\ agent' = [agent EXCEPT !.pc = "starting"]
  <2>1. <<Event(s, "accepted")>> \in Seq(Reports) /\ Truly(<<Event(s, "accepted")>>)
    BY <1>3, <1>4, Framed
  <2>2. LinkTyped' /\ Moves(<<Event(s, "accepted")>>) /\ agent.link # 0
    <3>1. LinkTyped /\ agent.link \in Links
      BY <1>1, AgentIs DEF MillInv, MillTyped, AtWork
    <3>. QED
      BY <1>7, <2>1, <3>1, WritesMoves, Numbers
  <2>3. /\ agent' \in Agents /\ agent'.pc = "starting" /\ agent'.link = agent.link
        /\ agent'.cmd = agent.cmd /\ agent'.active = agent.active
    BY <1>7, AgentIs DEF Agents, AtWork
  <2>4. agent.active = disk.active \/ disk.active.seq = 0
    BY <1>1 DEF MillInv, WatchOK
  <2>5. Settled
    BY <1>1, <1>7, <2>2, <2>3, <2>4, AgentIs DEF Settled, Handling
  <2>6. Quiet
    BY <1>1, RestQuiet
  <2>. QED
    BY <2>1, <2>2, <2>5, <2>6, QuietStep
<1>8. CASE UNCHANGED disk /\ link' = Dropped(agent.link) /\ agent' = Away(agent)
  <2>1. Leaves /\ Quiet
    BY <1>1, <1>8, RestQuiet DEF Leaves
  <2>. QED
    BY <1>8, <2>1, AgentLeaves
<1>. QED
  BY <1>2, <1>5, <1>6, <1>7, <1>8 DEF Acknowledge

\* StartFails keeps the invariant.
LEMMA StartFailsKeeps ==
  ASSUME MillInv, StartFails
  PROVE  MillInv'
<1>1. agent.pc = "failing" /\ agent.pc \in Handling
      /\ UNCHANGED <<appVars, setup, caller, manager, events, mill, part>>
  BY DEF StartFails, Handling
<1>2. PICK s \in Seqs : s = agent.cmd.seq
  BY <1>1, AgentIs
<1>3. Marked(s) /\ Says(s, "faulted")
  BY <1>1, <1>2, AgentIs DEF Says
<1>4. <<Event(s, "faulted")>> \in Seq(Reports) /\ Truly(<<Event(s, "faulted")>>)
  BY <1>3, Framed DEF Verdicts
<1>5. Decides(s, "faulted") /\ Replies(<<Event(s, "faulted")>>)
  BY <1>2 DEF StartFails
<1>. QED
  BY <1>1, <1>2, <1>3, <1>4, <1>5, AnswerKeeps DEF Verdicts

\* KeepActive keeps the invariant.
LEMMA KeepActiveKeeps ==
  ASSUME MillInv, KeepActive
  PROVE  MillInv'
<1>1. /\ agent.pc = "started" /\ disk' = [disk EXCEPT !.active = agent.active]
      /\ agent' = [agent EXCEPT !.pc = "recorded"]
      /\ UNCHANGED <<appVars, setup, caller, manager, events, link, mill, part>>
  BY DEF KeepActive
<1>2. /\ agent' \in Agents /\ agent'.pc = "recorded" /\ agent'.link = agent.link
      /\ agent'.cmd = agent.cmd /\ agent'.active = agent.active
  BY <1>1, AgentIs DEF Agents, AtWork
<1>3. /\ disk' \in Disks /\ disk'.last = disk.last /\ disk'.active = agent.active
      /\ disk'.result = disk.result
  BY <1>1, AgentIs DEF Disks
<1>4. agent.link # 0 /\ agent.cmd.seq # 0
  BY <1>1, AgentIs, Numbers DEF AtWork, Handling
<1>5. Settled
  BY <1>1, <1>2, <1>3, <1>4, AgentIs DEF Settled, Handling
<1>6. LinkTyped' /\ Moves(<<>>) /\ Quiet
  BY <1>1, StillMoves, RestQuiet DEF MillInv, MillTyped
<1>. QED
  BY <1>5, <1>6, Silent, QuietStep

\* TellsRunning keeps the invariant.
LEMMA TellsRunningKeeps ==
  ASSUME MillInv, TellsRunning
  PROVE  MillInv'
<1>1. agent.pc = "recorded" /\ agent.pc \in Handling /\ UNCHANGED disk
      /\ UNCHANGED <<appVars, setup, caller, manager, events, mill, part>>
  BY DEF TellsRunning, Handling
<1>2. PICK s \in Seqs : s = agent.cmd.seq
  BY <1>1, AgentIs
<1>3. <<Event(s, "running")>> \in Seq(Reports) /\ Truly(<<Event(s, "running")>>)
  <2>1. Marked(s) /\ Says(s, "running")
    BY <1>1, <1>2, AgentIs DEF Says
  <2>. QED
    BY <2>1, Framed
<1>4. Quiet /\ LinkTyped /\ agent.link \in Links /\ agent.link # 0
      /\ (agent.active = disk.active \/ disk.active.seq = 0)
  BY <1>1, RestQuiet, AgentIs, Numbers DEF MillInv, MillTyped, AtWork, WatchOK
<1>5. CASE Writes(<<Event(s, "running")>>) /\ agent' = Loop(agent)
  <2>1. LinkTyped' /\ Moves(<<Event(s, "running")>>)
    BY <1>3, <1>4, <1>5, WritesMoves
  <2>2. /\ agent' \in Agents /\ agent'.pc = "loop" /\ agent'.link = agent.link
        /\ agent'.cmd = NoCommand /\ agent'.active = agent.active
    BY <1>5, AgentIs DEF Loop, Agents, AtWork
  <2>3. Settled
    BY <1>1, <1>4, <2>2, AgentIs DEF Settled, Handling
  <2>. QED
    BY <1>3, <1>4, <2>1, <2>3, QuietStep
<1>6. CASE agent' = [agent EXCEPT !.pc = "failing"] /\ UNCHANGED link
  <2>1. LinkTyped' /\ Moves(<<>>)
    BY <1>4, <1>6, StillMoves
  <2>2. /\ agent' \in Agents /\ agent'.pc = "failing" /\ agent'.link = agent.link
        /\ agent'.cmd = agent.cmd /\ agent'.active = agent.active
    BY <1>6, AgentIs DEF Agents, AtWork
  <2>3. Settled
    BY <1>1, <1>4, <2>2, AgentIs DEF Settled, Handling
  <2>. QED
    BY <1>4, <2>1, <2>3, Silent, QuietStep
<1>. QED
  BY <1>2, <1>5, <1>6 DEF TellsRunning

\* The agent's connection is seen to be gone, or the agent is started again.
LEMMA GoneOrBackKeeps ==
  ASSUME MillInv, Disconnected \/ Watchdog
  PROVE  MillInv'
<1>1. Quiet /\ UNCHANGED disk
  BY RestQuiet DEF Disconnected, Watchdog
<1>2. CASE Disconnected
  <2>1. Leaves
    BY <1>2 DEF Disconnected, Leaves
  <2>. QED
    BY <1>1, <1>2, <2>1, AgentLeaves DEF Disconnected
<1>3. CASE Watchdog
  <2>1. setup.exec \in BOOLEAN
    BY DEF MillInv, MillTyped, ManagerTyped, Setups
  <2>2. Leaves
    BY <1>3, <2>1 DEF Watchdog, Leaves
  <2>. QED
    BY <1>1, <1>3, <2>2, AgentLeaves DEF Watchdog
<1>. QED
  BY <1>2, <1>3
-----------------------------------------------------------------------------
(* The agent takes a command.                                              *)

\* The connection without its first command.
LEMMA CommandTaken ==
  ASSUME LinkTyped, NEW k \in Links, link[k].down # <<>>,
         link' = [link EXCEPT ![k].down = Tail(@)]
  PROVE  LinkTyped' /\ Moves(<<>>) /\ link'[k].down = Tail(link[k].down)
<1>1. link[k] \in Wires /\ Tail(link[k].down) \in Seq(Commands)
  BY WireOf, TailIs
<1>2. LinkTyped' /\ DownIs(k, Tail(link[k].down))
  BY <1>1, QueueReplaced
<1>. QED
  BY <1>2 DEF DownIs, Others, Moves, Shrinks, Calm

\* A connection that lost its first command and gained a frame.
LEMMA AnswerMoves ==
  ASSUME NEW k \in Links, NEW f, NEW q, q = link[k].up \o <<f>>, link[k].down # <<>>, ~link[k].cut,
         link'[k] = [up |-> q, down |-> Tail(link[k].down), server |-> link[k].server,
                     cut |-> link[k].cut],
         Others(k)
  PROVE  Moves(<<f>>) /\ link'[k].down = Tail(link[k].down)
<1>1. /\ link'[k].up = q /\ link'[k].down = Tail(link[k].down)
      /\ link'[k].server = link[k].server /\ link'[k].cut = link[k].cut
  OBVIOUS
<1>2. Shrinks(k) /\ Calm(k, <<f>>)
  BY <1>1 DEF Shrinks, Calm
<1>3. \A j \in Links \ {k} : Shrinks(j) /\ Calm(j, <<f>>)
  BY DEF Shrinks, Calm, Others
<1>. QED
  BY <1>1, <1>2, <1>3 DEF Moves

\* The same connection with the answer, when it is not cut.
LEMMA CommandAnswered ==
  ASSUME LinkTyped, NEW k \in Links, link[k].down # <<>>, ~link[k].cut, NEW f \in Reports,
         link' = [[link EXCEPT ![k].down = Tail(@)] EXCEPT ![k].up = Append(@, f)]
  PROVE  LinkTyped' /\ Moves(<<f>>) /\ link'[k].down = Tail(link[k].down)
<1>. DEFINE q == Append(link[k].up, f)
            d == Tail(link[k].down)
            w == [up |-> q, down |-> d, server |-> link[k].server, cut |-> link[k].cut]
<1>1. /\ link[k] \in Wires /\ d \in Seq(Commands) /\ link[k].up \in Seq(Hellos \cup Reports)
      /\ link \in [Links -> Wires]
  BY WireOf, TailIs DEF LinkTyped
<1>2. q \in Seq(Hellos \cup Reports) /\ q = link[k].up \o <<f>>
  BY <1>1, AppendProperties, AppendIsConcat
<1>3. link' = [link EXCEPT ![k] = [[link[k] EXCEPT !.down = d] EXCEPT !.up = q]]
  BY <1>1
<1>. HIDE DEF q, d
<1>4. [[link[k] EXCEPT !.down = d] EXCEPT !.up = q] = w
  BY <1>1 DEF Wires
<1>5. w \in Wires
  BY <1>1, <1>2 DEF Wires
<1>6. LinkTyped' /\ link'[k] = w /\ \A j \in Links \ {k} : link'[j] = link[j]
  <2>1. link' = [link EXCEPT ![k] = w]
    BY <1>3, <1>4
  <2>. HIDE DEF w
  <2>. QED
    BY <1>5, <2>1, WireReplaced DEF Others
<1>7. link'[k] = [up |-> q, down |-> Tail(link[k].down), server |-> link[k].server, cut |-> link[k].cut]
  BY <1>6 DEF d
<1>. QED
  BY <1>2, <1>6, <1>7, AnswerMoves DEF Others

\* A command is in one place.
LEMMA OnePlace ==
  ASSUME WiresOK, NEW j \in Links, NEW k \in Links, NEW i \in 1..Len(link[j].down),
         NEW n \in 1..Len(link[k].down), link[j].down[i].seq = link[k].down[n].seq
  PROVE  j = k /\ i = n
BY DEF WiresOK

\* The command that was taken is not on its way any more.
LEMMA FirstGone ==
  ASSUME LinkTyped, LinkTyped', WiresOK, \A k \in Links : Shrinks(k),
         NEW h \in Links, link[h].down # <<>>, link'[h].down = Tail(link[h].down),
         NEW s, s = Head(link[h].down).seq
  PROVE  ~Transmitted(s)'
<1>1. /\ link[h].down \in Seq(Commands) /\ 1 \in 1..Len(link[h].down)
      /\ Head(link[h].down) = link[h].down[1] /\ Len(link[h].down) \in Nat
      /\ Len(link'[h].down) = Len(link[h].down) - 1
  BY WireOf, TailIs
<1>2. ASSUME NEW k \in Links, NEW i \in 1..Len(link'[k].down), link'[k].down[i].seq = s
      PROVE  FALSE
  <2>1. /\ i \in Nat /\ Shift(k) \in Int /\ i + Shift(k) \in 1..Len(link[k].down)
        /\ link'[k].down[i] = link[k].down[i + Shift(k)]
    BY ShiftIs
  <2>2. link[k].down[i + Shift(k)].seq = link[h].down[1].seq
    BY <1>1, <1>2, <2>1
  <2>3. k = h /\ i + Shift(k) = 1
    BY <1>1, <2>1, <2>2, OnePlace
  <2>4. Shift(h) = 1
    BY <1>1 DEF Shift
  <2>5. i >= 1
    BY <2>1
  <2>. QED
    BY <2>1, <2>3, <2>4, <2>5
<1>. QED
  BY <1>2 DEF Transmitted

\* The agent takes a command that it did not have: nobody will send it again, and
\* nothing was begun for it (TakeCommand).
LEMMA TakesNew ==
  ASSUME MillInv, UNCHANGED <<appVars, setup, caller, manager, events, mill, part>>,
         agent.pc = "loop", link[agent.link].down # <<>>,
         NEW cmd \in Commands, cmd = Head(link[agent.link].down), ~(cmd.seq <= disk.last),
         NEW fs \in Seq(Reports), Truly(fs), Moves(fs), LinkTyped',
         link'[agent.link].down = Tail(link[agent.link].down),
         \/ /\ UNCHANGED agent
            /\ disk' = [disk EXCEPT !.last = cmd.seq, !.result = [seq |-> cmd.seq, event |-> "latched"]]
         \/ /\ agent' = [agent EXCEPT !.pc = "taken", !.cmd = cmd]
            /\ disk' = [disk EXCEPT !.last = cmd.seq]
  PROVE  MillInv'
<1>1. /\ LedgerTyped /\ ManagerTyped /\ LinkTyped /\ AgentTyped /\ LinksOK /\ CallersOK /\ WiresOK
      /\ TakenOK /\ OnceOK /\ RunningOK /\ WatchOK /\ ClaimsOK
  BY DEF MillInv, MillTyped
<1>2. Grows /\ UNCHANGED <<expected, rows>>
  BY StillGrows DEF appVars
<1>3. /\ agent.link \in Links /\ agent.link # 0 /\ agent.cmd.seq = 0
      /\ link[agent.link].down \in Seq(Commands) /\ cmd.seq \in Seqs /\ cmd.seq \in 0..MaxSequence
      /\ cmd.seq # 0 /\ disk.last \in 0..MaxSequence
  <2>1. agent.link \in Links /\ agent.link # 0 /\ agent.cmd.seq = 0
    BY AgentIs, Numbers DEF AtWork, Handling
  <2>2. cmd.seq \in Seqs /\ cmd.seq \in 0..MaxSequence /\ cmd.seq # 0
    BY Numbers DEF Commands
  <2>3. disk.last \in 0..MaxSequence
    BY AgentIs DEF Disks
  <2>. QED
    BY <1>1, <2>1, <2>2, <2>3, WireOf
<1>4. 1 \in 1..Len(link[agent.link].down) /\ cmd = link[agent.link].down[1]
  BY <1>3, TailIs
<1>5. Due(cmd) /\ Transmitted(cmd.seq)
  BY <1>1, <1>3, <1>4 DEF WiresOK, Transmitted
<1>6. [seq |-> cmd.seq, event |-> "latched"] \in Results
  BY <1>3 DEF Results, Verdicts
<1>7. /\ disk' \in Disks /\ disk'.last = cmd.seq /\ disk'.active = disk.active
      /\ disk'.result \in {disk.result, [seq |-> cmd.seq, event |-> "latched"]}
  BY <1>3, <1>6, AgentIs DEF Disks
<1>8. /\ agent' \in Agents /\ agent'.pc \in {"loop", "taken"} /\ agent'.link = agent.link
      /\ agent'.active = agent.active
      /\ agent'.cmd = IF agent'.pc = "taken" THEN cmd ELSE agent.cmd
  <2>1. CASE UNCHANGED agent
    BY <2>1, AgentIs
  <2>2. CASE agent' = [agent EXCEPT !.pc = "taken", !.cmd = cmd]
    BY <2>2, AgentIs DEF Agents, AtWork
  <2>. QED
    BY <2>1, <2>2
<1>9. MillTyped'
  <2>1. LedgerTyped' /\ ManagerTyped'
    BY <1>1, <1>2 DEF LedgerTyped, ManagerTyped
  <2>2. AgentTyped'
    BY <1>1, <1>7, <1>8 DEF AgentTyped
  <2>. QED
    BY <2>1, <2>2 DEF MillTyped
<1>10. LinksOK'
  <2>1. manager.conn \in Links \cup {0}
    BY <1>1 DEF ManagerTyped, Managers
  <2>2. \A k \in Links : Calm(k, fs)
    BY DEF Moves
  <2>. QED
    BY <1>1, <1>3, <1>8, <2>1, <2>2, CalmLinks
<1>11. CallersOK'
  BY <1>1, <1>2 DEF CallersOK, InHand
<1>12. WiresOK' /\ \A s : Transmitted(s)' => Transmitted(s)
  <2>1. \A k \in Links : Shrinks(k) /\ Gains(k, fs)
    BY DEF Moves, Calm, Gains
  <2>2. \A i \in 1..Len(fs) : Sent(fs[i].seq)' /\ SaysFrame(fs[i])'
    BY <1>2, Growing DEF Truly
  <2>. QED
    BY <1>1, <1>2, <2>1, <2>2, WiresKept
<1>13. ~Transmitted(cmd.seq)'
  BY <1>1, <1>3, FirstGone DEF Moves
<1>14. TakenOK'
  <2>1. Sent(disk.last)' /\ Sent(manager.seq)'
    <3>1. Sent(disk'.last) /\ Sent(manager'.seq)
      BY <1>1, <1>5, <1>7 DEF TakenOK, Sent, Due
    <3>. QED
      BY <1>2, <3>1, Growing
  <2>2. agent'.pc \in Handling <=> agent'.cmd.seq # 0
    BY <1>3, <1>8 DEF Handling
  <2>3. Due(cmd)'
    BY <1>2, <1>5, Growing
  <2>4. agent'.cmd.seq # 0 => agent'.cmd = cmd
    BY <1>3, <1>8
  <2>5. agent'.cmd.seq # 0 => agent'.cmd.seq = disk'.last /\ Due(agent.cmd)'
    <3>1. agent'.cmd.seq # 0 => Due(agent'.cmd)
      BY <1>5, <2>4
    <3>. QED
      BY <1>2, <1>7, <2>4, <3>1, Growing
  <2>. QED
    BY <2>1, <2>2, <2>5 DEF TakenOK
<1>15. OnceOK'
  <2>1. ~Transmitted(disk.last)'
    BY <1>7, <1>13
  <2>2. \A c \in Callers : caller'[c].pc \in {"created", "dispatching"} =>
          ~Transmitted(caller[c].seq)' /\ disk'.last # caller'[c].seq
    BY <1>1, <1>5, <1>7, <1>12 DEF OnceOK
  <2>3. \A s \in Seqs : part'[s] # "none" => s <= disk'.last /\ s # disk'.last
    <3>1. \A s \in Seqs : part'[s] # "none" => s <= disk.last
      BY <1>1 DEF OnceOK
    <3>. QED
      BY <1>3, <1>7, <3>1 DEF Seqs
  <2>. QED
    BY <2>1, <2>2, <2>3 DEF OnceOK
<1>16. RunningOK'
  BY <1>1 DEF RunningOK
<1>17. WatchOK'
  <2>1. Watched(agent.active)' /\ Watched(disk.active)'
    <3>1. Watched(agent'.active) /\ Watched(disk'.active)
      BY <1>1, <1>7, <1>8 DEF WatchOK
    <3>. QED
      BY <1>2, <3>1, StillWatched
  <2>2. agent'.active = disk'.active \/ disk'.active.seq = 0
    BY <1>1, <1>7, <1>8 DEF WatchOK
  <2>. QED
    BY <1>8, <2>1, <2>2 DEF WatchOK
<1>18. ClaimsOK'
  <2>1. Says(disk.result.seq, disk.result.event)'
    <3>1. Says(cmd.seq, "latched")
      BY <1>5 DEF Says, Due
    <3>2. Says(disk'.result.seq, disk'.result.event)
      BY <1>7, <3>1, AgentIs
    <3>. QED
      BY <1>2, <3>2, Growing
  <2>2. Says(manager.result.seq, manager.result.event)'
    <3>1. Says(manager'.result.seq, manager'.result.event)
      BY <1>1 DEF ClaimsOK
    <3>. QED
      BY <1>2, <3>1, Growing
  <2>3. \A s \in Seqs : Says(s, events[s].verdict)'
    <3>1. \A s \in Seqs : Says(s, events'[s].verdict)
      BY <1>1 DEF ClaimsOK
    <3>. QED
      BY <1>2, <3>1, Growing
  <2>4. \A s \in Seqs : rows'[s].status = "completed" => Ended(s)'
    BY <1>1, <1>2 DEF ClaimsOK, Ended
  <2>. QED
    BY <2>1, <2>2, <2>3, <2>4 DEF ClaimsOK
<1>. QED
  BY <1>9, <1>10, <1>11, <1>12, <1>14, <1>15, <1>16, <1>17, <1>18 DEF MillInv

\* TakeCommand keeps the invariant.  A command that the agent had already is
\* answered with its last result, which is that command's own: no command comes twice.
LEMMA TakeCommandKeeps ==
  ASSUME MillInv, TakeCommand
  PROVE  MillInv'
<1>. DEFINE k == agent.link
            taken == [link EXCEPT ![k].down = Tail(@)]
            answer(s, name) == IF link[k].cut THEN taken
                               ELSE [taken EXCEPT ![k].up = Append(@, Event(s, name))]
<1>1. PICK cmd \in Commands : cmd = Head(link[k].down)
  <2>1. k \in Links /\ link[k].down # <<>> /\ LinkTyped
    BY AgentIs DEF TakeCommand, AtWork, MillInv, MillTyped
  <2>. QED
    BY <2>1, WireOf, TailIs
<1>2. /\ k \in Links /\ link[k].down # <<>> /\ LinkTyped /\ agent.pc = "loop"
      /\ UNCHANGED <<appVars, setup, caller, manager, events, mill, part>>
  BY AgentIs DEF TakeCommand, AtWork, MillInv, MillTyped
<1>3. Due(cmd) /\ Marked(cmd.seq) /\ cmd.seq \in Seqs /\ ~Transmitted(disk.last) /\ Transmitted(cmd.seq)
  <2>1. WiresOK /\ OnceOK
    BY DEF MillInv
  <2>2. link[k].down \in Seq(Commands) /\ 1 \in 1..Len(link[k].down) /\ cmd = link[k].down[1]
    BY <1>1, <1>2, WireOf, TailIs
  <2>. QED
    BY <1>2, <2>1, <2>2 DEF WiresOK, OnceOK, Due, Marked, Transmitted
<1>4. cmd.seq # disk.last
  BY <1>3
<1>5. PICK f \in Reports : f = Event(cmd.seq, "latched") /\ <<f>> \in Seq(Reports) /\ Truly(<<f>>)
  <2>1. Says(cmd.seq, "latched")
    BY <1>3 DEF Says
  <2>. QED
    BY <1>3, <2>1, Framed DEF Verdicts
<1>6. ASSUME link' = answer(cmd.seq, "latched")
      PROVE  \E fs \in Seq(Reports) :
               Truly(fs) /\ Moves(fs) /\ LinkTyped' /\ link'[k].down = Tail(link[k].down)
  <2>1. CASE link[k].cut
    BY <1>2, <1>6, <2>1, CommandTaken, Silent
  <2>2. CASE ~link[k].cut
    BY <1>2, <1>5, <1>6, <2>2, CommandAnswered
  <2>. QED
    BY <2>1, <2>2
<1>7. CASE link' = answer(cmd.seq, "latched") /\ UNCHANGED <<agent, disk>>
  <2>1. Settled /\ Quiet
    BY <1>2, <1>7, Unmoved, RestQuiet
  <2>2. PICK fs \in Seq(Reports) : Truly(fs) /\ Moves(fs) /\ LinkTyped'
    BY <1>6, <1>7
  <2>. QED
    BY <2>1, <2>2, QuietStep
<1>8. CASE /\ cmd.seq > disk.last /\ link' = answer(cmd.seq, "latched") /\ UNCHANGED agent
           /\ disk' = [disk EXCEPT !.last = cmd.seq, !.result = [seq |-> cmd.seq, event |-> "latched"]]
  <2>1. PICK fs \in Seq(Reports) :
          Truly(fs) /\ Moves(fs) /\ LinkTyped' /\ link'[k].down = Tail(link[k].down)
    BY <1>6, <1>8
  <2>2. ~(cmd.seq <= disk.last)
    BY <1>8, AgentIs, <1>3, Numbers DEF Disks
  <2>. QED
    BY <1>1, <1>2, <1>8, <2>1, <2>2, TakesNew
<1>9. CASE /\ cmd.seq > disk.last /\ link' = taken
           /\ agent' = [agent EXCEPT !.pc = "taken", !.cmd = cmd]
           /\ disk' = [disk EXCEPT !.last = cmd.seq]
  <2>1. Moves(<<>>) /\ LinkTyped' /\ link'[k].down = Tail(link[k].down)
    BY <1>2, <1>9, CommandTaken
  <2>2. ~(cmd.seq <= disk.last)
    BY <1>9, AgentIs, <1>3, Numbers DEF Disks
  <2>. QED
    BY <1>1, <1>2, <1>9, <2>1, <2>2, Silent, TakesNew
<1>10. cmd.seq > disk.last <=> ~(cmd.seq <= disk.last)
  BY AgentIs, <1>3, Numbers DEF Disks
<1>. QED
  BY <1>1, <1>4, <1>7, <1>8, <1>9, <1>10 DEF TakeCommand
-----------------------------------------------------------------------------
(* A program begins, runs and ends.                                        *)

\* What changes in a step of PathPilot, and of the agent beside it.
ProgramMoves == /\ UNCHANGED <<appVars, setup, caller, manager, events, link, disk>>
                /\ LinksOK' /\ AgentTyped'

\* The parts of the invariant that do not speak of programs.
LEMMA ProgramLeaves ==
  ASSUME MillInv, ProgramMoves, Grows
  PROVE  /\ MillTyped' /\ CallersOK' /\ WiresOK' /\ ClaimsOK'
         /\ Sent(disk.last)' /\ Sent(manager.seq)'
         /\ \A s : Transmitted(s)' => Transmitted(s)
<1>1. /\ LedgerTyped /\ ManagerTyped /\ LinkTyped /\ CallersOK /\ WiresOK
      /\ TakenOK /\ ClaimsOK /\ UNCHANGED <<expected, rows, setup, caller, manager, events, link, disk>>
  BY DEF MillInv, MillTyped, ProgramMoves, appVars
<1>2. MillTyped'
  <2>1. LedgerTyped' /\ ManagerTyped' /\ LinkTyped'
    BY <1>1 DEF LedgerTyped, ManagerTyped, LinkTyped
  <2>. QED
    BY <2>1 DEF MillTyped, ProgramMoves
<1>3. CallersOK'
  BY <1>1 DEF CallersOK, InHand
<1>4. WiresOK' /\ \A s : Transmitted(s)' => Transmitted(s)
  <2>1. LinkTyped' /\ \A k \in Links : Shrinks(k) /\ Gains(k, <<>>)
    BY <1>1, StillMoves DEF Moves, Calm, Gains
  <2>2. \A i \in 1..Len(<<>>) : Sent(<<>>[i].seq)' /\ SaysFrame(<<>>[i])'
    OBVIOUS
  <2>. QED
    BY <1>1, <2>1, <2>2, Silent, WiresKept
<1>5. ClaimsOK'
  <2>1. Says(disk.result.seq, disk.result.event)'
    <3>1. Says(disk'.result.seq, disk'.result.event)
      BY <1>1 DEF ClaimsOK
    <3>. QED
      BY <3>1, Growing
  <2>2. Says(manager.result.seq, manager.result.event)'
    <3>1. Says(manager'.result.seq, manager'.result.event)
      BY <1>1 DEF ClaimsOK
    <3>. QED
      BY <3>1, Growing
  <2>3. \A s \in Seqs : Says(s, events[s].verdict)'
    <3>1. \A s \in Seqs : Says(s, events'[s].verdict)
      BY <1>1 DEF ClaimsOK
    <3>. QED
      BY <3>1, Growing
  <2>4. \A s \in Seqs : rows'[s].status = "completed" => Ended(s)'
    <3>1. \A s \in Seqs : rows'[s].status = "completed" => Marked(s) /\ Ended(s)
      BY <1>1 DEF ClaimsOK, Marked
    <3>. QED
      BY <3>1 DEF Grows
  <2>. QED
    BY <2>1, <2>2, <2>3, <2>4 DEF ClaimsOK
<1>6. Sent(disk.last)' /\ Sent(manager.seq)'
  <2>1. Sent(disk'.last) /\ Sent(manager'.seq)
    BY <1>1 DEF TakenOK
  <2>. QED
    BY <2>1, Growing
<1>. QED
  BY <1>2, <1>3, <1>4, <1>5, <1>6

\* The mill and the history of the programs, typed.
LEMMA MillIs ==
  ASSUME MillInv
  PROVE  /\ mill \in [running : 0..Manual, file : Files]
         /\ mill.running \in 0..Manual /\ mill.file \in Files
         /\ part \in [Seqs -> {"none", "running", "finished", "stopped"}]
         /\ \A s \in Seqs : s \in 0..Manual /\ s # Manual /\ s # 0
BY MillAssumption DEF MillInv, MillTyped, AgentTyped, Seqs, Manual

\* Where the agent begins a program, none runs and none was begun for this
\* command (StartProgram).
Begins(s) ==
  /\ s \in Seqs /\ s = agent.cmd.seq /\ agent.pc = "starting"
  /\ part[s] = "none" /\ mill.running = 0
  /\ mill' = [running |-> s, file |-> IF agent.cmd.op = "machine" THEN <<s, "started">> ELSE mill.file]
  /\ part' = [part EXCEPT ![s] = "running"]
  /\ UNCHANGED <<appVars, setup, caller, manager, events, link, disk, troubles>>

\* StartProgram fails with nothing done, or begins the program.
LEMMA StartCases ==
  ASSUME MillInv, StartProgram
  PROVE  \/ /\ agent' = [agent EXCEPT !.pc = "failing"]
            /\ UNCHANGED <<appVars, setup, caller, manager, events, link, disk, mill, part>>
         \/ /\ Begins(agent.cmd.seq)
            /\ \/ agent' = [agent EXCEPT !.pc = "started", !.active =
                              [seq |-> agent.cmd.seq, checked |-> agent.cmd.op = "machine",
                               before |-> mill.file]]
               \/ agent' = [agent EXCEPT !.pc = "failing"]
<1>1. agent.pc = "starting"
  BY DEF StartProgram
<1>2. agent.cmd.seq \in Seqs /\ agent.cmd.seq = disk.last
  BY <1>1, AgentIs DEF Handling
<1>3. part[agent.cmd.seq] = "none"
  BY <1>1, <1>2 DEF MillInv, OnceOK
<1>4. part' = [part EXCEPT ![agent.cmd.seq] = IF @ = "none" THEN "running" ELSE "twice"]
      => part' = [part EXCEPT ![agent.cmd.seq] = "running"]
  BY <1>3
<1>. QED
  BY <1>1, <1>2, <1>3, <1>4 DEF StartProgram, Begins

\* A program begins: nothing that ended is undone.
LEMMA BeginsGrows ==
  ASSUME MillInv, NEW s, Begins(s)
  PROVE  /\ Grows /\ part \in [Seqs -> {"none", "running", "finished", "stopped"}]
         /\ part'[s] = "running" /\ \A t \in Seqs \ {s} : part'[t] = part[t]
         /\ part' \in [Seqs -> {"none", "running", "finished", "stopped"}]
<1>1. /\ part \in [Seqs -> {"none", "running", "finished", "stopped"}]
      /\ s \in Seqs /\ part[s] = "none" /\ part' = [part EXCEPT ![s] = "running"] /\ UNCHANGED rows
  BY MillIs DEF Begins, appVars
<1>2. part'[s] = "running" /\ \A t \in Seqs \ {s} : part'[t] = part[t]
  BY <1>1
<1>3. part' \in [Seqs -> {"none", "running", "finished", "stopped"}]
  BY <1>1
<1>4. \A t \in Seqs : Ended(t) => Ended(t)'
  BY <1>1, <1>2 DEF Ended
<1>5. Grows
  BY <1>1, <1>4 DEF Grows, Marked
<1>. QED
  BY <1>1, <1>2, <1>3, <1>5

\* StartProgram keeps the invariant.
LEMMA StartProgramKeeps ==
  ASSUME MillInv, StartProgram
  PROVE  MillInv'
<1>1. /\ LinkTyped /\ AgentTyped /\ LinksOK /\ TakenOK /\ OnceOK /\ RunningOK /\ WatchOK
      /\ agent.pc = "starting" /\ agent.pc \in Handling
  BY DEF MillInv, MillTyped, StartProgram, Handling
<1>2. CASE /\ agent' = [agent EXCEPT !.pc = "failing"]
           /\ UNCHANGED <<appVars, setup, caller, manager, events, link, disk, mill, part>>
  <2>1. /\ agent' \in Agents /\ agent'.pc = "failing" /\ agent'.link = agent.link
        /\ agent'.cmd = agent.cmd /\ agent'.active = agent.active
    BY <1>2, AgentIs DEF Agents, AtWork
  <2>2. agent.link # 0 /\ (agent.active = disk.active \/ disk.active.seq = 0)
    BY <1>1 DEF LinksOK, WatchOK, AtWork
  <2>3. Settled
    BY <1>1, <1>2, <2>1, <2>2, AgentIs DEF Settled, Handling
  <2>4. LinkTyped' /\ Moves(<<>>) /\ Quiet
    BY <1>1, <1>2, StillMoves, RestQuiet
  <2>. QED
    BY <2>3, <2>4, Silent, QuietStep
<1>3. ASSUME NEW s, s = agent.cmd.seq, Begins(s),
             \/ agent' = [agent EXCEPT !.pc = "started", !.active =
                            [seq |-> s, checked |-> agent.cmd.op = "machine", before |-> mill.file]]
             \/ agent' = [agent EXCEPT !.pc = "failing"]
      PROVE  MillInv'
  <2>1. /\ s \in Seqs /\ s = disk.last /\ Marked(s) /\ rows[s].op = agent.cmd.op
        /\ s \in 0..MaxSequence /\ s # 0 /\ s \in 0..Manual
        /\ mill.file \in Files /\ mill.running = 0
    BY <1>1, <1>3, AgentIs, MillIs, Numbers DEF Begins
  <2>2. /\ mill' = [running |-> s, file |-> mill'.file] /\ mill'.running = s
        /\ mill'.file = IF agent.cmd.op = "machine" THEN <<s, "started">> ELSE mill.file
    BY <1>3 DEF Begins
  <2>3. /\ UNCHANGED <<expected, rows, setup, caller, manager, events, link, disk>>
        /\ Grows /\ part'[s] = "running" /\ \A t \in Seqs \ {s} : part'[t] = part[t]
        /\ part \in [Seqs -> {"none", "running", "finished", "stopped"}]
        /\ part' \in [Seqs -> {"none", "running", "finished", "stopped"}]
    BY <1>3, BeginsGrows DEF Begins, appVars
  <2>4. /\ agent' \in Agents /\ agent'.pc \in {"started", "failing"} /\ agent'.link = agent.link
        /\ agent'.cmd = agent.cmd /\ agent'.active.seq \in {0, s}
        /\ agent'.pc = "started" => agent'.active.seq = s
        /\ agent'.active.seq # 0 => agent'.active.checked = (agent.cmd.op = "machine")
    <3>1. CASE agent' = [agent EXCEPT !.pc = "failing"]
      <4>1. agent.active.seq = 0
        BY <1>1 DEF WatchOK
      <4>. QED
        BY <3>1, <4>1, AgentIs DEF Agents, AtWork
    <3>2. CASE agent' = [agent EXCEPT !.pc = "started", !.active =
                           [seq |-> s, checked |-> agent.cmd.op = "machine", before |-> mill.file]]
      <4>. DEFINE b == agent.cmd.op = "machine"
                  a == [seq |-> s, checked |-> b, before |-> mill.file]
      <4>1. b \in BOOLEAN
        OBVIOUS
      <4>2. agent' = [agent EXCEPT !.pc = "started", !.active = a]
        BY <3>2
      <4>. HIDE DEF b
      <4>3. a \in Actives /\ a.seq = s /\ a.checked = b
        BY <2>1, <4>1 DEF Actives, Files
      <4>. HIDE DEF a
      <4>4. /\ agent' \in Agents /\ agent'.pc = "started" /\ agent'.link = agent.link
            /\ agent'.cmd = agent.cmd /\ agent'.active = a
        BY <4>2, <4>3, AgentIs DEF Agents, AtWork
      <4>. QED
        BY <4>3, <4>4, Zenon DEF b
    <3>. QED
      BY <1>3, <3>1, <3>2
  <2>5. disk.active.seq = 0
    BY <1>1 DEF WatchOK
  <2>6. LinksOK'
    BY <1>1, <2>3, <2>4 DEF LinksOK, AtWork
  <2>7. AgentTyped'
    <3>1. <<s, "started">> \in Files
      BY <2>1 DEF Files
    <3>2. mill' \in [running : 0..Manual, file : Files]
      BY <2>1, <2>2, <3>1
    <3>. QED
      BY <2>3, <2>4, <3>2, AgentIs DEF AgentTyped
  <2>8. /\ MillTyped' /\ CallersOK' /\ WiresOK' /\ ClaimsOK'
        /\ Sent(disk.last)' /\ Sent(manager.seq)'
        /\ \A t : Transmitted(t)' => Transmitted(t)
    <3>1. ProgramMoves
      BY <1>3, <2>6, <2>7 DEF ProgramMoves, Begins
    <3>. QED
      BY <2>3, <3>1, ProgramLeaves
  <2>9. TakenOK'
    <3>1. agent'.pc \in Handling /\ agent'.cmd.seq = s /\ s # 0 /\ s = disk'.last
      BY <1>3, <2>1, <2>3, <2>4 DEF Handling
    <3>2. Due(agent.cmd)'
      <4>1. Due(agent'.cmd)
        BY <1>1, <1>3, <2>1, <2>4 DEF TakenOK
      <4>. QED
        BY <2>3, <4>1, Growing
    <3>. QED
      BY <2>8, <3>1, <3>2 DEF TakenOK
  <2>10. OnceOK'
    <3>1. ~Transmitted(disk.last)'
      BY <1>1, <2>3, <2>8 DEF OnceOK
    <3>2. \A c \in Callers : caller'[c].pc \in {"created", "dispatching"} =>
            ~Transmitted(caller[c].seq)' /\ disk'.last # caller'[c].seq
      BY <1>1, <2>3, <2>8 DEF OnceOK
    <3>3. \A t \in Seqs : part'[t] # "none" => t <= disk'.last
      <4>1. \A t \in Seqs \ {s} : part'[t] # "none" => t <= disk.last
        BY <1>1, <2>3 DEF OnceOK
      <4>2. s <= disk.last
        BY <2>1 DEF Seqs
      <4>. QED
        BY <2>3, <4>1, <4>2
    <3>. QED
      BY <2>4, <3>1, <3>2, <3>3 DEF OnceOK
  <2>11. RunningOK'
    <3>1. \A t \in Seqs : part[t] # "running"
      BY <1>1, <2>1, MillIs DEF RunningOK
    <3>2. \A t \in Seqs : part'[t] = "running" <=> mill'.running = t
      BY <2>1, <2>2, <2>3, <3>1
    <3>3. ASSUME NEW t \in Seqs, mill'.file = <<t, "completed">>
          PROVE  part'[t] = "finished"
      <4>1. mill.file = <<t, "completed">>
        BY <2>2, <3>3
      <4>2. part[t] = "finished" /\ part[s] = "none"
        BY <1>1, <1>3, <4>1 DEF RunningOK, Begins
      <4>. QED
        BY <2>3, <4>2
    <3>. QED
      BY <3>2, <3>3 DEF RunningOK
  <2>12. WatchOK'
    <3>1. Watched(agent.active)'
      <4>1. SUFFICES ASSUME agent'.active.seq # 0
                     PROVE  /\ part'[agent'.active.seq] # "none" /\ Marked(agent.active.seq)'
                            /\ rows'[agent'.active.seq].op = "machine" => agent'.active.checked
                            /\ agent'.active.checked => mill'.file[1] \in {agent'.active.seq, Manual}
        BY DEF Watched
      <4>2. agent'.active.seq = s /\ agent'.active.checked = (agent.cmd.op = "machine")
        BY <2>4, <4>1
      <4>3. Marked(agent.active.seq)'
        BY <2>1, <2>3, <4>2 DEF Marked
      <4>4. agent'.active.checked => mill'.file[1] = s
        <5>1. agent'.active.checked => agent.cmd.op = "machine"
          BY <4>2, Zenon
        <5>2. agent.cmd.op = "machine" => mill'.file = <<s, "started">>
          BY <2>2
        <5>3. <<s, "started">>[1] = s
          OBVIOUS
        <5>. QED
          BY <5>1, <5>2, <5>3
      <4>. QED
        BY <2>1, <2>3, <4>2, <4>3, <4>4
    <3>2. Watched(disk.active)'
      BY <2>3, <2>5 DEF Watched
    <3>. QED
      BY <2>1, <2>3, <2>4, <2>5, <3>1, <3>2 DEF WatchOK
  <2>. QED
    BY <2>6, <2>8, <2>9, <2>10, <2>11, <2>12 DEF MillInv
<1>. QED
  BY <1>2, <1>3, StartCases

\* PathPilot's program ends: only what ran is over, and a record of completion
\* is written for it alone (EndProgram).
LEMMA EndProgramIs ==
  ASSUME MillInv, NEW how \in {"finished", "stopped"}, EndProgram(how)
  PROVE  /\ mill.running # 0 /\ mill'.running = 0 /\ mill' \in [running : 0..Manual, file : Files]
         /\ mill'.file[1] = mill.file[1]
         /\ mill'.file = mill.file
            \/ (how = "finished" /\ mill'.file = <<mill.running, "completed">>)
         /\ part' \in [Seqs -> {"none", "running", "finished", "stopped"}]
         /\ part \in [Seqs -> {"none", "running", "finished", "stopped"}]
         /\ \A s \in Seqs : part'[s] = IF s = mill.running THEN how ELSE part[s]
         /\ \A s \in Seqs : part[s] = "running" <=> mill.running = s
         /\ UNCHANGED <<expected, rows, setup, caller, manager, events, link, agent, disk>>
<1>. DEFINE f == IF how = "finished" /\ mill.file = <<mill.running, "started">>
                 THEN <<mill.running, "completed">> ELSE mill.file
<1>1. /\ mill.running # 0 /\ mill' = [running |-> 0, file |-> f]
      /\ UNCHANGED <<expected, rows, setup, caller, manager, events, link, agent, disk>>
  BY DEF EndProgram, appVars
<1>2. \A s \in Seqs : part[s] = "running" <=> mill.running = s
  BY DEF MillInv, RunningOK
<1>3. /\ part \in [Seqs -> {"none", "running", "finished", "stopped"}]
      /\ mill.running \in 0..Manual /\ mill.file \in Files /\ 0 \in 0..Manual
  BY MillIs, Numbers
<1>4. /\ f \in Files /\ f[1] = mill.file[1]
      /\ f = mill.file \/ (how = "finished" /\ f = <<mill.running, "completed">>)
  <2>1. <<mill.running, "completed">> \in Files /\ <<mill.running, "completed">>[1] = mill.running
    BY <1>3 DEF Files
  <2>2. <<mill.running, "started">>[1] = mill.running
    OBVIOUS
  <2>. QED
    BY <1>3, <2>1, <2>2
<1>. HIDE DEF f
<1>5. mill' \in [running : 0..Manual, file : Files] /\ mill'.running = 0 /\ mill'.file = f
  BY <1>1, <1>3, <1>4
<1>6. /\ part' \in [Seqs -> {"none", "running", "finished", "stopped"}]
      /\ \A s \in Seqs : part'[s] = IF s = mill.running THEN how ELSE part[s]
  <2>1. CASE mill.running \in Seqs
    <3>1. part' = [part EXCEPT ![mill.running] = how]
      BY <1>2, <1>3, <2>1 DEF EndProgram
    <3>. QED
      BY <1>3, <2>1, <3>1
  <2>2. CASE mill.running \notin Seqs
    <3>1. part' = part
      BY <2>2 DEF EndProgram
    <3>. QED
      BY <1>3, <2>2, <3>1
  <2>. QED
    BY <2>1, <2>2
<1>. QED
  BY <1>1, <1>2, <1>3, <1>4, <1>5, <1>6

\* What the agent took and watches while PathPilot changes by itself.
LEMMA AsideKeeps ==
  ASSUME MillInv, Grows, UNCHANGED <<expected, rows, setup, caller, manager, events, link, agent, disk>>,
         mill' \in [running : 0..Manual, file : Files],
         part' \in [Seqs -> {"none", "running", "finished", "stopped"}],
         RunningOK', mill'.file[1] \in {mill.file[1], Manual},
         \A s \in Seqs : part'[s] = "none" <=> part[s] = "none"
  PROVE  MillInv'
<1>1. /\ AgentTyped /\ LinksOK /\ TakenOK /\ OnceOK /\ WatchOK
  BY DEF MillInv, MillTyped
<1>2. LinksOK'
  BY <1>1 DEF LinksOK
<1>3. AgentTyped'
  BY <1>1 DEF AgentTyped
<1>4. /\ MillTyped' /\ CallersOK' /\ WiresOK' /\ ClaimsOK'
      /\ Sent(disk.last)' /\ Sent(manager.seq)' /\ \A t : Transmitted(t)' => Transmitted(t)
  BY <1>2, <1>3, ProgramLeaves DEF ProgramMoves, appVars
<1>5. TakenOK'
  <2>1. agent'.cmd.seq # 0 => Due(agent.cmd)'
    <3>1. agent'.cmd.seq # 0 => Due(agent'.cmd)
      BY <1>1 DEF TakenOK
    <3>. QED
      BY <3>1, Growing
  <2>. QED
    BY <1>1, <1>4, <2>1 DEF TakenOK
<1>6. OnceOK'
  BY <1>1, <1>4 DEF OnceOK
<1>7. WatchOK'
  <2>1. \A a : Watched(a) => Watched(a)'
    BY DEF Watched, Marked
  <2>2. Watched(agent.active)' /\ Watched(disk.active)'
    <3>1. Watched(agent'.active) /\ Watched(disk'.active)
      BY <1>1 DEF WatchOK
    <3>. QED
      BY <2>1, <3>1
  <2>. QED
    BY <1>1, <2>2 DEF WatchOK
<1>. QED
  BY <1>2, <1>4, <1>5, <1>6, <1>7 DEF MillInv

\* A program that ends is not unmade, and what ended before stays so.
LEMMA EndGrows ==
  ASSUME MillInv, NEW how \in {"finished", "stopped"}, EndProgram(how)
  PROVE  Grows
<1>1. /\ UNCHANGED rows /\ \A s \in Seqs : part'[s] = IF s = mill.running THEN how ELSE part[s]
      /\ \A s \in Seqs : part[s] = "running" <=> mill.running = s
  BY EndProgramIs
<1>2. \A s \in Seqs : Ended(s) => Ended(s)'
  BY <1>1 DEF Ended
<1>. QED
  BY <1>1, <1>2 DEF Grows, Marked

\* EndProgram keeps the invariant.
LEMMA EndProgramKeeps ==
  ASSUME MillInv, NEW how \in {"finished", "stopped"}, EndProgram(how)
  PROVE  MillInv'
<1>1. /\ mill.running # 0 /\ mill'.running = 0 /\ mill' \in [running : 0..Manual, file : Files]
      /\ mill'.file[1] = mill.file[1]
      /\ mill'.file = mill.file
         \/ (how = "finished" /\ mill'.file = <<mill.running, "completed">>)
      /\ part' \in [Seqs -> {"none", "running", "finished", "stopped"}]
      /\ \A s \in Seqs : part'[s] = IF s = mill.running THEN how ELSE part[s]
      /\ \A s \in Seqs : part[s] = "running" <=> mill.running = s
      /\ UNCHANGED <<expected, rows, setup, caller, manager, events, link, agent, disk>>
  BY EndProgramIs
<1>2. RunningOK'
  <2>1. \A s \in Seqs : part'[s] = "running" <=> mill'.running = s
    BY <1>1, Numbers
  <2>2. ASSUME NEW s \in Seqs, mill'.file = <<s, "completed">>
        PROVE  part'[s] = "finished"
    <3>1. CASE mill'.file = mill.file
      <4>1. part[s] = "finished"
        BY <2>2, <3>1 DEF MillInv, RunningOK
      <4>. QED
        BY <1>1, <4>1
    <3>2. CASE how = "finished" /\ mill'.file = <<mill.running, "completed">>
      <4>1. s = mill.running
        BY <2>2, <3>2
      <4>. QED
        BY <1>1, <3>2, <4>1
    <3>. QED
      BY <1>1, <3>1, <3>2
  <2>. QED
    BY <2>1, <2>2 DEF RunningOK
<1>3. \A s \in Seqs : part'[s] = "none" <=> part[s] = "none"
  BY <1>1
<1>. QED
  BY <1>1, <1>2, <1>3, EndGrows, AsideKeeps

\* An operator runs a program at PathPilot: its record replaces what was there.
LEMMA OperatorRunsKeeps ==
  ASSUME MillInv, OperatorRuns
  PROVE  MillInv'
<1>1. /\ mill.running = 0 /\ mill' = [running |-> Manual, file |-> <<Manual, "started">>]
      /\ UNCHANGED <<expected, rows, setup, caller, manager, events, link, agent, disk, part>>
  BY DEF OperatorRuns, appVars
<1>2. mill' \in [running : 0..Manual, file : Files] /\ mill'.file[1] = Manual /\ Manual \in 0..Manual
  <2>1. Manual \in 0..Manual
    BY Numbers
  <2>2. <<Manual, "started">> \in Files /\ <<Manual, "started">>[1] = Manual
    BY <2>1 DEF Files
  <2>. QED
    BY <1>1, <2>1, <2>2
<1>3. RunningOK'
  <2>1. \A s \in Seqs : part'[s] = "running" <=> mill'.running = s
    BY <1>1, MillIs, Numbers DEF MillInv, RunningOK
  <2>2. \A s \in Seqs : mill'.file # <<s, "completed">>
    BY <1>1
  <2>. QED
    BY <2>1, <2>2 DEF RunningOK
<1>4. Grows /\ part' \in [Seqs -> {"none", "running", "finished", "stopped"}]
  BY <1>1, StillGrows, MillIs
<1>. QED
  BY <1>1, <1>2, <1>3, <1>4, AsideKeeps
-----------------------------------------------------------------------------
(* The ledger and its callers.                                             *)

\* What a step of a caller leaves alone.
LedgerOnly == UNCHANGED <<setup, manager, events, agent, disk, mill, part>>

\* What the ledger and the callers are.
LEMMA LedgerIs ==
  ASSUME MillInv
  PROVE  /\ expected \in 0..MaxSequence /\ expected \in Nat /\ rows \in [Seqs -> Rows]
         /\ caller \in [Callers -> Threads]
         /\ \A s \in Seqs : s <= expected <=> rows[s].status # "none"
         /\ \A s \in Seqs : s <= expected => rows[s].op # "none" /\ rows[s].op \in Ops
         /\ \A s \in Seqs : ~(s <= expected) => rows[s] = NoRow
         /\ \A c \in Callers : InHand(c) =>
              /\ caller[c].seq \in Seqs /\ caller[c].seq <= expected
              /\ rows[caller[c].seq].op = caller[c].op
              /\ rows[caller[c].seq].status = "created" <=> caller[c].pc = "created"
<1>1. LedgerTyped /\ CallersOK
  BY DEF MillInv, MillTyped
<1>2. expected \in Nat /\ \A s \in 1..expected : s \in Seqs /\ s <= expected
  BY <1>1, MillAssumption DEF LedgerTyped, Seqs
<1>3. \A s \in Seqs : s <= expected <=> rows[s].status # "none"
  BY <1>1 DEF LedgerTyped, NoRow
<1>4. \A s \in Seqs : s <= expected => rows[s].op # "none" /\ rows[s].op \in Ops
  BY <1>1 DEF LedgerTyped, Rows
<1>5. \A c \in Callers : InHand(c) =>
        /\ caller[c].seq \in 1..expected
        /\ rows[caller[c].seq].op = caller[c].op
        /\ rows[caller[c].seq].status = "created" <=> caller[c].pc = "created"
  BY <1>1 DEF CallersOK
<1>. QED
  BY <1>1, <1>2, <1>3, <1>4, <1>5 DEF LedgerTyped

\* A step of the ledger keeps the invariant when it keeps the rows, the callers
\* and the commands on their way in order.
LEMMA LedgerKeeps ==
  ASSUME MillInv, LedgerOnly, Grows, LedgerTyped', CallersOK', LinkTyped', LinksOK', WiresOK',
         ~Transmitted(disk.last)',
         \A c \in Callers : caller'[c].pc \in {"created", "dispatching"} =>
           ~Transmitted(caller[c].seq)' /\ disk'.last # caller'[c].seq,
         \A s \in Seqs : rows'[s].status = "completed" => Ended(s)'
  PROVE  MillInv'
<1>1. /\ ManagerTyped /\ AgentTyped /\ TakenOK /\ OnceOK /\ RunningOK /\ WatchOK /\ ClaimsOK
      /\ UNCHANGED <<setup, manager, events, agent, disk, mill, part>>
  BY DEF MillInv, MillTyped, LedgerOnly
<1>2. MillTyped'
  BY <1>1 DEF MillTyped, ManagerTyped, AgentTyped
<1>3. TakenOK'
  <2>1. Sent(disk.last)' /\ Sent(manager.seq)'
    <3>1. Sent(disk'.last) /\ Sent(manager'.seq)
      BY <1>1 DEF TakenOK
    <3>. QED
      BY <3>1, Growing
  <2>2. agent'.cmd.seq # 0 => Due(agent.cmd)'
    <3>1. agent'.cmd.seq # 0 => Due(agent'.cmd)
      BY <1>1 DEF TakenOK
    <3>. QED
      BY <3>1, Growing
  <2>. QED
    BY <1>1, <2>1, <2>2 DEF TakenOK
<1>4. OnceOK'
  BY <1>1 DEF OnceOK
<1>5. RunningOK'
  BY <1>1 DEF RunningOK
<1>6. WatchOK'
  <2>1. \A a : Watched(a) => Watched(a)'
    <3>1. ASSUME NEW a, Watched(a), a.seq # 0
          PROVE  Watched(a)'
      <4>1. a.seq \in Seqs /\ Marked(a.seq) /\ part[a.seq] # "none"
            /\ (rows[a.seq].op = "machine" => a.checked)
            /\ (a.checked => mill.file[1] \in {a.seq, Manual})
        BY <3>1 DEF Watched, Marked
      <4>2. Marked(a.seq)' /\ rows'[a.seq].op = rows[a.seq].op
        BY <4>1 DEF Grows
      <4>. QED
        BY <1>1, <4>1, <4>2 DEF Watched
    <3>2. ASSUME NEW a, a.seq = 0
          PROVE  Watched(a)'
      BY <3>2 DEF Watched
    <3>. QED
      BY <3>1, <3>2
  <2>2. Watched(agent.active)' /\ Watched(disk.active)'
    <3>1. Watched(agent'.active) /\ Watched(disk'.active)
      BY <1>1 DEF WatchOK
    <3>. QED
      BY <2>1, <3>1
  <2>. QED
    BY <1>1, <2>2 DEF WatchOK
<1>7. ClaimsOK'
  <2>1. Says(disk.result.seq, disk.result.event)' /\ Says(manager.result.seq, manager.result.event)'
    <3>1. /\ Says(disk'.result.seq, disk'.result.event)
          /\ Says(manager'.result.seq, manager'.result.event)
      BY <1>1 DEF ClaimsOK
    <3>. QED
      BY <3>1, Growing
  <2>2. \A s \in Seqs : Says(s, events[s].verdict)'
    <3>1. \A s \in Seqs : Says(s, events'[s].verdict)
      BY <1>1 DEF ClaimsOK
    <3>. QED
      BY <3>1, Growing
  <2>. QED
    BY <2>1, <2>2 DEF ClaimsOK
<1>. QED
  BY <1>2, <1>3, <1>4, <1>5, <1>6, <1>7 DEF MillInv

\* Connections that nobody touches.
LEMMA LinksStay ==
  ASSUME MillInv, LedgerOnly, Grows, link' = link
  PROVE  /\ LinkTyped' /\ LinksOK' /\ WiresOK' /\ ~Transmitted(disk.last)'
         /\ \A s : Transmitted(s)' => Transmitted(s)
<1>1. LinkTyped /\ LinksOK /\ WiresOK /\ OnceOK /\ UNCHANGED <<manager, agent, disk>>
  BY DEF MillInv, MillTyped, LedgerOnly
<1>2. LinkTyped' /\ \A k \in Links : Shrinks(k) /\ Gains(k, <<>>)
  BY <1>1, StillMoves DEF Moves, Calm, Gains
<1>3. LinksOK'
  BY <1>1 DEF LinksOK
<1>4. WiresOK' /\ \A s : Transmitted(s)' => Transmitted(s)
  <2>1. \A i \in 1..Len(<<>>) : Sent(<<>>[i].seq)' /\ SaysFrame(<<>>[i])'
    OBVIOUS
  <2>. QED
    BY <1>1, <1>2, <2>1, Silent, WiresKept
<1>5. ~Transmitted(disk.last)'
  BY <1>1, <1>4 DEF OnceOK
<1>. QED
  BY <1>2, <1>3, <1>4, <1>5

\* The row x is given another status; the thread that holds x goes on or lets go.
Moved(c, x) ==
  \/ caller'[c] = caller[c] /\ (InHand(c) /\ caller[c].seq = x => caller[c].pc # "created")
  \/ caller'[c].pc = "free" /\ caller'[c].seq = 0
  \/ /\ InHand(c) /\ caller[c].seq = x /\ caller'[c].seq = x /\ caller'[c].op = caller[c].op
     /\ caller'[c].pc \in Held \ {"created"}
     /\ caller'[c].pc = "dispatching" => caller[c].pc \in {"created", "dispatching"}
Restates(x, to) ==
  /\ expected' = expected /\ rows' = [rows EXCEPT ![x].status = to] /\ rows[x].status # "none"
  /\ caller' \in [Callers -> Threads] /\ \A c \in Callers : Moved(c, x)
  /\ LedgerOnly /\ link' = link
  /\ to = "completed" => Ended(x)
  /\ rows[x].status = "created" => to # "completed"

\* What a row becomes.
LEMMA RestatesRows ==
  ASSUME MillInv, NEW x \in Seqs, NEW to \in Statuses \ {"created"}, Restates(x, to)
  PROVE  /\ rows' \in [Seqs -> Rows] /\ \A s \in Seqs : rows'[s].op = rows[s].op
         /\ rows'[x].status = to /\ \A s \in Seqs \ {x} : rows'[s] = rows[s]
         /\ LedgerTyped' /\ Grows
<1>1. /\ rows \in [Seqs -> Rows] /\ rows' = [rows EXCEPT ![x].status = to]
      /\ to # "none" /\ to # "created" /\ rows[x].status # "none" /\ UNCHANGED <<expected, part>>
      /\ to \in Statuses \cup {"none"}
  BY LedgerIs DEF Restates, LedgerOnly, Statuses, Undecided, Verdicts
<1>2. /\ rows' \in [Seqs -> Rows] /\ \A s \in Seqs : rows'[s].op = rows[s].op
      /\ rows'[x].status = to /\ \A s \in Seqs \ {x} : rows'[s] = rows[s]
  BY <1>1 DEF Rows
<1>3. LedgerTyped'
  <2>1. LedgerTyped
    BY DEF MillInv, MillTyped
  <2>2. ASSUME NEW s \in Seqs
        PROVE  IF s <= expected' THEN rows'[s].status # "none" /\ rows'[s].op # "none"
                                 ELSE rows'[s] = NoRow
    <3>1. CASE s = x
      BY <1>1, <1>2, <2>1, <3>1 DEF LedgerTyped, NoRow
    <3>2. CASE s # x
      BY <1>1, <1>2, <2>1, <3>2 DEF LedgerTyped
    <3>. QED
      BY <3>1, <3>2
  <2>. QED
    BY <1>1, <1>2, <2>1, <2>2 DEF LedgerTyped, Restates
<1>4. Grows
  BY <1>1, <1>2 DEF Grows, Marked, Ended
<1>. QED
  BY <1>2, <1>3, <1>4

\* A row is restated: the invariant is kept.
LEMMA RestatesKeeps ==
  ASSUME MillInv, NEW x \in Seqs, NEW to \in Statuses \ {"created"}, Restates(x, to)
  PROVE  MillInv'
<1>1. /\ CallersOK /\ OnceOK /\ ClaimsOK /\ LedgerOnly /\ link' = link
      /\ UNCHANGED <<expected, disk, part>> /\ \A c \in Callers : Moved(c, x)
  BY DEF MillInv, Restates, LedgerOnly
<1>2. /\ \A s \in Seqs : rows'[s].op = rows[s].op
      /\ rows'[x].status = to /\ to # "created" /\ \A s \in Seqs \ {x} : rows'[s] = rows[s]
      /\ LedgerTyped' /\ Grows
  BY RestatesRows
<1>3. /\ LinkTyped' /\ LinksOK' /\ WiresOK' /\ ~Transmitted(disk.last)'
      /\ \A s : Transmitted(s)' => Transmitted(s)
  BY <1>1, <1>2, LinksStay
<1>4. \A c \in Callers : InHand(c)' => InHand(c) /\ caller'[c].seq = caller[c].seq
  BY <1>1 DEF Moved, InHand, Held
<1>5. ASSUME NEW c \in Callers
      PROVE  IF InHand(c)' THEN /\ caller'[c].seq \in 1..expected'
                                /\ rows'[caller'[c].seq].op = caller'[c].op
                                /\ rows'[caller'[c].seq].status = "created" <=> caller'[c].pc = "created"
             ELSE /\ caller'[c].seq = 0
                  /\ caller'[c].pc = "checked" => caller'[c].op \in Ops
  <2>1. CASE caller'[c] = caller[c] /\ (InHand(c) /\ caller[c].seq = x => caller[c].pc # "created")
    <3>1. CASE InHand(c)
      <4>1. /\ caller[c].seq \in Seqs /\ caller[c].seq \in 1..expected
            /\ rows[caller[c].seq].op = caller[c].op
            /\ rows[caller[c].seq].status = "created" <=> caller[c].pc = "created"
        BY <1>1, <3>1, LedgerIs DEF CallersOK
      <4>2. InHand(c)'
        BY <2>1, <3>1 DEF InHand
      <4>3. rows'[caller[c].seq].status = "created" <=> caller[c].pc = "created"
        BY <1>2, <2>1, <3>1, <4>1
      <4>. QED
        BY <1>1, <1>2, <2>1, <4>1, <4>2, <4>3
    <3>2. CASE ~InHand(c)
      BY <1>1, <2>1, <3>2 DEF CallersOK, InHand
    <3>. QED
      BY <3>1, <3>2
  <2>2. CASE caller'[c].pc = "free" /\ caller'[c].seq = 0
    BY <2>2 DEF InHand, Held
  <2>3. CASE /\ InHand(c) /\ caller[c].seq = x /\ caller'[c].seq = x
             /\ caller'[c].op = caller[c].op /\ caller'[c].pc \in Held \ {"created"}
    <3>1. x \in 1..expected /\ rows[x].op = caller[c].op
      BY <1>1, <2>3 DEF CallersOK
    <3>. QED
      BY <1>1, <1>2, <2>3, <3>1 DEF InHand
  <2>. QED
    BY <1>1, <2>1, <2>2, <2>3 DEF Moved
<1>6. CallersOK'
  <2>1. \A c, d \in Callers : InHand(c)' /\ InHand(d)' /\ caller'[c].seq = caller'[d].seq => c = d
    BY <1>1, <1>4 DEF CallersOK
  <2>. QED
    BY <1>5, <2>1 DEF CallersOK
<1>7. \A c \in Callers : caller'[c].pc \in {"created", "dispatching"} =>
        ~Transmitted(caller[c].seq)' /\ disk'.last # caller'[c].seq
  <2>1. \A c \in Callers : caller'[c].pc \in {"created", "dispatching"} =>
          caller[c].pc \in {"created", "dispatching"} /\ caller'[c].seq = caller[c].seq
    BY <1>1 DEF Moved
  <2>. QED
    BY <1>1, <1>3, <2>1 DEF OnceOK
<1>8. \A s \in Seqs : rows'[s].status = "completed" => Ended(s)'
  <2>1. \A s \in Seqs : rows'[s].status = "completed" => Ended(s)
    BY <1>1, <1>2 DEF ClaimsOK, Restates
  <2>. QED
    BY <1>1, <1>2, <2>1 DEF Ended
<1>. QED
  BY <1>1, <1>2, <1>3, <1>6, <1>7, <1>8, LedgerKeeps

\* A thread that changes its own row, and goes on with it or lets go.
LEMMA ThreadRestates ==
  ASSUME MillInv, NEW c \in Callers, InHand(c), NEW t \in Threads, caller' = [caller EXCEPT ![c] = t],
         \/ t.pc = "free" /\ t.seq = 0
         \/ /\ t.seq = caller[c].seq /\ t.op = caller[c].op /\ t.pc \in Held \ {"created"}
            /\ t.pc = "dispatching" => caller[c].pc \in {"created", "dispatching"},
         NEW to, rows' = [rows EXCEPT ![caller[c].seq].status = to],
         UNCHANGED <<expected, link>>, LedgerOnly,
         to = "completed" => Ended(caller[c].seq) /\ caller[c].pc # "created"
  PROVE  caller[c].seq \in Seqs /\ Restates(caller[c].seq, to)
<1>1. /\ caller \in [Callers -> Threads] /\ caller[c].seq \in Seqs
      /\ rows[caller[c].seq].status # "none"
      /\ rows[caller[c].seq].status = "created" <=> caller[c].pc = "created"
  BY LedgerIs
<1>2. caller' \in [Callers -> Threads] /\ caller'[c] = t /\ \A d \in Callers \ {c} : caller'[d] = caller[d]
  BY <1>1
<1>3. \A d \in Callers \ {c} : Moved(d, caller[c].seq)
  <2>1. \A d \in Callers \ {c} : InHand(d) => caller[d].seq # caller[c].seq
    BY DEF MillInv, CallersOK
  <2>. QED
    BY <1>2, <2>1 DEF Moved
<1>4. Moved(c, caller[c].seq)
  BY <1>2 DEF Moved
<1>. QED
  BY <1>1, <1>2, <1>3, <1>4 DEF Restates

\* What a thread can become.
LEMMA ThreadIs ==
  ASSUME MillInv, NEW c \in Callers
  PROVE  /\ caller[c] \in Threads /\ Free \in Threads /\ Free.pc = "free" /\ Free.seq = 0
         /\ \A pc \in Held : /\ [caller[c] EXCEPT !.pc = pc] \in Threads
                             /\ [caller[c] EXCEPT !.pc = pc].pc = pc
                             /\ [caller[c] EXCEPT !.pc = pc].seq = caller[c].seq
                             /\ [caller[c] EXCEPT !.pc = pc].op = caller[c].op
         /\ [caller[c] EXCEPT !.seen = TRUE] \in Threads
         /\ [caller[c] EXCEPT !.seen = TRUE].pc = caller[c].pc
         /\ [caller[c] EXCEPT !.seen = TRUE].seq = caller[c].seq
         /\ [caller[c] EXCEPT !.seen = TRUE].op = caller[c].op
<1>1. caller[c] \in Threads
  BY LedgerIs
<1>2. Free \in Threads /\ Free.pc = "free" /\ Free.seq = 0
  BY Numbers DEF Free, Threads
<1>3. \A pc \in Held : /\ [caller[c] EXCEPT !.pc = pc] \in Threads
                       /\ [caller[c] EXCEPT !.pc = pc].pc = pc
                       /\ [caller[c] EXCEPT !.pc = pc].seq = caller[c].seq
                       /\ [caller[c] EXCEPT !.pc = pc].op = caller[c].op
  BY <1>1 DEF Threads
<1>4. /\ [caller[c] EXCEPT !.seen = TRUE] \in Threads
      /\ [caller[c] EXCEPT !.seen = TRUE].pc = caller[c].pc
      /\ [caller[c] EXCEPT !.seen = TRUE].seq = caller[c].seq
      /\ [caller[c] EXCEPT !.seen = TRUE].op = caller[c].op
  BY <1>1 DEF Threads
<1>. QED
  BY <1>1, <1>2, <1>3, <1>4

\* Some row is restated.
RowStep == \E x \in Seqs, to \in Statuses \ {"created"} : Restates(x, to)

\* A thread gives its command up.
LEMMA UncertainRestates ==
  ASSUME MillInv, NEW c \in Callers, caller[c].pc \in Held \ {"created"}, Uncertain(c),
         UNCHANGED <<expected, link>>, LedgerOnly
  PROVE  RowStep
<1>1. caller' = [caller EXCEPT ![c] = Free] /\ Free \in Threads /\ Free.pc = "free" /\ Free.seq = 0
  BY ThreadIs DEF Uncertain
<1>2. rows' = [rows EXCEPT ![caller[c].seq].status = "uncertain"] /\ InHand(c)
  BY DEF Uncertain, InHand
<1>3. caller[c].seq \in Seqs /\ Restates(caller[c].seq, "uncertain")
  BY <1>1, <1>2, ThreadRestates
<1>4. "uncertain" \in Statuses \ {"created"}
  BY DEF Statuses, Undecided
<1>. QED
  BY <1>3, <1>4 DEF RowStep

\* The other steps of a thread that write its row.
LEMMA ThreadSteps ==
  ASSUME MillInv, NEW c \in Callers,
         \/ Mark(c) \/ MarkSent(c) \/ Observe(c) \/ Conclude(c) \/ Release(c) \/ TimesOut(c)
  PROVE  RowStep
<1>1. LedgerOnly /\ UNCHANGED <<expected, link>>
  BY DEF Mark, MarkSent, Observe, Conclude, Release, TimesOut, LedgerOnly
<1>2. {"dispatching", "sent"} \cup Verdicts \subseteq Statuses \ {"created"}
  BY DEF Statuses, Undecided, Verdicts
<1>3. CASE Mark(c)
  <2>. DEFINE t == [caller[c] EXCEPT !.pc = "dispatching"]
  <2>1. /\ caller' = [caller EXCEPT ![c] = t] /\ caller[c].pc = "created" /\ InHand(c)
        /\ rows' = [rows EXCEPT ![caller[c].seq].status = "dispatching"]
    BY <1>3 DEF Mark, InHand, Held
  <2>2. t \in Threads /\ t.pc = "dispatching" /\ t.seq = caller[c].seq /\ t.op = caller[c].op
    BY ThreadIs DEF Held
  <2>. HIDE DEF t
  <2>3. t.pc \in Held \ {"created"}
    BY <2>2 DEF Held
  <2>4. caller[c].seq \in Seqs /\ Restates(caller[c].seq, "dispatching")
    BY <1>1, <2>1, <2>2, <2>3, ThreadRestates
  <2>. QED
    BY <1>2, <2>4 DEF RowStep
<1>4. CASE MarkSent(c)
  <2>. DEFINE t == [caller[c] EXCEPT !.pc = "monitoring"]
  <2>1. /\ caller' = [caller EXCEPT ![c] = t] /\ InHand(c)
        /\ rows' = [rows EXCEPT ![caller[c].seq].status = "sent"]
    BY <1>4 DEF MarkSent, InHand, Held
  <2>2. t \in Threads /\ t.pc = "monitoring" /\ t.seq = caller[c].seq /\ t.op = caller[c].op
    BY ThreadIs DEF Held
  <2>. HIDE DEF t
  <2>3. t.pc \in Held \ {"created"}
    BY <2>2 DEF Held
  <2>4. caller[c].seq \in Seqs /\ Restates(caller[c].seq, "sent")
    BY <1>1, <2>1, <2>2, <2>3, ThreadRestates
  <2>. QED
    BY <1>2, <2>4 DEF RowStep
<1>5. CASE Observe(c)
  <2>. DEFINE t == [caller[c] EXCEPT !.seen = TRUE]
  <2>1. /\ caller' = [caller EXCEPT ![c] = t] /\ InHand(c) /\ caller[c].pc = "monitoring"
        /\ rows' = [rows EXCEPT ![caller[c].seq].status = "sent"]
    BY <1>5 DEF Observe, InHand, Held
  <2>2. t \in Threads /\ t.pc = "monitoring" /\ t.seq = caller[c].seq /\ t.op = caller[c].op
    BY <2>1, ThreadIs
  <2>. HIDE DEF t
  <2>3. t.pc \in Held \ {"created"}
    BY <2>2 DEF Held
  <2>4. caller[c].seq \in Seqs /\ Restates(caller[c].seq, "sent")
    BY <1>1, <2>1, <2>2, <2>3, ThreadRestates
  <2>. QED
    BY <1>2, <2>4 DEF RowStep
<1>6. CASE Conclude(c)
  <2>1. /\ caller' = [caller EXCEPT ![c] = Free] /\ InHand(c) /\ caller[c].pc = "monitoring"
        /\ events[caller[c].seq].verdict # "none"
        /\ rows' = [rows EXCEPT ![caller[c].seq].status = events[caller[c].seq].verdict]
    BY <1>6 DEF Conclude, InHand, Held
  <2>2. Free \in Threads /\ Free.pc = "free" /\ Free.seq = 0 /\ caller[c].seq \in Seqs
    BY <2>1, ThreadIs, LedgerIs
  <2>3. events[caller[c].seq].verdict \in Verdicts
    BY <2>1, <2>2 DEF MillInv, MillTyped, ManagerTyped, Heard
  <2>4. events[caller[c].seq].verdict = "completed" => Ended(caller[c].seq)
    BY <2>1, <2>2 DEF MillInv, ClaimsOK, Says
  <2>5. Restates(caller[c].seq, events[caller[c].seq].verdict)
    BY <1>1, <2>1, <2>2, <2>4, ThreadRestates
  <2>. QED
    BY <1>2, <2>2, <2>3, <2>5 DEF RowStep
<1>7. CASE Release(c) \/ TimesOut(c)
  <2>1. caller[c].pc \in Held \ {"created"} /\ Uncertain(c)
    BY <1>7 DEF Release, TimesOut, Held
  <2>. QED
    BY <1>1, <2>1, UncertainRestates
<1>. QED
  BY <1>3, <1>4, <1>5, <1>6, <1>7

\* The page's poll and the operator's word restate a row nobody has in hand as
\* created.
LEMMA OthersRestate ==
  ASSUME MillInv, Poll \/ \E s \in Seqs : Reconcile(s)
  PROVE  RowStep
<1>1. ASSUME NEW x \in Seqs, NEW to \in Statuses \ {"created"}, Marked(x),
             expected' = expected, rows' = [rows EXCEPT ![x].status = to],
             UNCHANGED <<caller, link>>, LedgerOnly, to = "completed" => Ended(x)
      PROVE  Restates(x, to)
  <2>1. \A c \in Callers : InHand(c) /\ caller[c].seq = x => caller[c].pc # "created"
    BY <1>1, LedgerIs DEF Marked
  <2>. QED
    BY <1>1, <2>1, LedgerIs DEF Restates, Moved, Marked
<1>2. CASE Poll
  <2>1. /\ manager.result.seq \in Seqs /\ manager.result.event \in Verdicts
        /\ rows' = [rows EXCEPT ![manager.result.seq].status = manager.result.event]
        /\ expected' = expected /\ UNCHANGED <<caller, link>> /\ LedgerOnly
    BY <1>2 DEF Poll, LedgerOnly
  <2>2. Says(manager.result.seq, manager.result.event)
    BY DEF MillInv, ClaimsOK
  <2>3. manager.result.event \in Statuses \ {"created"} /\ manager.result.event # "none"
    BY <2>1 DEF Statuses, Verdicts
  <2>4. Marked(manager.result.seq) /\ (manager.result.event = "completed" => Ended(manager.result.seq))
    BY <2>2, <2>3 DEF Says
  <2>5. Restates(manager.result.seq, manager.result.event)
    BY <1>1, <2>1, <2>3, <2>4
  <2>. QED
    BY <2>1, <2>3, <2>5 DEF RowStep
<1>3. ASSUME NEW s \in Seqs, Reconcile(s)
      PROVE  RowStep
  <2>1. /\ rows[s].status \in {"latched", "faulted", "uncertain"}
        /\ rows' = [rows EXCEPT ![s].status = "reconciled"]
        /\ expected' = expected /\ UNCHANGED <<caller, link>> /\ LedgerOnly
    BY <1>3 DEF Reconcile, LedgerOnly
  <2>2. Marked(s)
    BY <2>1 DEF Marked
  <2>3. "reconciled" \in Statuses \ {"created"}
    BY DEF Statuses
  <2>4. Restates(s, "reconciled")
    BY <1>1, <2>1, <2>2, <2>3
  <2>. QED
    BY <2>3, <2>4 DEF RowStep
<1>. QED
  BY <1>2, <1>3

\* A thread that goes on without its row: it begins or gives up, or has sent.
Proceeds(c, t) ==
  /\ t \in Threads /\ caller' = [caller EXCEPT ![c] = t] /\ UNCHANGED <<expected, rows>> /\ LedgerOnly
  /\ \/ t.pc \in {"free", "checked"} /\ t.seq = 0 /\ (t.pc = "checked" => t.op \in Ops)
     \/ /\ caller[c].pc = "dispatching" /\ t.pc = "transmitted"
        /\ t.seq = caller[c].seq /\ t.op = caller[c].op

\* The callers stay in order.
LEMMA ProceedsKeeps ==
  ASSUME MillInv, NEW c \in Callers, NEW t, Proceeds(c, t)
  PROVE  /\ LedgerTyped' /\ CallersOK' /\ Grows
         /\ \A d \in Callers : caller'[d].pc \in {"created", "dispatching"} =>
              /\ caller'[d].seq = caller[d].seq /\ d # c
              /\ caller[d].pc \in {"created", "dispatching"}
         /\ \A s \in Seqs : rows'[s].status = "completed" => Ended(s)'
<1>1. /\ LedgerTyped /\ CallersOK /\ ClaimsOK /\ t \in Threads
      /\ UNCHANGED <<expected, rows, part>>
      /\ caller \in [Callers -> Threads] /\ caller' = [caller EXCEPT ![c] = t]
  BY LedgerIs DEF MillInv, MillTyped, Proceeds, LedgerOnly
<1>2. caller' \in [Callers -> Threads] /\ caller'[c] = t /\ \A d \in Callers \ {c} : caller'[d] = caller[d]
  BY <1>1
<1>3. LedgerTyped'
  BY <1>1, <1>2 DEF LedgerTyped
<1>4. CASE t.pc \in {"free", "checked"} /\ t.seq = 0 /\ (t.pc = "checked" => t.op \in Ops)
  <2>1. ~InHand(c)'
    BY <1>2, <1>4 DEF InHand, Held
  <2>2. CallersOK'
    <3>1. ASSUME NEW d \in Callers
          PROVE  IF InHand(d)' THEN /\ caller'[d].seq \in 1..expected'
                                    /\ rows'[caller'[d].seq].op = caller'[d].op
                                    /\ rows'[caller'[d].seq].status = "created" <=> caller'[d].pc = "created"
                 ELSE /\ caller'[d].seq = 0
                      /\ caller'[d].pc = "checked" => caller'[d].op \in Ops
      <4>1. CASE d = c
        BY <1>2, <1>4, <2>1, <4>1
      <4>2. CASE d # c
        BY <1>1, <1>2, <4>2 DEF CallersOK, InHand
      <4>. QED
        BY <4>1, <4>2
    <3>2. \A d \in Callers : InHand(d)' => d # c /\ InHand(d) /\ caller'[d].seq = caller[d].seq
      BY <1>2, <2>1 DEF InHand
    <3>3. \A d, e \in Callers : InHand(d)' /\ InHand(e)' /\ caller'[d].seq = caller'[e].seq => d = e
      BY <1>1, <3>2 DEF CallersOK
    <3>. QED
      BY <3>1, <3>3 DEF CallersOK
  <2>. QED
    BY <1>1, <1>2, <1>3, <1>4, <2>2, StillGrows DEF ClaimsOK, Ended
<1>5. CASE /\ caller[c].pc = "dispatching" /\ t.pc = "transmitted"
           /\ t.seq = caller[c].seq /\ t.op = caller[c].op
  <2>1. \A d \in Callers : (InHand(d)' <=> InHand(d)) /\ caller'[d].seq = caller[d].seq
    BY <1>2, <1>5 DEF InHand, Held
  <2>2. CallersOK'
    <3>1. ASSUME NEW d \in Callers
          PROVE  IF InHand(d)' THEN /\ caller'[d].seq \in 1..expected'
                                    /\ rows'[caller'[d].seq].op = caller'[d].op
                                    /\ rows'[caller'[d].seq].status = "created" <=> caller'[d].pc = "created"
                 ELSE /\ caller'[d].seq = 0
                      /\ caller'[d].pc = "checked" => caller'[d].op \in Ops
      <4>1. CASE d = c
        <5>1. /\ InHand(c) /\ caller[c].seq \in 1..expected /\ rows[caller[c].seq].op = caller[c].op
              /\ rows[caller[c].seq].status # "created"
          BY <1>1, <1>5 DEF CallersOK, InHand, Held
        <5>. QED
          BY <1>1, <1>2, <1>5, <2>1, <4>1, <5>1
      <4>2. CASE d # c
        BY <1>1, <1>2, <2>1, <4>2 DEF CallersOK
      <4>. QED
        BY <4>1, <4>2
    <3>2. \A d, e \in Callers : InHand(d)' /\ InHand(e)' /\ caller'[d].seq = caller'[e].seq => d = e
      BY <1>1, <2>1 DEF CallersOK
    <3>. QED
      BY <3>1, <3>2 DEF CallersOK
  <2>. QED
    BY <1>1, <1>2, <1>3, <1>5, <2>2, StillGrows DEF ClaimsOK, Ended
<1>. QED
  BY <1>4, <1>5 DEF Proceeds

\* When nothing was sent, or what was is lost.
LEMMA ProceedsAlone ==
  ASSUME MillInv, NEW c \in Callers, NEW t, Proceeds(c, t), link' = link
  PROVE  MillInv'
<1>1. /\ LedgerTyped' /\ CallersOK' /\ Grows
      /\ \A d \in Callers : caller'[d].pc \in {"created", "dispatching"} =>
           /\ caller'[d].seq = caller[d].seq /\ d # c
           /\ caller[d].pc \in {"created", "dispatching"}
      /\ \A s \in Seqs : rows'[s].status = "completed" => Ended(s)'
  BY ProceedsKeeps
<1>2. LedgerOnly /\ disk' = disk
  BY DEF Proceeds, LedgerOnly
<1>3. /\ LinkTyped' /\ LinksOK' /\ WiresOK' /\ ~Transmitted(disk.last)'
      /\ \A s : Transmitted(s)' => Transmitted(s)
  BY <1>1, <1>2, LinksStay
<1>4. \A d \in Callers : caller'[d].pc \in {"created", "dispatching"} =>
        ~Transmitted(caller[d].seq)' /\ disk'.last # caller'[d].seq
  BY <1>1, <1>2, <1>3 DEF MillInv, OnceOK
<1>. QED
  BY <1>1, <1>2, <1>3, <1>4, LedgerKeeps

\* The command joins its connection.
LEMMA SentMoves ==
  ASSUME LinkTyped, NEW k \in Links, NEW f \in Commands,
         link' = [link EXCEPT ![k].down = Append(@, f)]
  PROVE  /\ LinkTyped' /\ DownIs(k, Append(link[k].down, f))
         /\ Len(link'[k].down) = Len(link[k].down) + 1 /\ Len(link[k].down) \in Nat
         /\ link'[k].down[Len(link[k].down) + 1] = f
         /\ \A i \in 1..Len(link'[k].down) :
              i # Len(link[k].down) + 1 =>
                i \in 1..Len(link[k].down) /\ link'[k].down[i] = link[k].down[i]
<1>1. link[k].down \in Seq(Commands) /\ Len(link[k].down) \in Nat
  BY WireOf
<1>2. /\ Append(link[k].down, f) \in Seq(Commands)
      /\ Len(Append(link[k].down, f)) = Len(link[k].down) + 1
      /\ \A i \in 1..Len(link[k].down) : Append(link[k].down, f)[i] = link[k].down[i]
      /\ Append(link[k].down, f)[Len(link[k].down) + 1] = f
  BY <1>1, AppendProperties
<1>3. LinkTyped' /\ DownIs(k, Append(link[k].down, f))
  BY <1>2, QueueReplaced
<1>4. \A i \in 1..(Len(link[k].down) + 1) : i # Len(link[k].down) + 1 => i \in 1..Len(link[k].down)
  BY <1>1
<1>. QED
  BY <1>1, <1>2, <1>3, <1>4 DEF DownIs

\* Where a command that is on its way came from.
LEMMA SentFrom ==
  ASSUME LinkTyped, NEW h \in Links, NEW f \in Commands,
         link' = [link EXCEPT ![h].down = Append(@, f)],
         NEW k \in Links, NEW i \in 1..Len(link'[k].down)
  PROVE  \/ i \in 1..Len(link[k].down) /\ link'[k].down[i] = link[k].down[i]
         \/ k = h /\ i = Len(link[h].down) + 1 /\ link'[k].down[i] = f
<1>1. CASE k = h
  BY <1>1, SentMoves
<1>2. CASE k # h
  BY <1>2, SentMoves DEF DownIs, Others
<1>. QED
  BY <1>1, <1>2

\* A marked command is sent for the first time (Transmit).
LEMMA SendsKeeps ==
  ASSUME MillInv, NEW c \in Callers, NEW t, Proceeds(c, t), caller[c].pc = "dispatching",
         NEW h \in Links, NEW f \in Commands, f = [seq |-> caller[c].seq, op |-> caller[c].op],
         link' = [link EXCEPT ![h].down = Append(@, f)]
  PROVE  MillInv'
<1>1. /\ LinkTyped /\ LinksOK /\ WiresOK /\ OnceOK /\ CallersOK
      /\ LedgerOnly /\ UNCHANGED <<expected, rows, manager, agent, disk, part>>
  BY DEF MillInv, MillTyped, Proceeds, LedgerOnly
<1>2. /\ LedgerTyped' /\ CallersOK' /\ Grows
      /\ \A d \in Callers : caller'[d].pc \in {"created", "dispatching"} =>
           /\ caller'[d].seq = caller[d].seq /\ d # c
           /\ caller[d].pc \in {"created", "dispatching"}
      /\ \A s \in Seqs : rows'[s].status = "completed" => Ended(s)'
  BY ProceedsKeeps
<1>3. InHand(c) /\ f.seq = caller[c].seq /\ f.seq \in Seqs /\ Due(f)
  <2>1. InHand(c)
    BY DEF InHand, Held
  <2>2. /\ caller[c].seq \in Seqs /\ rows[caller[c].seq].op = caller[c].op
        /\ rows[caller[c].seq].status \notin {"none", "created"}
    BY <2>1, LedgerIs
  <2>. QED
    BY <2>1, <2>2 DEF Due, Marked
<1>4. ~Transmitted(f.seq) /\ disk.last # f.seq
  BY <1>1, <1>3 DEF OnceOK
<1>5. /\ LinkTyped' /\ \A k \in Links : /\ link'[k].up = link[k].up /\ link'[k].cut = link[k].cut
                                        /\ link'[k].server = link[k].server
  BY <1>1, SentMoves DEF DownIs, Others
<1>6. LinksOK'
  BY <1>1, <1>5 DEF LinksOK
<1>7. \A k \in Links : \A i \in 1..Len(link'[k].down) :
        \/ i \in 1..Len(link[k].down) /\ link'[k].down[i] = link[k].down[i]
        \/ k = h /\ i = Len(link[h].down) + 1 /\ link'[k].down[i] = f
  BY <1>1, SentFrom
<1>8. \A s : Transmitted(s)' => Transmitted(s) \/ s = f.seq
  BY <1>7 DEF Transmitted
<1>9. WiresOK'
  <2>1. ASSUME NEW k \in Links, NEW i \in 1..Len(link'[k].down)
        PROVE  Due(link[k].down[i])'
    <3>1. PICK g : g = link'[k].down[i]
      OBVIOUS
    <3>2. Due(g)
      BY <1>1, <1>3, <1>7, <3>1 DEF WiresOK
    <3>3. Due(g)'
      BY <1>2, <3>2, Growing
    <3>. QED
      BY <3>1, <3>3
  <2>2. ASSUME NEW k \in Links, NEW i \in 1..Len(link'[k].up)
        PROVE  Sent(link[k].up[i].seq)' /\ SaysFrame(link[k].up[i])'
    <3>1. Sent(link'[k].up[i].seq) /\ SaysFrame(link'[k].up[i])
      BY <1>1, <1>5 DEF WiresOK
    <3>. QED
      BY <1>2, <3>1, Growing
  <2>3. ASSUME NEW j \in Links, NEW k \in Links, NEW i \in 1..Len(link'[j].down),
               NEW n \in 1..Len(link'[k].down), link'[j].down[i].seq = link'[k].down[n].seq
        PROVE  j = k /\ i = n
    <3>1. CASE i \in 1..Len(link[j].down) /\ link'[j].down[i] = link[j].down[i]
      <4>1. CASE n \in 1..Len(link[k].down) /\ link'[k].down[n] = link[k].down[n]
        BY <1>1, <2>3, <3>1, <4>1, OnePlace
      <4>2. CASE link'[k].down[n] = f
        <5>1. Transmitted(f.seq)
          BY <2>3, <3>1, <4>2 DEF Transmitted
        <5>. QED
          BY <1>4, <5>1
      <4>. QED
        BY <1>7, <4>1, <4>2
    <3>2. CASE j = h /\ i = Len(link[h].down) + 1 /\ link'[j].down[i] = f
      <4>1. CASE n \in 1..Len(link[k].down) /\ link'[k].down[n] = link[k].down[n]
        <5>1. Transmitted(f.seq)
          BY <2>3, <3>2, <4>1 DEF Transmitted
        <5>. QED
          BY <1>4, <5>1
      <4>2. CASE k = h /\ n = Len(link[h].down) + 1
        BY <3>2, <4>2
      <4>. QED
        BY <1>7, <4>1, <4>2
    <3>. QED
      BY <1>7, <3>1, <3>2
  <2>. QED
    BY <2>1, <2>2, <2>3 DEF WiresOK
<1>10. ~Transmitted(disk.last)'
  BY <1>1, <1>4, <1>8 DEF OnceOK
<1>11. \A d \in Callers : caller'[d].pc \in {"created", "dispatching"} =>
         ~Transmitted(caller[d].seq)' /\ disk'.last # caller'[d].seq
  <2>1. ASSUME NEW d \in Callers, caller'[d].pc \in {"created", "dispatching"}
        PROVE  ~Transmitted(caller[d].seq)' /\ disk'.last # caller'[d].seq
    <3>1. /\ caller'[d].seq = caller[d].seq /\ d # c
          /\ caller[d].pc \in {"created", "dispatching"}
      BY <1>2, <2>1
    <3>2. InHand(d)
      BY <3>1 DEF InHand, Held
    <3>3. caller[d].seq # f.seq
      BY <1>1, <1>3, <3>1, <3>2 DEF CallersOK
    <3>4. ~Transmitted(caller[d].seq) /\ disk.last # caller[d].seq
      BY <1>1, <3>1 DEF OnceOK
    <3>. QED
      BY <1>1, <1>8, <3>1, <3>3, <3>4
  <2>. QED
    BY <2>1
<1>. QED
  BY <1>1, <1>2, <1>5, <1>6, <1>9, <1>10, <1>11, LedgerKeeps

\* Check keeps the invariant.
LEMMA CheckKeeps ==
  ASSUME MillInv, NEW c \in Callers, NEW op \in Ops, Check(c, op)
  PROVE  MillInv'
<1>. DEFINE t == [Free EXCEPT !.pc = "checked", !.op = op]
<1>1. /\ caller' = [caller EXCEPT ![c] = t] /\ UNCHANGED <<expected, rows, link>> /\ LedgerOnly
  BY DEF Check, LedgerOnly, appVars
<1>2. t \in Threads /\ t.pc = "checked" /\ t.seq = 0 /\ t.op = op
  BY ThreadIs DEF Threads
<1>. HIDE DEF t
<1>3. Proceeds(c, t)
  BY <1>1, <1>2 DEF Proceeds
<1>. QED
  BY <1>1, <1>3, ProceedsAlone

\* Transmit keeps the invariant, sent, lost or given up.
LEMMA TransmitKeeps ==
  ASSUME MillInv, NEW c \in Callers, Transmit(c)
  PROVE  /\ MillInv'
         /\ RowStep \/ UNCHANGED <<rows, part>>
<1>. DEFINE t == [caller[c] EXCEPT !.pc = "transmitted"]
            f == [seq |-> caller[c].seq, op |-> caller[c].op]
<1>1. caller[c].pc = "dispatching" /\ InHand(c) /\ UNCHANGED expected /\ LedgerOnly
  BY DEF Transmit, MayTransmit, InHand, Held, LedgerOnly
<1>2. /\ t \in Threads /\ t.pc = "transmitted" /\ t.seq = caller[c].seq /\ t.op = caller[c].op
  BY ThreadIs DEF Held
<1>3. f \in Commands
  BY <1>1, LedgerIs DEF Commands
<1>4. CASE /\ manager.conn # 0
           /\ link' = [link EXCEPT ![manager.conn].down = Append(@, f)]
           /\ caller' = [caller EXCEPT ![c] = t] /\ UNCHANGED rows
  <2>1. manager.conn \in Links
    BY <1>4 DEF MillInv, MillTyped, ManagerTyped, Managers
  <2>. HIDE DEF t
  <2>2. Proceeds(c, t)
    BY <1>1, <1>2, <1>4 DEF Proceeds
  <2>3. PICK g \in Commands : g = f
    BY <1>3
  <2>4. link' = [link EXCEPT ![manager.conn].down = Append(@, g)]
    BY <1>4, <2>3
  <2>. QED
    BY <1>1, <1>4, <2>1, <2>2, <2>3, <2>4, SendsKeeps DEF LedgerOnly
<1>5. CASE caller' = [caller EXCEPT ![c] = t] /\ UNCHANGED <<rows, link>>
  <2>. HIDE DEF t
  <2>1. Proceeds(c, t)
    BY <1>1, <1>2, <1>5 DEF Proceeds
  <2>. QED
    BY <1>1, <1>5, <2>1, ProceedsAlone DEF LedgerOnly
<1>6. CASE Uncertain(c) /\ UNCHANGED link
  <2>1. RowStep
    BY <1>1, <1>6, UncertainRestates DEF Held
  <2>. QED
    BY <2>1, RestatesKeeps DEF RowStep
<1>. QED
  BY <1>4, <1>5, <1>6 DEF Transmit

\* The next sequence is given out: nobody has it, and nothing was sent under it.
LEMMA ReserveKeeps ==
  ASSUME MillInv, NEW c \in Callers, Reserve(c)
  PROVE  MillInv'
<1>. DEFINE n == expected + 1
            r == [status |-> "created", op |-> caller[c].op]
            t == [caller[c] EXCEPT !.pc = "created", !.seq = n]
<1>1. /\ caller[c].pc = "checked" /\ LedgerOnly /\ link' = link
      /\ LedgerTyped /\ CallersOK /\ OnceOK /\ ClaimsOK /\ WiresOK /\ TakenOK
      /\ UNCHANGED <<disk, part>>
  BY DEF Reserve, LedgerOnly, MillInv, MillTyped
<1>2. CASE caller' = [caller EXCEPT ![c] = Free] /\ UNCHANGED appVars
  <2>1. Proceeds(c, Free)
    BY <1>1, <1>2, ThreadIs DEF Proceeds, appVars
  <2>. QED
    BY <1>1, <2>1, ProceedsAlone
<1>3. CASE /\ expected < MaxSequence /\ expected' = n /\ rows' = [rows EXCEPT ![n] = r]
           /\ caller' = [caller EXCEPT ![c].pc = "created", ![c].seq = n]
  <2>1. /\ expected \in Nat /\ rows \in [Seqs -> Rows] /\ caller \in [Callers -> Threads]
        /\ caller[c] \in Threads /\ expected < MaxSequence /\ MaxSequence \in Nat
    BY <1>3, LedgerIs, Numbers
  <2>2. /\ n \in Seqs /\ n \in 0..MaxSequence /\ n # 0 /\ ~(n <= expected) /\ n <= expected'
        /\ \A s \in Seqs : s # n => (s <= expected' <=> s <= expected)
        /\ 1..expected \subseteq 1..n /\ n \notin 1..expected /\ n \in 1..n
    BY <1>3, <2>1 DEF Seqs
  <2>3. rows[n] = NoRow /\ ~Marked(n)
    BY <2>2, LedgerIs DEF Marked, NoRow
  <2>4. caller[c].op \in Ops
    BY <1>1 DEF CallersOK, InHand, Held
  <2>5. /\ t \in Threads /\ t.pc = "created" /\ t.seq = n /\ t.op = caller[c].op
    BY <2>1, <2>2 DEF Threads, Held
  <2>6. caller' \in [Callers -> Threads] /\ caller'[c] = t /\ \A d \in Callers \ {c} : caller'[d] = caller[d]
    <3>1. caller' = [caller EXCEPT ![c] = t]
      BY <1>3, <2>1
    <3>. HIDE DEF t
    <3>. QED
      BY <2>1, <2>5, <3>1
  <2>7. r \in Rows /\ r.status = "created" /\ r.op = caller[c].op /\ r.op # "none"
    BY <2>4, MillAssumption DEF Rows, Statuses, Undecided
  <2>. HIDE DEF n, r, t
  <2>8. rows' \in [Seqs -> Rows] /\ rows'[n] = r /\ \A s \in Seqs \ {n} : rows'[s] = rows[s]
    BY <1>3, <2>1, <2>2, <2>7
  <2>9. LedgerTyped'
    <3>1. ASSUME NEW s \in Seqs
          PROVE  IF s <= expected' THEN rows'[s].status # "none" /\ rows'[s].op # "none"
                                   ELSE rows'[s] = NoRow
      <4>1. CASE s = n
        BY <2>2, <2>7, <2>8, <4>1
      <4>2. CASE s # n
        BY <1>1, <2>2, <2>8, <4>2 DEF LedgerTyped
      <4>. QED
        BY <4>1, <4>2
    <3>. QED
      BY <1>3, <2>2, <2>6, <2>8, <3>1 DEF LedgerTyped
  <2>10. Grows
    BY <1>1, <2>3, <2>8 DEF Grows, Marked, Ended
  <2>11. /\ LinkTyped' /\ LinksOK' /\ WiresOK' /\ ~Transmitted(disk.last)'
         /\ \A s : Transmitted(s)' => Transmitted(s)
    BY <1>1, <2>10, LinksStay
  <2>12. CallersOK'
    <3>1. ASSUME NEW d \in Callers
          PROVE  IF InHand(d)' THEN /\ caller'[d].seq \in 1..expected'
                                    /\ rows'[caller'[d].seq].op = caller'[d].op
                                    /\ rows'[caller'[d].seq].status = "created" <=> caller'[d].pc = "created"
                 ELSE /\ caller'[d].seq = 0
                      /\ caller'[d].pc = "checked" => caller'[d].op \in Ops
      <4>1. CASE d = c
        BY <1>3, <2>2, <2>5, <2>6, <2>7, <2>8, <4>1 DEF InHand, Held
      <4>2. CASE d # c /\ InHand(d)
        <5>1. /\ caller[d].seq \in 1..expected /\ caller[d].seq \in Seqs \ {n}
              /\ rows[caller[d].seq].op = caller[d].op
              /\ rows[caller[d].seq].status = "created" <=> caller[d].pc = "created"
          <6>1. /\ caller[d].seq \in 1..expected
                /\ rows[caller[d].seq].op = caller[d].op
                /\ rows[caller[d].seq].status = "created" <=> caller[d].pc = "created"
            BY <1>1, <4>2 DEF CallersOK
          <6>2. caller[d].seq \in Seqs
            BY <4>2, LedgerIs
          <6>. QED
            BY <2>2, <6>1, <6>2
        <5>. QED
          BY <1>3, <2>2, <2>6, <2>8, <4>2, <5>1 DEF InHand
      <4>3. CASE d # c /\ ~InHand(d)
        BY <1>1, <2>6, <4>3 DEF CallersOK, InHand
      <4>. QED
        BY <4>1, <4>2, <4>3
    <3>2. \A d \in Callers : InHand(d)' => (d = c /\ caller'[d].seq = n)
            \/ (d # c /\ InHand(d) /\ caller'[d].seq = caller[d].seq /\ caller[d].seq # n)
      <4>1. \A d \in Callers : InHand(d) => caller[d].seq \in 1..expected
        BY <1>1 DEF CallersOK
      <4>. QED
        BY <2>2, <2>5, <2>6, <4>1 DEF InHand
    <3>3. \A d, e \in Callers : InHand(d)' /\ InHand(e)' /\ caller'[d].seq = caller'[e].seq => d = e
      BY <1>1, <3>2 DEF CallersOK
    <3>. QED
      BY <3>1, <3>3 DEF CallersOK
  <2>13. ~Transmitted(n) /\ disk.last # n
    <3>1. \A k \in Links : \A i \in 1..Len(link[k].down) : Marked(link[k].down[i].seq)
      BY <1>1 DEF WiresOK, Due
    <3>2. disk.last # 0 => Marked(disk.last)
      BY <1>1 DEF TakenOK, Sent
    <3>. QED
      BY <2>2, <2>3, <3>1, <3>2 DEF Transmitted
  <2>14. \A d \in Callers : caller'[d].pc \in {"created", "dispatching"} =>
           ~Transmitted(caller[d].seq)' /\ disk'.last # caller'[d].seq
    <3>1. ASSUME NEW d \in Callers, caller'[d].pc \in {"created", "dispatching"}
          PROVE  ~Transmitted(caller[d].seq)' /\ disk'.last # caller'[d].seq
      <4>1. CASE d = c
        BY <1>1, <2>5, <2>6, <2>11, <2>13, <4>1
      <4>2. CASE d # c
        BY <1>1, <2>6, <2>11, <3>1, <4>2 DEF OnceOK
      <4>. QED
        BY <4>1, <4>2
    <3>. QED
      BY <3>1
  <2>15. \A s \in Seqs : rows'[s].status = "completed" => Ended(s)'
    <3>1. \A s \in Seqs : rows'[s].status = "completed" => s # n /\ Ended(s)
      BY <1>1, <2>7, <2>8 DEF ClaimsOK
    <3>. QED
      BY <1>1, <2>8, <3>1 DEF Ended
  <2>. QED
    BY <1>1, <2>9, <2>10, <2>11, <2>12, <2>14, <2>15, LedgerKeeps
<1>. QED
  BY <1>2, <1>3 DEF Reserve, SpaceLeft
-----------------------------------------------------------------------------
(* The manager, the connections and the setup.                             *)

\* A step of the application's end of the connections.
LEMMA ManagerKeeps ==
  ASSUME MillInv, UNCHANGED <<expected, rows, agent, disk, mill, part>>, LedgerTyped', CallersOK',
         \A c \in Callers : caller'[c].pc \in {"created", "dispatching"} => caller'[c] = caller[c],
         ManagerTyped', LinkTyped', LinksOK', \A k \in Links : Shrinks(k) /\ Gains(k, <<>>),
         Sent(manager'.seq), Says(manager'.result.seq, manager'.result.event),
         \A s \in Seqs : Says(s, events'[s].verdict)
  PROVE  MillInv'
<1>1. /\ LinkTyped /\ AgentTyped /\ WiresOK /\ TakenOK /\ OnceOK /\ RunningOK /\ WatchOK /\ ClaimsOK
      /\ Grows
  BY StillGrows DEF MillInv, MillTyped
<1>2. MillTyped'
  BY <1>1 DEF MillTyped, AgentTyped
<1>3. WiresOK' /\ \A s : Transmitted(s)' => Transmitted(s)
  <2>1. \A i \in 1..Len(<<>>) : Sent(<<>>[i].seq)' /\ SaysFrame(<<>>[i])'
    OBVIOUS
  <2>. QED
    BY <1>1, <2>1, Silent, WiresKept
<1>4. TakenOK'
  <2>1. Sent(disk.last)' /\ Sent(manager.seq)'
    <3>1. Sent(disk'.last) /\ Sent(manager'.seq)
      BY <1>1 DEF TakenOK
    <3>. QED
      BY <1>1, <3>1, Growing
  <2>2. agent'.cmd.seq # 0 => Due(agent.cmd)'
    <3>1. agent'.cmd.seq # 0 => Due(agent'.cmd)
      BY <1>1 DEF TakenOK
    <3>. QED
      BY <1>1, <3>1, Growing
  <2>. QED
    BY <1>1, <2>1, <2>2 DEF TakenOK
<1>5. OnceOK'
  BY <1>1, <1>3 DEF OnceOK
<1>6. RunningOK'
  BY <1>1 DEF RunningOK
<1>7. WatchOK'
  <2>1. Watched(agent.active)' /\ Watched(disk.active)'
    <3>1. Watched(agent'.active) /\ Watched(disk'.active)
      BY <1>1 DEF WatchOK
    <3>. QED
      BY <3>1, StillWatched
  <2>. QED
    BY <1>1, <2>1 DEF WatchOK
<1>8. ClaimsOK'
  <2>1. Says(disk.result.seq, disk.result.event)' /\ Says(manager.result.seq, manager.result.event)'
    <3>1. /\ Says(disk'.result.seq, disk'.result.event)
          /\ Says(manager'.result.seq, manager'.result.event)
      BY <1>1 DEF ClaimsOK
    <3>. QED
      BY <1>1, <3>1, Growing
  <2>2. \A s \in Seqs : Says(s, events[s].verdict)'
    BY <1>1, Growing
  <2>3. \A s \in Seqs : rows'[s].status = "completed" => Ended(s)'
    BY <1>1 DEF ClaimsOK, Ended
  <2>. QED
    BY <2>1, <2>2, <2>3 DEF ClaimsOK
<1>. QED
  BY <1>2, <1>3, <1>4, <1>5, <1>6, <1>7, <1>8 DEF MillInv

\* Callers that nobody disturbs.
LEMMA CallersStay ==
  ASSUME MillInv, UNCHANGED <<expected, rows, caller>>
  PROVE  /\ LedgerTyped' /\ CallersOK'
         /\ \A c \in Callers : caller'[c].pc \in {"created", "dispatching"} => caller'[c] = caller[c]
BY DEF MillInv, MillTyped, LedgerTyped, CallersOK, InHand

\* What the manager knows.
LEMMA ManagerIs ==
  ASSUME MillInv
  PROVE  /\ setup \in Setups /\ manager \in Managers /\ events \in [Seqs -> Heard]
         /\ manager.conn \in Links \cup {0} /\ manager.seq \in 0..MaxSequence /\ manager.result \in Results
         /\ Sent(manager.seq) /\ Says(manager.result.seq, manager.result.event)
         /\ \A s \in Seqs : Says(s, events[s].verdict)
BY DEF MillInv, MillTyped, ManagerTyped, Managers, TakenOK, ClaimsOK

\* The frame that is read, and the queue without it.
LEMMA FrameRead ==
  ASSUME MillInv, NEW k \in Links, link[k].up # <<>>
  PROVE  /\ Head(link[k].up) \in Hellos \cup Reports /\ Tail(link[k].up) \in Seq(Hellos \cup Reports)
         /\ Sent(Head(link[k].up).seq) /\ SaysFrame(Head(link[k].up))
         /\ link[k].server = "new" => Head(link[k].up) \in Hellos
         /\ link[k].server # "new" => Head(link[k].up) \in Reports
         /\ \A i \in 1..Len(Tail(link[k].up)) : Tail(link[k].up)[i].kind # "hello"
<1>1. LinkTyped /\ LinksOK /\ WiresOK
  BY DEF MillInv, MillTyped
<1>2. link[k].up \in Seq(Hellos \cup Reports)
  BY <1>1, WireOf
<1>3. /\ Head(link[k].up) \in Hellos \cup Reports /\ Head(link[k].up) = link[k].up[1]
      /\ 1 \in 1..Len(link[k].up) /\ Tail(link[k].up) \in Seq(Hellos \cup Reports)
      /\ \A i \in 1..Len(Tail(link[k].up)) : i + 1 \in 1..Len(link[k].up) /\ Tail(link[k].up)[i] = link[k].up[i + 1]
  BY <1>2, TailIs
<1>4. Sent(Head(link[k].up).seq) /\ SaysFrame(Head(link[k].up))
  BY <1>1, <1>3 DEF WiresOK
<1>5. \A i \in 1..Len(link[k].up) : link[k].up[i].kind = "hello" <=> link[k].server = "new" /\ i = 1
  BY <1>1 DEF LinksOK
<1>6. Head(link[k].up).kind = "hello" <=> link[k].server = "new"
  BY <1>3, <1>5
<1>7. /\ link[k].server = "new" => Head(link[k].up) \in Hellos
      /\ link[k].server # "new" => Head(link[k].up) \in Reports
  BY <1>3, <1>6, FrameKinds
<1>8. \A i \in 1..Len(Tail(link[k].up)) : Tail(link[k].up)[i].kind # "hello"
  <2>1. Len(Tail(link[k].up)) \in Nat
    BY <1>3
  <2>2. \A i \in 1..Len(Tail(link[k].up)) : i + 1 # 1
    BY <2>1
  <2>. QED
    BY <1>3, <1>5, <2>2
<1>. QED
  BY <1>3, <1>4, <1>7, <1>8

\* What is heard of a command, typed.
LEMMA HeardIs ==
  ASSUME NEW h \in Heard
  PROVE  h.names \subseteq Verdicts \cup {"running"} /\ h.verdict \in Verdicts \cup {"none"}
BY DEF Heard

\* The manager takes a new connection over, with the result that HELLO carries.
LEMMA ActivateKeeps ==
  ASSUME MillInv, NEW k \in Links, link[k].up # <<>>, link[k].server = "new",
         NEW f, f = Head(link[k].up), Activate(k, f),
         UNCHANGED <<expected, rows, caller, agent, disk, mill, part>>
  PROVE  MillInv'
<1>1. /\ f \in Hellos /\ Tail(link[k].up) \in Seq(Hellos \cup Reports) /\ Sent(f.seq) /\ SaysFrame(f)
      /\ \A i \in 1..Len(Tail(link[k].up)) : Tail(link[k].up)[i].kind # "hello"
  BY FrameRead
<1>2. f.seq \in 0..MaxSequence /\ f.result \in Results /\ Says(f.result.seq, f.result.event)
  BY <1>1, FrameKinds DEF SaysFrame
<1>3. LinkTyped /\ LinksOK /\ link[k] \in Wires /\ \A j \in Links : link[j] \in Wires
  BY WireOf DEF MillInv, MillTyped
<1>4. /\ manager' = [manager EXCEPT !.conn = k, !.seq = f.seq, !.result = f.result]
      /\ manager' \in Managers /\ manager'.conn = k /\ manager'.seq = f.seq /\ manager'.result = f.result
  BY <1>2, ManagerIs DEF Activate, Managers
<1>5. setup' \in Setups
  <2>. DEFINE b == setup.want \in {"on", "off"}
  <2>1. setup' = [setup EXCEPT !.fresh = b]
    BY Zenon DEF Activate
  <2>2. b \in BOOLEAN
    OBVIOUS
  <2>. HIDE DEF b
  <2>. QED
    BY <2>1, <2>2, ManagerIs DEF Setups
<1>6. /\ events' \in [Seqs -> Heard]
      /\ \A s \in Seqs : Says(s, events'[s].verdict)
  <2>. DEFINE r == f.result
  <2>1. CASE r.seq \in Seqs /\ r.event \in Verdicts /\ r.event \notin events[r.seq].names
    <3>. DEFINE h == [names |-> events[r.seq].names \cup {r.event}, verdict |-> r.event]
    <3>1. events' = [events EXCEPT ![r.seq] = h]
      BY <2>1, ManagerIs DEF Activate, Merged
    <3>2. h \in Heard /\ h.verdict = r.event
      <4>1. events[r.seq].names \subseteq Verdicts \cup {"running"}
        BY <2>1, ManagerIs, HeardIs
      <4>. QED
        BY <2>1, <4>1 DEF Heard
    <3>. HIDE DEF h
    <3>3. events' \in [Seqs -> Heard] /\ events'[r.seq] = h /\ \A s \in Seqs \ {r.seq} : events'[s] = events[s]
      BY <2>1, <3>1, <3>2, ManagerIs
    <3>. QED
      BY <1>2, <2>1, <3>2, <3>3, ManagerIs
  <2>2. CASE ~(r.seq \in Seqs /\ r.event \in Verdicts /\ r.event \notin events[r.seq].names)
    <3>1. events' = events
      BY <2>2 DEF Activate, Merged
    <3>. QED
      BY <3>1, ManagerIs
  <2>. QED
    BY <2>1, <2>2
<1>7. ManagerTyped'
  BY <1>4, <1>5, <1>6 DEF ManagerTyped
<1>8. /\ link' \in [Links -> Wires] /\ link'[k].up = Tail(link[k].up) /\ link'[k].server = "live"
      /\ link'[k].down = link[k].down
      /\ \A j \in Links \ {k} : /\ link'[j].up = link[j].up /\ link'[j].down = link[j].down
                                /\ link'[j].server = link[j].server /\ (link[j].cut => link'[j].cut)
  <2>. DEFINE wk == [link[k] EXCEPT !.up = Tail(@), !.server = "live"]
              wj(j) == IF j \in Superseded(k) THEN [link[j] EXCEPT !.cut = TRUE] ELSE link[j]
  <2>1. link' = [j \in Links |-> IF j = k THEN wk ELSE wj(j)]
    BY DEF Activate
  <2>2. /\ wk \in Wires /\ wk.up = Tail(link[k].up) /\ wk.server = "live" /\ wk.down = link[k].down
    BY <1>1, <1>3 DEF Wires
  <2>3. \A j \in Links : /\ wj(j) \in Wires /\ wj(j).up = link[j].up /\ wj(j).down = link[j].down
                         /\ wj(j).server = link[j].server /\ (link[j].cut => wj(j).cut)
    BY <1>3 DEF Wires
  <2>. HIDE DEF wk, wj
  <2>. QED
    BY <2>1, <2>2, <2>3
<1>9. LinkTyped'
  BY <1>8 DEF LinkTyped
<1>10. LinksOK'
  <2>1. ASSUME NEW j \in Links
        PROVE  /\ link'[j].server = "done" => link'[j].cut /\ link'[j].up = <<>>
               /\ link'[j].server = "new" => link'[j].up # <<>>
               /\ \A i \in 1..Len(link'[j].up) :
                    link'[j].up[i].kind = "hello" <=> link'[j].server = "new" /\ i = 1
    <3>1. CASE j = k
      BY <1>1, <1>8, <3>1
    <3>2. CASE j # k
      BY <1>3, <1>8, <3>2 DEF LinksOK
    <3>. QED
      BY <3>1, <3>2
  <2>. QED
    BY <1>3, <1>4, <1>8, <2>1 DEF LinksOK
<1>11. \A j \in Links : Shrinks(j) /\ Gains(j, <<>>)
  BY <1>8 DEF Shrinks, Gains
<1>. QED
  BY <1>1, <1>2, <1>4, <1>6, <1>7, <1>9, <1>10, <1>11, CallersStay, ManagerKeeps

\* The manager hears a frame of a connection.
LEMMA HandleKeeps ==
  ASSUME MillInv, NEW k \in Links, link[k].up # <<>>, link[k].server = "live",
         NEW f, f = Head(link[k].up), Handle(k, f),
         UNCHANGED <<expected, rows, caller, agent, disk, mill, part>>
  PROVE  MillInv'
<1>1. /\ f \in Reports /\ Tail(link[k].up) \in Seq(Hellos \cup Reports) /\ Sent(f.seq) /\ SaysFrame(f)
      /\ \A i \in 1..Len(Tail(link[k].up)) : Tail(link[k].up)[i].kind # "hello"
  BY FrameRead
<1>2. /\ f.seq \in Seqs /\ f.seq \in 0..MaxSequence /\ f.event \in Verdicts \cup {"accepted", "running"}
      /\ Says(f.seq, f.event) /\ f.event # "none"
  BY <1>1, FrameKinds, Numbers DEF SaysFrame, Verdicts
<1>3. LinkTyped /\ LinksOK
  BY DEF MillInv, MillTyped
<1>4. /\ manager' \in Managers /\ manager'.conn = manager.conn /\ Sent(manager'.seq)
      /\ Says(manager'.result.seq, manager'.result.event)
  <2>. DEFINE m == Larger(manager.seq, f.seq)
              r == IF f.event \in Verdicts THEN [seq |-> f.seq, event |-> f.event] ELSE manager.result
  <2>1. manager' = [manager EXCEPT !.seq = m, !.result = r]
    BY DEF Handle
  <2>2. m \in {manager.seq, f.seq} /\ m \in 0..MaxSequence
    BY <1>2, ManagerIs DEF Larger
  <2>3. r \in Results /\ Says(r.seq, r.event)
    <3>1. CASE f.event \in Verdicts
      BY <1>2, <3>1 DEF Results
    <3>2. CASE f.event \notin Verdicts
      BY <3>2, ManagerIs
    <3>. QED
      BY <3>1, <3>2
  <2>. HIDE DEF m, r
  <2>4. manager' \in Managers /\ manager'.conn = manager.conn /\ manager'.seq = m /\ manager'.result = r
    BY <2>1, <2>2, <2>3, ManagerIs DEF Managers
  <2>. QED
    BY <1>1, <2>2, <2>3, <2>4, ManagerIs
<1>5. /\ events' \in [Seqs -> Heard]
      /\ \A s \in Seqs : Says(s, events'[s].verdict)
  <2>. DEFINE h == [names   |-> events[f.seq].names \cup ({f.event} \ {"accepted"}),
                    verdict |-> IF f.event \in Verdicts THEN f.event ELSE events[f.seq].verdict]
  <2>1. events' = [events EXCEPT ![f.seq] = h]
    BY <1>2, ManagerIs DEF Handle
  <2>2. /\ events[f.seq] \in Heard /\ events[f.seq].names \subseteq Verdicts \cup {"running"}
        /\ events[f.seq].verdict \in Verdicts \cup {"none"}
    BY <1>2, ManagerIs, HeardIs
  <2>3. h \in Heard /\ Says(f.seq, h.verdict)
    <3>1. h.names \subseteq Verdicts \cup {"running"}
      BY <1>2, <2>2
    <3>2. h.verdict \in Verdicts \cup {"none"}
      BY <1>2, <2>2
    <3>3. Says(f.seq, h.verdict)
      BY <1>2, ManagerIs
    <3>. QED
      BY <3>1, <3>2, <3>3 DEF Heard
  <2>. HIDE DEF h
  <2>4. events' \in [Seqs -> Heard] /\ events'[f.seq] = h /\ \A s \in Seqs \ {f.seq} : events'[s] = events[s]
    BY <1>2, <2>1, <2>3, ManagerIs
  <2>. QED
    BY <2>3, <2>4, ManagerIs
<1>6. ManagerTyped'
  BY <1>4, <1>5, ManagerIs DEF Handle, ManagerTyped
<1>7. UpIs(k, Tail(link[k].up)) /\ LinkTyped'
  BY <1>1, <1>3, QueueReplaced DEF Handle
<1>8. LinksOK'
  <2>1. ASSUME NEW j \in Links
        PROVE  /\ link'[j].server = "done" => link'[j].cut /\ link'[j].up = <<>>
               /\ link'[j].server = "new" => link'[j].up # <<>>
               /\ \A i \in 1..Len(link'[j].up) :
                    link'[j].up[i].kind = "hello" <=> link'[j].server = "new" /\ i = 1
    <3>1. CASE j = k
      BY <1>1, <1>7, <3>1 DEF UpIs
    <3>2. CASE j # k
      BY <1>3, <1>7, <3>2 DEF LinksOK, UpIs, Others
    <3>. QED
      BY <3>1, <3>2
  <2>2. manager'.conn # 0 => link'[manager'.conn].server = "live"
    BY <1>3, <1>4, <1>7, ManagerIs DEF LinksOK, UpIs, Others
  <2>. QED
    BY <1>3, <2>1, <2>2 DEF LinksOK
<1>9. \A j \in Links : Shrinks(j) /\ Gains(j, <<>>)
  BY <1>7 DEF Shrinks, Gains, UpIs, Others
<1>. QED
  BY <1>4, <1>5, <1>6, <1>7, <1>8, <1>9, CallersStay, ManagerKeeps

\* Serve keeps the invariant.
LEMMA ServeKeeps ==
  ASSUME MillInv, NEW k \in Links, Serve(k)
  PROVE  MillInv'
<1>1. link[k].up # <<>> /\ UNCHANGED <<expected, rows, caller, agent, disk, mill, part>>
  BY DEF Serve, appVars
<1>2. PICK f : f = Head(link[k].up)
  OBVIOUS
<1>3. CASE link[k].server = "new" /\ Activate(k, f)
  BY <1>1, <1>2, <1>3, ActivateKeeps
<1>4. CASE link[k].server = "live" /\ Handle(k, f)
  BY <1>1, <1>2, <1>4, HandleKeeps
<1>. QED
  BY <1>2, <1>3, <1>4 DEF Serve

\* A worker ends, and a connection breaks.
LEMMA BrokenKeeps ==
  ASSUME MillInv, NEW k \in Links, WorkerEnds(k) \/ Cut(k)
  PROVE  MillInv'
<1>1. /\ LinkTyped /\ LinksOK /\ link[k] \in Wires /\ <<>> \in Seq(Hellos \cup Reports)
      /\ UNCHANGED <<expected, rows, setup, caller, events, agent, disk, mill, part>>
  BY WireOf DEF MillInv, MillTyped, WorkerEnds, Cut, appVars
<1>2. CASE WorkerEnds(k)
  <2>. DEFINE w == [link[k] EXCEPT !.server = "done", !.up = <<>>]
              n == IF manager.conn = k THEN 0 ELSE manager.conn
  <2>1. link[k].cut /\ manager' = [manager EXCEPT !.conn = n]
    BY <1>2 DEF WorkerEnds
  <2>2. link' = [link EXCEPT ![k] = w]
    BY <1>1, <1>2 DEF WorkerEnds, LinkTyped
  <2>3. w \in Wires /\ w.server = "done" /\ w.up = <<>> /\ w.down = link[k].down /\ w.cut = link[k].cut
    BY <1>1 DEF Wires
  <2>4. n \in Links \cup {0} /\ n # k /\ n \in {0, manager.conn}
    BY ManagerIs, Numbers
  <2>. HIDE DEF w, n
  <2>5. LinkTyped' /\ Others(k) /\ link'[k] = w
    BY <1>1, <2>2, <2>3, WireReplaced
  <2>6. /\ manager' \in Managers /\ manager'.conn = n /\ manager'.seq = manager.seq
        /\ manager'.result = manager.result
    BY <2>1, <2>4, ManagerIs DEF Managers
  <2>7. ManagerTyped'
    BY <1>1, <2>6, ManagerIs DEF ManagerTyped
  <2>8. LinksOK'
    <3>1. ASSUME NEW j \in Links
          PROVE  /\ link'[j].server = "done" => link'[j].cut /\ link'[j].up = <<>>
                 /\ link'[j].server = "new" => link'[j].up # <<>>
                 /\ \A i \in 1..Len(link'[j].up) :
                      link'[j].up[i].kind = "hello" <=> link'[j].server = "new" /\ i = 1
      <4>1. CASE j = k
        <5>1. link'[j].up = <<>> /\ link'[j].server = "done" /\ link'[j].cut
          BY <2>1, <2>3, <2>5, <4>1
        <5>. QED
          BY <5>1
      <4>2. CASE j # k
        BY <1>1, <2>5, <4>2 DEF LinksOK, Others
      <4>. QED
        BY <4>1, <4>2
    <3>2. manager'.conn # 0 => link'[manager'.conn].server = "live"
      BY <1>1, <2>4, <2>5, <2>6, ManagerIs DEF LinksOK, Others
    <3>. QED
      BY <1>1, <3>1, <3>2 DEF LinksOK
  <2>9. \A j \in Links : Shrinks(j) /\ Gains(j, <<>>)
    BY <2>3, <2>5 DEF Shrinks, Gains, Others
  <2>. QED
    BY <1>1, <2>5, <2>6, <2>7, <2>8, <2>9, ManagerIs, CallersStay, ManagerKeeps
<1>3. CASE Cut(k)
  <2>1. link' = [link EXCEPT ![k] = [link[k] EXCEPT !.cut = TRUE]] /\ manager' = manager
    BY <1>3 DEF Cut
  <2>. DEFINE w == [link[k] EXCEPT !.cut = TRUE]
  <2>2. w \in Wires /\ w.server = link[k].server /\ w.up = link[k].up /\ w.down = link[k].down /\ w.cut
    BY <1>1 DEF Wires
  <2>3. link' = [link EXCEPT ![k] = w]
    BY <2>1
  <2>. HIDE DEF w
  <2>4. LinkTyped' /\ Others(k) /\ link'[k] = w
    BY <1>1, <2>2, <2>3, WireReplaced
  <2>5. Moves(<<>>)
    BY <2>2, <2>4 DEF Moves, Shrinks, Calm, Others
  <2>6. Settled /\ Quiet
    BY <1>1, <2>1, Unmoved, RestQuiet DEF appVars
  <2>. QED
    BY <2>4, <2>5, <2>6, Silent, QuietStep
<1>. QED
  BY <1>2, <1>3

\* A telemetry frame, and the changes of the setup that leave the agent alone.
LEMMA SetupKeeps ==
  ASSUME MillInv, Telemetry \/ Bootstrapped \/ Activated \/ EditEndpoint
  PROVE  MillInv'
<1>1. UNCHANGED <<appVars, caller, events, link, agent, disk, mill, part>>
  BY DEF Telemetry, Bootstrapped, Activated, EditEndpoint
<1>2. /\ manager'.conn = manager.conn /\ manager'.seq = manager.seq
      /\ manager'.result = manager.result /\ manager' \in Managers /\ setup' \in Setups
  <2>1. CASE Telemetry
    <3>. DEFINE b == mill.running = 0
    <3>1. manager' = [manager EXCEPT !.idle = b] /\ setup' = setup
      BY <2>1, Zenon DEF Telemetry
    <3>2. b \in BOOLEAN
      OBVIOUS
    <3>. HIDE DEF b
    <3>. QED
      BY <3>1, <3>2, ManagerIs DEF Managers
  <2>2. CASE Bootstrapped
    BY <2>2, ManagerIs DEF Bootstrapped, Setups
  <2>3. CASE Activated
    <3>. DEFINE b == setup.want = "on"
    <3>1. /\ setup' = [setup EXCEPT !.enabled = b, !.verified = TRUE, !.want = "none", !.fresh = FALSE]
          /\ manager' = manager
      BY <2>3, Zenon DEF Activated
    <3>2. b \in BOOLEAN
      OBVIOUS
    <3>. HIDE DEF b
    <3>. QED
      BY <3>1, <3>2, ManagerIs DEF Setups
  <2>4. CASE EditEndpoint
    BY <2>4, ManagerIs DEF EditEndpoint, Setups
  <2>. QED
    BY <2>1, <2>2, <2>3, <2>4
<1>3. Quiet
  BY <1>1, <1>2, ManagerIs DEF Quiet, ManagerTyped
<1>. QED
  BY <1>1, <1>3, Elsewhere

\* The agent is deployed again, or ends.
LEMMA DeployKeeps ==
  ASSUME MillInv, Bootstrap \/ ChangeActivation \/ ActivationFails \/ AgentCrash
  PROVE  MillInv'
<1>1. UNCHANGED <<appVars, caller, events, disk, mill, part>> /\ link' = Dropped(agent.link)
  BY DEF Bootstrap, ChangeActivation, ActivationFails, AgentCrash, Deploys
<1>2. Leaves
  BY DEF Bootstrap, ChangeActivation, ActivationFails, AgentCrash, Deploys, Leaves
<1>3. /\ manager'.conn = manager.conn /\ manager'.seq = manager.seq
      /\ manager'.result = manager.result /\ manager' \in Managers /\ setup' \in Setups
  <2>1. CASE Bootstrap
    BY <2>1, ManagerIs DEF Bootstrap, Managers, Setups
  <2>2. CASE ChangeActivation
    <3>1. manager' = manager
      BY <2>2 DEF ChangeActivation
    <3>2. PICK on \in BOOLEAN : setup' = [setup EXCEPT !.exec = on, !.fresh = FALSE,
                                                       !.want = IF on THEN "on" ELSE "off"]
      BY <2>2 DEF ChangeActivation
    <3>. DEFINE w == IF on THEN "on" ELSE "off"
    <3>3. setup' = [setup EXCEPT !.exec = on, !.fresh = FALSE, !.want = w] /\ w \in {"on", "off"}
      BY <3>2
    <3>. HIDE DEF w
    <3>. QED
      BY <3>1, <3>3, ManagerIs DEF Setups
  <2>3. CASE ActivationFails
    BY <2>3, ManagerIs DEF ActivationFails, Setups
  <2>4. CASE AgentCrash
    BY <2>4, ManagerIs DEF AgentCrash
  <2>. QED
    BY <2>1, <2>2, <2>3, <2>4
<1>4. Quiet
  BY <1>1, <1>3, ManagerIs DEF Quiet, ManagerTyped
<1>. QED
  BY <1>1, <1>2, <1>4, AgentLeaves

\* The application ends and starts again: the commands in hand are forgotten, the
\* rows are not.
LEMMA AppRestartKeeps ==
  ASSUME MillInv, AppRestart
  PROVE  MillInv'
<1>1. /\ LedgerTyped /\ LinkTyped /\ LinksOK /\ CallersOK
      /\ UNCHANGED <<expected, rows, agent, disk, mill, part>>
  BY DEF MillInv, MillTyped, AppRestart, appVars
<1>2. /\ caller' \in [Callers -> Threads]
      /\ \A c \in Callers : caller'[c].pc \in {"free", "absent"} /\ caller'[c].seq = 0
  <2>1. Free \in Threads /\ Free.pc = "free" /\ Free.seq = 0
    BY Numbers DEF Free, Threads
  <2>2. Absent \in Threads /\ Absent.pc = "absent" /\ Absent.seq = 0
    BY <2>1 DEF Absent, Threads
  <2>3. caller' = [c \in Callers |-> IF caller[c] = Absent THEN Absent ELSE Free]
    BY DEF AppRestart
  <2>. QED
    BY <2>1, <2>2, <2>3
<1>3. LedgerTyped'
  BY <1>1, <1>2 DEF LedgerTyped
<1>4. CallersOK'
  BY <1>2 DEF CallersOK, InHand, Held
<1>5. /\ manager' \in Managers /\ manager'.conn = 0 /\ manager'.seq = 0 /\ manager'.result = NoResult
  <2>. DEFINE b == Routed
  <2>1. manager' = [NoManager EXCEPT !.up = b]
    BY DEF AppRestart
  <2>2. b \in BOOLEAN
    BY ManagerIs, Zenon DEF Routed
  <2>3. NoManager \in Managers /\ NoManager.conn = 0 /\ NoManager.seq = 0 /\ NoManager.result = NoResult
    BY Numbers DEF NoManager, Managers, NoResult, Results
  <2>. HIDE DEF b
  <2>. QED
    BY <2>1, <2>2, <2>3 DEF Managers
<1>6. events' \in [Seqs -> Heard] /\ \A s \in Seqs : events'[s].verdict = "none"
  <2>1. NoEvents \in Heard /\ NoEvents.verdict = "none"
    BY DEF NoEvents, Heard
  <2>. QED
    BY <2>1 DEF AppRestart
<1>7. ManagerTyped'
  <2>1. setup' \in Setups
    BY ManagerIs DEF AppRestart, Setups
  <2>. QED
    BY <1>5, <1>6, <2>1 DEF ManagerTyped
<1>8. /\ link' \in [Links -> Wires]
      /\ \A k \in Links : /\ link'[k].up = <<>> /\ link'[k].down = link[k].down
                          /\ link'[k].server = "done" /\ link'[k].cut
  <2>. DEFINE w(k) == [link[k] EXCEPT !.cut = TRUE, !.server = "done", !.up = <<>>]
  <2>1. link' = [k \in Links |-> w(k)]
    BY DEF AppRestart
  <2>2. ASSUME NEW k \in Links
        PROVE  /\ w(k) \in Wires /\ w(k).up = <<>> /\ w(k).down = link[k].down
               /\ w(k).server = "done" /\ w(k).cut
    <3>1. link[k] \in Wires /\ <<>> \in Seq(Hellos \cup Reports)
      BY <1>1, WireOf
    <3>. QED
      BY <3>1 DEF Wires
  <2>. HIDE DEF w
  <2>. QED
    BY <2>1, <2>2
<1>9. LinkTyped' /\ \A k \in Links : Shrinks(k) /\ Gains(k, <<>>)
  BY <1>8 DEF LinkTyped, Shrinks, Gains
<1>10. LinksOK'
  BY <1>1, <1>5, <1>8 DEF LinksOK
<1>11. Sent(manager'.seq) /\ Says(manager'.result.seq, manager'.result.event)
  BY <1>5 DEF Sent, Says, NoResult
<1>12. \A s \in Seqs : Says(s, events'[s].verdict)
  BY <1>6 DEF Says
<1>. QED
  BY <1>1, <1>2, <1>3, <1>4, <1>7, <1>9, <1>10, <1>11, <1>12, ManagerKeeps

\* The agent connects: a fresh connection with HELLO on it.
LEMMA ConnectKeeps ==
  ASSUME MillInv, Connect
  PROVE  MillInv'
<1>1. /\ LinkTyped /\ LinksOK /\ WiresOK /\ TakenOK /\ OnceOK /\ RunningOK /\ WatchOK /\ ClaimsOK
      /\ agent.pc = "away" /\ Grows
      /\ UNCHANGED <<expected, rows, setup, caller, manager, events, disk, mill, part>>
  BY StillGrows DEF MillInv, MillTyped, Connect, appVars
<1>. DEFINE w == [up |-> <<Hello>>, down |-> <<>>, server |-> "new", cut |-> FALSE]
<1>2. PICK k \in Links : /\ link[k].server = "done" /\ link' = [link EXCEPT ![k] = w]
                         /\ agent' = [agent EXCEPT !.pc = "loop", !.link = k]
  BY DEF Connect
<1>3. PICK h : h = Hello
  OBVIOUS
<1>4. /\ h \in Hellos /\ h.kind = "hello" /\ h.seq = disk.last
      /\ h.result.seq = disk.result.seq /\ h.result.event = disk.result.event
  BY <1>3, AgentIs DEF Hello, Hellos, Disks
<1>5. Sent(h.seq) /\ SaysFrame(h)
  BY <1>1, <1>4, AgentIs DEF TakenOK, SaysFrame
<1>6. /\ w \in Wires /\ w.up = <<h>> /\ w.down = <<>> /\ w.server = "new" /\ w.cut = FALSE
  <2>1. <<h>> \in Seq(Hellos \cup Reports) /\ <<>> \in Seq(Commands)
    BY <1>4
  <2>. QED
    BY <1>3, <2>1 DEF Wires
<1>. HIDE DEF w
<1>7. LinkTyped' /\ Others(k) /\ link'[k] = w
  BY <1>1, <1>2, <1>6, WireReplaced
<1>8. /\ agent' \in Agents /\ agent'.pc = "loop" /\ agent'.link = k /\ k # 0
      /\ agent'.cmd = agent.cmd /\ agent'.active = agent.active /\ agent.cmd.seq = 0
  BY <1>1, <1>2, AgentIs, Numbers DEF Agents, AtWork, Handling
<1>9. MillTyped'
  <2>1. LedgerTyped' /\ CallersOK'
    BY <1>1, CallersStay
  <2>2. ManagerTyped'
    BY <1>1, ManagerIs DEF ManagerTyped
  <2>3. AgentTyped'
    BY <1>1, <1>8, AgentIs, MillIs DEF AgentTyped
  <2>. QED
    BY <1>7, <2>1, <2>2, <2>3 DEF MillTyped
<1>10. LinksOK'
  <2>1. ASSUME NEW j \in Links
        PROVE  /\ link'[j].server = "done" => link'[j].cut /\ link'[j].up = <<>>
               /\ link'[j].server = "new" => link'[j].up # <<>>
               /\ \A i \in 1..Len(link'[j].up) :
                    link'[j].up[i].kind = "hello" <=> link'[j].server = "new" /\ i = 1
    <3>1. CASE j = k
      <4>1. /\ link'[j].up = <<h>> /\ link'[j].server = "new" /\ <<h>> # <<>>
            /\ \A i \in 1..Len(<<h>>) : i = 1 /\ <<h>>[i] = h
        BY <1>6, <1>7, <3>1
      <4>. QED
        BY <1>4, <4>1
    <3>2. CASE j # k
      BY <1>1, <1>7, <3>2 DEF LinksOK, Others
    <3>. QED
      BY <3>1, <3>2
  <2>2. manager'.conn # 0 => link'[manager'.conn].server = "live"
    BY <1>1, <1>2, <1>7, ManagerIs DEF LinksOK, Others
  <2>. QED
    BY <1>8, <2>1, <2>2 DEF LinksOK
<1>11. CallersOK'
  BY <1>1, CallersStay
<1>12. \A j \in Links : link'[j].down = <<>> \/ link'[j].down = link[j].down
  BY <1>6, <1>7 DEF Others
<1>13. WiresOK' /\ \A s : Transmitted(s)' => Transmitted(s)
  <2>1. \A j \in Links : \A i \in 1..Len(link'[j].down) :
          i \in 1..Len(link[j].down) /\ link'[j].down[i] = link[j].down[i]
    BY <1>12
  <2>2. ASSUME NEW j \in Links, NEW i \in 1..Len(link'[j].down)
        PROVE  Due(link[j].down[i])'
    <3>1. Due(link'[j].down[i])
      BY <1>1, <2>1 DEF WiresOK
    <3>. QED
      BY <1>1, <3>1, Growing
  <2>3. ASSUME NEW j \in Links, NEW i \in 1..Len(link'[j].up)
        PROVE  Sent(link[j].up[i].seq)' /\ SaysFrame(link[j].up[i])'
    <3>1. Sent(link'[j].up[i].seq) /\ SaysFrame(link'[j].up[i])
      <4>1. CASE j = k
        <5>1. link'[j].up[i] = h
          BY <1>6, <1>7, <4>1
        <5>. QED
          BY <1>5, <5>1
      <4>2. CASE j # k
        BY <1>1, <1>7, <4>2 DEF WiresOK, Others
      <4>. QED
        BY <4>1, <4>2
    <3>. QED
      BY <1>1, <3>1, Growing
  <2>4. ASSUME NEW j \in Links, NEW g \in Links, NEW i \in 1..Len(link'[j].down),
               NEW n \in 1..Len(link'[g].down), link'[j].down[i].seq = link'[g].down[n].seq
        PROVE  j = g /\ i = n
    <3>1. /\ i \in 1..Len(link[j].down) /\ n \in 1..Len(link[g].down)
          /\ link[j].down[i] = link'[j].down[i] /\ link[g].down[n] = link'[g].down[n]
      BY <2>1
    <3>2. link[j].down[i].seq = link[g].down[n].seq
      BY <2>4, <3>1
    <3>3. WiresOK
      BY <1>1
    <3>4. \A a \in 1..Len(link[j].down), b \in 1..Len(link[g].down) :
            link[j].down[a].seq = link[g].down[b].seq => j = g /\ a = b
      BY <3>3, OnePlace
    <3>. QED
      BY <3>1, <3>2, <3>4
  <2>5. WiresOK'
    BY <2>2, <2>3, <2>4 DEF WiresOK
  <2>6. \A s : Transmitted(s)' => Transmitted(s)
    BY <2>1 DEF Transmitted
  <2>. QED
    BY <2>5, <2>6
<1>14. TakenOK'
  <2>1. Sent(disk.last)' /\ Sent(manager.seq)'
    <3>1. Sent(disk'.last) /\ Sent(manager'.seq)
      BY <1>1 DEF TakenOK
    <3>. QED
      BY <1>1, <3>1, Growing
  <2>. QED
    BY <1>8, <2>1 DEF TakenOK, Handling
<1>15. OnceOK'
  BY <1>1, <1>8, <1>13 DEF OnceOK
<1>16. RunningOK'
  BY <1>1 DEF RunningOK
<1>17. WatchOK'
  <2>1. Watched(agent.active)' /\ Watched(disk.active)'
    <3>1. Watched(agent'.active) /\ Watched(disk'.active)
      BY <1>1, <1>8 DEF WatchOK
    <3>. QED
      BY <1>1, <3>1, StillWatched
  <2>. QED
    BY <1>1, <1>8, <2>1 DEF WatchOK
<1>18. ClaimsOK'
  <2>1. Says(disk.result.seq, disk.result.event)' /\ Says(manager.result.seq, manager.result.event)'
    <3>1. /\ Says(disk'.result.seq, disk'.result.event)
          /\ Says(manager'.result.seq, manager'.result.event)
      BY <1>1 DEF ClaimsOK
    <3>. QED
      BY <1>1, <3>1, Growing
  <2>2. \A s \in Seqs : Says(s, events[s].verdict)'
    <3>1. \A s \in Seqs : Says(s, events'[s].verdict)
      BY <1>1, ManagerIs
    <3>. QED
      BY <1>1, <3>1, Growing
  <2>3. \A s \in Seqs : rows'[s].status = "completed" => Ended(s)'
    BY <1>1 DEF ClaimsOK, Ended
  <2>. QED
    BY <2>1, <2>2, <2>3 DEF ClaimsOK
<1>. QED
  BY <1>9, <1>10, <1>11, <1>13, <1>14, <1>15, <1>16, <1>17, <1>18 DEF MillInv

-----------------------------------------------------------------------------
(* The theorems.                                                           *)

\* The program starts with the invariant.
LEMMA InitHolds ==
  ASSUME Init
  PROVE  MillInv
<1>1. /\ NoRow \in Rows /\ NoRow.status = "none" /\ NoEvents \in Heard /\ NoEvents.verdict = "none"
  BY DEF NoRow, Rows, NoEvents, Heard
<1>2. NoResult \in Results /\ NoResult.event = "none" /\ NoActive \in Actives /\ NoActive.seq = 0
  BY Numbers DEF NoResult, Results, NoActive, Actives
<1>3. /\ NoLink \in Wires /\ NoLink.up = <<>> /\ NoLink.down = <<>> /\ NoLink.server = "done" /\ NoLink.cut
  BY DEF NoLink, Wires
<1>4. /\ Free \in Threads /\ Free.pc = "free" /\ Free.seq = 0
      /\ Absent \in Threads /\ Absent.pc = "absent" /\ Absent.seq = 0
  <2>1. Free \in Threads /\ Free.pc = "free" /\ Free.seq = 0
    BY Numbers DEF Free, Threads
  <2>. QED
    BY <2>1 DEF Absent, Threads
<1>5. /\ caller \in [Callers -> Threads]
      /\ \A c \in Callers : caller[c].pc \in {"free", "absent"} /\ caller[c].seq = 0
  <2>1. CASE caller = [c \in Callers |-> Free]
    BY <1>4, <2>1
  <2>2. CASE caller = [c \in Callers |-> IF c = (CHOOSE d \in Callers : TRUE) THEN Free ELSE Absent]
    BY <1>4, <2>2
  <2>. QED
    BY <2>1, <2>2 DEF Init
<1>6. /\ expected = 0 /\ rows = [s \in Seqs |-> NoRow] /\ events = [s \in Seqs |-> NoEvents]
      /\ link = [k \in Links |-> NoLink] /\ disk = [last |-> 0, result |-> NoResult, active |-> NoActive]
      /\ mill = [running |-> 0, file |-> <<0, "none">>] /\ part = [s \in Seqs |-> "none"]
  BY DEF Init
<1>7. LedgerTyped
  BY <1>1, <1>5, <1>6, Numbers DEF LedgerTyped, Seqs
<1>8. setup \in Setups /\ manager \in Managers /\ manager.conn = 0 /\ manager.seq = 0
      /\ manager.result = NoResult
  <2>1. setup \in Setups
    BY MillAssumption DEF Init, Setups
  <2>2. NoManager \in Managers /\ NoManager.conn = 0 /\ NoManager.seq = 0 /\ NoManager.result = NoResult
    BY <1>2, Numbers DEF NoManager, Managers
  <2>3. manager = [NoManager EXCEPT !.up = Commissioned]
    BY DEF Init
  <2>. QED
    BY <2>1, <2>2, <2>3, MillAssumption DEF Managers
<1>9. /\ agent \in Agents /\ agent.pc \in {"down", "away"} /\ agent.active = NoActive
      /\ agent.cmd = NoCommand /\ NoCommand.seq = 0
  <2>1. /\ NoAgent \in Agents /\ NoAgent.pc = "down" /\ NoAgent.active = NoActive
        /\ NoAgent.cmd = NoCommand /\ NoCommand.seq = 0
    BY <1>2 DEF NoAgent, Agents, NoCommand
  <2>2. agent = NoAgent \/ agent = [NoAgent EXCEPT !.pc = "away", !.exec = TRUE]
    BY DEF Init
  <2>. QED
    BY <2>1, <2>2 DEF Agents
<1>10. /\ disk \in Disks /\ mill \in [running : 0..Manual, file : Files] /\ mill.running = 0
       /\ \A s \in Seqs : mill.file # <<s, "completed">>
  <2>1. <<0, "none">> \in Files
    BY Numbers DEF Files
  <2>. QED
    BY <1>2, <1>6, <2>1, Numbers DEF Disks
<1>11. MillTyped
  <2>1. ManagerTyped
    BY <1>1, <1>6, <1>8 DEF ManagerTyped
  <2>2. LinkTyped
    BY <1>3, <1>6 DEF LinkTyped
  <2>3. AgentTyped
    BY <1>6, <1>9, <1>10 DEF AgentTyped
  <2>. QED
    BY <1>7, <2>1, <2>2, <2>3 DEF MillTyped
<1>12. \A k \in Links : link[k].up = <<>> /\ link[k].down = <<>> /\ link[k].server = "done" /\ link[k].cut
  BY <1>3, <1>6
<1>13. LinksOK
  BY <1>8, <1>9, <1>12 DEF LinksOK, AtWork
<1>14. CallersOK
  BY <1>5 DEF CallersOK, InHand, Held
<1>15. WiresOK
  BY <1>12 DEF WiresOK
<1>16. TakenOK
  BY <1>6, <1>8, <1>9 DEF TakenOK, Sent, Handling
<1>17. OnceOK
  BY <1>5, <1>6, <1>12 DEF OnceOK, Transmitted
<1>18. RunningOK
  BY <1>6, <1>10, Numbers DEF RunningOK
<1>19. WatchOK
  BY <1>2, <1>6, <1>9 DEF WatchOK, Watched
<1>20. ClaimsOK
  BY <1>1, <1>2, <1>6, <1>8 DEF ClaimsOK, Says, NoRow
<1>. QED
  BY <1>11, <1>13, <1>14, <1>15, <1>16, <1>17, <1>18, <1>19, <1>20 DEF MillInv
-----------------------------------------------------------------------------
(* The invariant.                                                          *)

\* A step of a caller keeps the invariant.
LEMMA CallerStepKeeps ==
  ASSUME MillInv, NEW c \in Callers, CallerStep(c) \/ Release(c)
  PROVE  MillInv'
<1>1. CASE Reserve(c)
  BY <1>1, ReserveKeeps
<1>2. CASE Transmit(c)
  BY <1>2, TransmitKeeps
<1>3. CASE \/ Mark(c) \/ MarkSent(c) \/ Observe(c) \/ Conclude(c) \/ Release(c) \/ TimesOut(c)
  <2>1. RowStep
    BY <1>3, ThreadSteps
  <2>. QED
    BY <2>1, RestatesKeeps DEF RowStep
<1>. QED
  BY <1>1, <1>2, <1>3 DEF CallerStep

\* A step of the agent keeps the invariant.
LEMMA AgentStepKeeps ==
  ASSUME MillInv, AgentStep \/ Watchdog
  PROVE  MillInv'
<1>1. CASE Connect
  BY <1>1, ConnectKeeps
<1>2. CASE Telemetry
  BY <1>2, SetupKeeps
<1>3. CASE SeesIdle
  BY <1>3, SeesIdleKeeps
<1>4. CASE TellsResult
  BY <1>4, TellsResultKeeps
<1>5. CASE TakeCommand
  BY <1>5, TakeCommandKeeps
<1>6. CASE Acknowledge
  BY <1>6, AcknowledgeKeeps
<1>7. CASE StartProgram
  BY <1>7, StartProgramKeeps
<1>8. CASE KeepActive
  BY <1>8, KeepActiveKeeps
<1>9. CASE TellsRunning
  BY <1>9, TellsRunningKeeps
<1>10. CASE StartFails
  BY <1>10, StartFailsKeeps
<1>11. CASE Disconnected \/ Watchdog
  BY <1>11, GoneOrBackKeeps
<1>. QED
  BY <1>1, <1>2, <1>3, <1>4, <1>5, <1>6, <1>7, <1>8, <1>9, <1>10, <1>11 DEF AgentStep

\* The invariant speaks of the state alone.
LEMMA StutterKeeps ==
  ASSUME MillInv, UNCHANGED vars
  PROVE  MillInv'
<1>1. /\ UNCHANGED <<appVars, setup, caller, manager, events, mill, part>>
      /\ UNCHANGED <<link, agent, disk>>
  BY DEF vars
<1>. QED
  BY <1>1, RestQuiet, Elsewhere

\* Every step keeps the invariant.
LEMMA MillStep ==
  ASSUME MillInv, [Next]_vars
  PROVE  MillInv'
<1>1. ASSUME NEW c \in Callers, NEW op \in Ops, Check(c, op)
      PROVE  MillInv'
  BY <1>1, CheckKeeps
<1>2. ASSUME NEW c \in Callers, CallerStep(c) \/ Release(c)
      PROVE  MillInv'
  BY <1>2, CallerStepKeeps
<1>3. CASE Poll \/ \E s \in Seqs : Reconcile(s)
  <2>1. RowStep
    BY <1>3, OthersRestate
  <2>. QED
    BY <2>1, RestatesKeeps DEF RowStep
<1>4. ASSUME NEW k \in Links, Serve(k) \/ WorkerEnds(k) \/ Cut(k)
      PROVE  MillInv'
  BY <1>4, ServeKeeps, BrokenKeeps
<1>5. CASE AgentStep \/ Watchdog
  BY <1>5, AgentStepKeeps
<1>6. CASE Bootstrap \/ ChangeActivation \/ ActivationFails \/ AgentCrash
  BY <1>6, DeployKeeps
<1>7. CASE Bootstrapped \/ Activated \/ EditEndpoint
  BY <1>7, SetupKeeps
<1>8. ASSUME NEW how \in {"finished", "stopped"}, EndProgram(how)
      PROVE  MillInv'
  BY <1>8, EndProgramKeeps
<1>9. CASE OperatorRuns
  BY <1>9, OperatorRunsKeeps
<1>10. CASE AppRestart
  BY <1>10, AppRestartKeeps
<1>11. CASE UNCHANGED vars
  BY <1>11, StutterKeeps
<1>. QED
  BY <1>1, <1>2, <1>3, <1>4, <1>5, <1>6, <1>7, <1>8, <1>9, <1>10, <1>11 DEF Next

\* Through every crash, lost or late frame and repeated bootstrap: a command is
\* sent, taken and begun at most once, only after its row is marked, and
\* "completed" is only said of a program that ended.
THEOREM MillIsInvariant == Spec => []MillInv
<1>1. Init => MillInv
  BY InitHolds
<1>2. MillInv /\ [Next]_vars => MillInv'
  BY MillStep
<1>. QED
  BY <1>1, <1>2, PTL DEF Spec

\* What was sent has a row that is not new.
LEMMA SentIsReserved ==
  ASSUME MillInv, NEW s \in 0..MaxSequence, Sent(s)
  PROVE  s \in 0..expected
<1>1. CASE s = 0
  BY <1>1, LedgerIs
<1>2. CASE s # 0
  <2>1. s \in Seqs /\ rows[s].status # "none"
    BY <1>2 DEF Sent, Marked
  <2>2. s <= expected
    BY <2>1, LedgerIs
  <2>. QED
    BY <2>2, LedgerIs, Numbers
<1>. QED
  BY <1>1, <1>2

\* The parts of MillTypeOK.
LEMMA InvIsTyped ==
  ASSUME MillInv
  PROVE  MillTypeOK
<1>1. /\ LinksOK /\ CallersOK /\ WiresOK /\ TakenOK /\ LinkTyped
  BY DEF MillInv, MillTyped
<1>2. /\ expected \in 0..MaxSequence /\ expected \in Nat
      /\ \A s \in Seqs :
           IF s <= expected THEN rows[s] \in [status : Statuses, op : Ops] ELSE rows[s] = NoRow
  <2>1. ASSUME NEW s \in Seqs, s <= expected
        PROVE  rows[s] \in [status : Statuses, op : Ops]
    <3>1. rows[s] \in Rows /\ rows[s].status # "none" /\ rows[s].op \in Ops
      BY <2>1, LedgerIs
    <3>. QED
      BY <3>1 DEF Rows
  <2>. QED
    BY <2>1, LedgerIs
<1>3. \A c \in Callers : caller[c].seq \in 0..expected
  <2>1. ASSUME NEW c \in Callers
        PROVE  caller[c].seq \in 0..expected
    <3>1. CASE InHand(c)
      BY <1>1, <1>2, <3>1 DEF CallersOK
    <3>2. CASE ~InHand(c)
      BY <1>1, <1>2, <3>2 DEF CallersOK
    <3>. QED
      BY <3>1, <3>2
  <2>. QED
    BY <2>1
<1>4. /\ manager.seq \in 0..expected /\ manager.result \in Results
      /\ manager.conn # 0 => manager.conn \in Links /\ link[manager.conn].server = "live"
  <2>1. manager.seq \in 0..MaxSequence /\ manager.conn \in Links \cup {0} /\ manager.result \in Results
    BY ManagerIs DEF Managers
  <2>2. manager.seq \in 0..expected
    BY <1>1, <2>1, SentIsReserved DEF TakenOK
  <2>. QED
    BY <1>1, <2>1, <2>2 DEF LinksOK
<1>5. /\ disk.last \in 0..expected /\ disk.result \in Results /\ disk.active \in Actives
      /\ agent.active \in Actives
  <2>1. /\ disk.last \in 0..MaxSequence /\ disk.result \in Results /\ disk.active \in Actives
        /\ agent.active \in Actives
    BY AgentIs DEF Disks
  <2>2. disk.last \in 0..expected
    BY <1>1, <2>1, SentIsReserved DEF TakenOK
  <2>. QED
    BY <2>1, <2>2
<1>6. agent.cmd.seq \in 0..disk.last
  BY <1>1, <1>2, <1>5 DEF TakenOK
<1>7. \A k \in Links :
        /\ \A i \in 1..Len(link[k].up) : link[k].up[i] \in Frames
        /\ \A i \in 1..Len(link[k].down) : link[k].down[i].seq \in 1..expected
  <2>1. ASSUME NEW k \in Links, NEW i \in 1..Len(link[k].up)
        PROVE  link[k].up[i] \in Frames
    <3>1. link[k].up[i] \in Hellos \cup Reports
      BY <1>1, <2>1, WireOf
    <3>. QED
      BY <3>1 DEF Hellos, Reports, Frames
  <2>2. ASSUME NEW k \in Links, NEW i \in 1..Len(link[k].down)
        PROVE  link[k].down[i].seq \in 1..expected
    <3>1. Marked(link[k].down[i].seq)
      BY <1>1 DEF WiresOK, Due
    <3>2. PICK s \in Seqs : s = link[k].down[i].seq /\ rows[s].status # "none"
      BY <3>1 DEF Marked
    <3>3. s <= expected
      BY <3>2, LedgerIs
    <3>. QED
      BY <1>2, <3>2, <3>3 DEF Seqs
  <2>. QED
    BY <2>1, <2>2
<1>8. mill.running \in 0..Manual
  BY MillIs
<1>9. part \in [Seqs -> {"none", "running", "finished", "stopped", "twice"}]
  <2>1. part \in [Seqs -> {"none", "running", "finished", "stopped"}]
    BY MillIs
  <2>. QED
    BY <2>1
<1>. QED
  BY <1>2, <1>3, <1>4, <1>5, <1>6, <1>7, <1>8, <1>9 DEF MillTypeOK

\* Every variable keeps its type, no sequence is known to the agent or the
\* manager before the ledger has it, and the manager's connection is one whose
\* worker is still there.
THEOREM MillIsTyped == Spec => []MillTypeOK
<1>1. MillInv => MillTypeOK
  BY InvIsTyped
<1>. QED
  BY <1>1, MillIsInvariant, PTL
-----------------------------------------------------------------------------
(* The refinement of OneProgramPerCommand.                                 *)

\* What the ledger says of a command, now and after the step.
LEMMA VerdictOf ==
  /\ \A s \in Seqs :
       verdict[s] = IF rows[s].status \in {"none", "created"} THEN "absent"
                    ELSE IF rows[s].status = "completed" /\ rows[s].op = "machine" THEN "finished"
                    ELSE IF rows[s].status = "completed" /\ rows[s].op = "load" THEN "ended"
                    ELSE "open"
  /\ \A s \in Seqs :
       verdict'[s] = IF rows'[s].status \in {"none", "created"} THEN "absent"
                     ELSE IF rows'[s].status = "completed" /\ rows'[s].op = "machine" THEN "finished"
                     ELSE IF rows'[s].status = "completed" /\ rows'[s].op = "load" THEN "ended"
                     ELSE "open"
  /\ verdict = [s \in Seqs |-> verdict[s]] /\ verdict' = [s \in Seqs |-> verdict'[s]]
BY DEF verdict

\* The abstract view changes only where a row or a program does.
LEMMA SameView ==
  ASSUME \A s \in Seqs : verdict'[s] = verdict[s], part' = part
  PROVE  UNCHANGED Abstract!svars
<1>1. verdict' = verdict
  BY VerdictOf
<1>. QED
  BY <1>1 DEF Abstract!svars

\* A step that leaves the rows and the programs alone is a stutter.
LEMMA StillView ==
  ASSUME UNCHANGED <<rows, part>>
  PROVE  UNCHANGED Abstract!svars
<1>1. \A s \in Seqs : verdict'[s] = verdict[s]
  BY VerdictOf
<1>. QED
  BY <1>1, SameView

\* A row that is restated records its command, reports what became of its
\* program or loses sight of it.
LEMMA RowStepView ==
  ASSUME MillInv, RowStep
  PROVE  [Abstract!SNext]_(Abstract!svars)
<1>1. PICK x \in Seqs, to \in Statuses \ {"created"} : Restates(x, to)
  BY DEF RowStep
<1>2. /\ \A s \in Seqs : rows'[s].op = rows[s].op
      /\ rows'[x].status = to /\ \A s \in Seqs \ {x} : rows'[s] = rows[s]
      /\ rows[x].status # "none" /\ part' = part /\ to # "none" /\ to # "created"
  <2>1. /\ \A s \in Seqs : rows'[s].op = rows[s].op
        /\ rows'[x].status = to /\ \A s \in Seqs \ {x} : rows'[s] = rows[s]
    BY <1>1, RestatesRows
  <2>2. rows[x].status # "none" /\ part' = part
    BY <1>1 DEF Restates, LedgerOnly
  <2>3. to # "none" /\ to # "created"
    BY DEF Statuses, Undecided, Verdicts
  <2>. QED
    BY <2>1, <2>2, <2>3
<1>3. /\ to = "completed" => Ended(x)
      /\ rows[x].status = "created" => to # "completed"
  BY <1>1 DEF Restates
<1>4. \A s \in Seqs \ {x} : verdict'[s] = verdict[s]
  BY <1>2, VerdictOf
<1>5. verdict' = [verdict EXCEPT ![x] = verdict'[x]]
  BY <1>4, VerdictOf
<1>6. CASE rows[x].status = "created"
  <2>1. verdict[x] = "absent" /\ verdict'[x] = "open"
    BY <1>2, <1>3, <1>6, VerdictOf
  <2>2. Abstract!Record(x)
    BY <1>2, <1>5, <2>1 DEF Abstract!Record
  <2>. QED
    BY <2>2 DEF Abstract!SNext
<1>7. CASE rows[x].status # "created" /\ to = "completed" /\ rows[x].op = "machine"
  <2>1. verdict'[x] = "finished" /\ part[x] = "finished"
    BY <1>2, <1>3, <1>7, VerdictOf DEF Ended
  <2>2. Abstract!Report(x)
    BY <1>2, <1>5, <2>1 DEF Abstract!Report
  <2>. QED
    BY <2>2 DEF Abstract!SNext
<1>8. CASE rows[x].status # "created" /\ to = "completed" /\ rows[x].op = "load"
  <2>1. verdict'[x] = "ended" /\ part[x] \in {"finished", "stopped"}
    BY <1>2, <1>3, <1>8, VerdictOf DEF Ended
  <2>2. Abstract!Report(x)
    BY <1>2, <1>5, <2>1 DEF Abstract!Report
  <2>. QED
    BY <2>2 DEF Abstract!SNext
<1>9. CASE rows[x].status # "created" /\ ~(to = "completed" /\ rows[x].op \in {"machine", "load"})
  <2>1. verdict'[x] = "open" /\ verdict[x] \in {"open", "finished", "ended"}
    BY <1>2, <1>9, VerdictOf
  <2>2. CASE verdict[x] = "open"
    <3>1. \A s \in Seqs : verdict'[s] = verdict[s]
      BY <1>4, <2>1, <2>2
    <3>. QED
      BY <1>2, <3>1, SameView
  <2>3. CASE verdict[x] \in {"finished", "ended"}
    <3>1. Abstract!Forget(x)
      BY <1>2, <1>5, <2>1, <2>3 DEF Abstract!Forget
    <3>. QED
      BY <3>1 DEF Abstract!SNext
  <2>. QED
    BY <2>1, <2>2, <2>3
<1>. QED
  BY <1>6, <1>7, <1>8, <1>9

\* A reservation says nothing yet.
LEMMA ReserveView ==
  ASSUME MillInv, NEW c \in Callers, Reserve(c)
  PROVE  [Abstract!SNext]_(Abstract!svars)
<1>1. part' = part /\ rows \in [Seqs -> Rows]
  BY LedgerIs DEF Reserve
<1>2. CASE UNCHANGED appVars
  BY <1>1, <1>2, StillView DEF appVars
<1>3. CASE /\ expected < MaxSequence
           /\ rows' = [rows EXCEPT ![expected + 1] = [status |-> "created", op |-> caller[c].op]]
  <2>1. PICK n \in Seqs : n = expected + 1 /\ rows[n] = NoRow
    <3>1. expected + 1 \in Seqs /\ ~(expected + 1 <= expected)
      BY <1>3, LedgerIs, Numbers DEF Seqs
    <3>. QED
      BY <3>1, LedgerIs
  <2>2. /\ rows'[n].status = "created" /\ rows[n].status = "none"
        /\ \A s \in Seqs \ {n} : rows'[s] = rows[s]
    BY <1>1, <1>3, <2>1 DEF NoRow
  <2>3. \A s \in Seqs : verdict'[s] = verdict[s]
    <3>1. verdict'[n] = verdict[n]
      BY <2>2, VerdictOf
    <3>2. \A s \in Seqs \ {n} : verdict'[s] = verdict[s]
      BY <2>2, VerdictOf
    <3>. QED
      BY <3>1, <3>2
  <2>. QED
    BY <1>1, <2>3, SameView
<1>. QED
  BY <1>2, <1>3 DEF Reserve, SpaceLeft

\* The program that StartProgram begins is begun for the first time, beside no
\* other, of a command on record.
LEMMA StartView ==
  ASSUME MillInv, StartProgram
  PROVE  [Abstract!SNext]_(Abstract!svars)
<1>1. CASE UNCHANGED <<appVars, part>>
  BY <1>1, StillView DEF appVars
<1>2. ASSUME NEW s, s = agent.cmd.seq, Begins(s)
      PROVE  Abstract!SNext
  <2>1. /\ s \in Seqs /\ part[s] = "none" /\ mill.running = 0 /\ UNCHANGED rows
        /\ part' = [part EXCEPT ![s] = "running"]
    BY <1>2 DEF Begins, appVars
  <2>2. \A t \in Seqs : part[t] # "running"
    BY <2>1, Numbers DEF MillInv, RunningOK
  <2>3. Marked(s)
    BY <1>2, <2>1, AgentIs DEF Begins, Handling
  <2>4. rows[s].status = "completed" => Ended(s)
    BY <2>1 DEF MillInv, ClaimsOK
  <2>5. verdict[s] = "open"
    BY <2>1, <2>3, <2>4, VerdictOf DEF Marked, Ended
  <2>6. UNCHANGED verdict
    <3>1. \A t \in Seqs : verdict'[t] = verdict[t]
      BY <2>1, VerdictOf
    <3>. QED
      BY <3>1, VerdictOf
  <2>7. Abstract!Begin(s)
    BY <2>1, <2>2, <2>5, <2>6 DEF Abstract!Begin
  <2>. QED
    BY <2>1, <2>7 DEF Abstract!SNext
<1>. QED
  BY <1>1, <1>2, StartCases

\* The program that ends ran; an operator's is nobody's.
LEMMA EndView ==
  ASSUME MillInv, NEW how \in {"finished", "stopped"}, EndProgram(how)
  PROVE  [Abstract!SNext]_(Abstract!svars)
<1>1. /\ part \in [Seqs -> {"none", "running", "finished", "stopped"}]
      /\ part' \in [Seqs -> {"none", "running", "finished", "stopped"}]
      /\ \A s \in Seqs : part'[s] = IF s = mill.running THEN how ELSE part[s]
      /\ \A s \in Seqs : part[s] = "running" <=> mill.running = s
      /\ UNCHANGED rows
  BY EndProgramIs
<1>2. CASE mill.running \in Seqs
  <2>1. PICK s \in Seqs : s = mill.running
    BY <1>2
  <2>2. part[s] = "running" /\ part' = [part EXCEPT ![s] = how]
    BY <1>1, <2>1
  <2>3. UNCHANGED verdict
    <3>1. \A t \in Seqs : verdict'[t] = verdict[t]
      BY <1>1, VerdictOf
    <3>. QED
      BY <3>1, VerdictOf
  <2>4. Abstract!End(s)
    BY <2>2, <2>3 DEF Abstract!End
  <2>. QED
    BY <2>4 DEF Abstract!SNext
<1>3. CASE mill.running \notin Seqs
  <2>1. part' = part
    BY <1>1, <1>3
  <2>. QED
    BY <1>1, <2>1, StillView
<1>. QED
  BY <1>2, <1>3

\* The other steps change neither a row nor a program.
LEMMA OtherSteps ==
  /\ (\E c \in Callers, op \in Ops : Check(c, op)) => UNCHANGED <<rows, part>>
  /\ (\E k \in Links : Serve(k) \/ WorkerEnds(k) \/ Cut(k)) => UNCHANGED <<rows, part>>
  /\ (AgentStep \/ Watchdog) => StartProgram \/ UNCHANGED <<rows, part>>
  /\ \/ Bootstrap \/ Bootstrapped \/ ChangeActivation \/ Activated \/ ActivationFails
     \/ EditEndpoint \/ OperatorRuns \/ AgentCrash \/ AppRestart \/ UNCHANGED vars
     => UNCHANGED <<rows, part>>
<1>1. (\E c \in Callers, op \in Ops : Check(c, op)) => UNCHANGED <<rows, part>>
  BY DEF Check, appVars
<1>2. (\E k \in Links : Serve(k) \/ WorkerEnds(k) \/ Cut(k)) => UNCHANGED <<rows, part>>
  BY DEF Serve, WorkerEnds, Cut, appVars
<1>3. (AgentStep \/ Watchdog) => StartProgram \/ UNCHANGED <<rows, part>>
  BY DEF AgentStep, Connect, Telemetry, SeesIdle, TellsResult, TakeCommand, Acknowledge, KeepActive,
         TellsRunning, StartFails, Disconnected, Watchdog, appVars
<1>4. \/ Bootstrap \/ Bootstrapped \/ ChangeActivation \/ Activated \/ ActivationFails
      \/ EditEndpoint \/ OperatorRuns \/ AgentCrash \/ AppRestart \/ UNCHANGED vars
      => UNCHANGED <<rows, part>>
  BY DEF Bootstrap, Bootstrapped, ChangeActivation, Activated, ActivationFails, EditEndpoint,
         OperatorRuns, AgentCrash, AppRestart, appVars, vars
<1>. QED
  BY <1>1, <1>2, <1>3, <1>4

\* Every step of the protocol is a step of the promise, or none.
LEMMA StepView ==
  ASSUME MillInv, [Next]_vars
  PROVE  [Abstract!SNext]_(Abstract!svars)
<1>1. CASE UNCHANGED <<rows, part>>
  BY <1>1, StillView
<1>2. CASE RowStep
  BY <1>2, RowStepView
<1>3. ASSUME NEW c \in Callers, CallerStep(c) \/ Release(c)
      PROVE  [Abstract!SNext]_(Abstract!svars)
  <2>1. CASE Reserve(c)
    BY <2>1, ReserveView
  <2>2. CASE Transmit(c)
    BY <1>1, <1>2, <2>2, TransmitKeeps
  <2>3. CASE \/ Mark(c) \/ MarkSent(c) \/ Observe(c) \/ Conclude(c) \/ Release(c) \/ TimesOut(c)
    BY <1>2, <2>3, ThreadSteps
  <2>. QED
    BY <1>3, <2>1, <2>2, <2>3 DEF CallerStep
<1>4. CASE Poll \/ \E s \in Seqs : Reconcile(s)
  BY <1>2, <1>4, OthersRestate
<1>5. CASE StartProgram
  BY <1>5, StartView
<1>6. ASSUME NEW how \in {"finished", "stopped"}, EndProgram(how)
      PROVE  [Abstract!SNext]_(Abstract!svars)
  BY <1>6, EndView
<1>7. \/ UNCHANGED <<rows, part>>
      \/ \E c \in Callers : CallerStep(c) \/ Release(c)
      \/ Poll \/ \E s \in Seqs : Reconcile(s)
      \/ StartProgram
      \/ \E how \in {"finished", "stopped"} : EndProgram(how)
  BY OtherSteps DEF Next
<1>. QED
  BY <1>1, <1>3, <1>4, <1>5, <1>6, <1>7

\* Nothing is recorded and no program was begun.
LEMMA InitView ==
  ASSUME Init
  PROVE  Abstract!SInit
<1>1. rows = [s \in Seqs |-> NoRow] /\ part = [s \in Seqs |-> "none"]
  BY DEF Init
<1>2. \A s \in Seqs : verdict[s] = "absent"
  BY <1>1, VerdictOf DEF NoRow
<1>3. verdict = [s \in Seqs |-> "absent"]
  BY <1>2, VerdictOf
<1>. QED
  BY <1>1, <1>3 DEF Abstract!SInit

\* The dispatch protocol implements the promise of OneProgramPerCommand: through
\* crashes of both processes, lost and late frames, a program is begun at most
\* once, after its row is marked, and "completed" is said of none that still runs.
THEOREM MillImplementsOneProgram == Spec => ImplementsOneProgramPerCommand
<1>1. Init => Abstract!SInit
  BY InitView
<1>2. MillInv /\ [Next]_vars => [Abstract!SNext]_(Abstract!svars)
  BY StepView
<1>. QED
  BY <1>1, <1>2, MillIsInvariant, PTL DEF Spec, ImplementsOneProgramPerCommand, Abstract!SSpec
=============================================================================
