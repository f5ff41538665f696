------------------------------ MODULE Telemetry ------------------------------
(***************************************************************************)
(* Live telemetry of a CB-series robot (robot_rtde.py, and the cache of    *)
(* service.py 3254-3364, 3597-3612): one persistent stream that a reader   *)
(* thread drains, the circuit that delays reconnection, and the cache that *)
(* pages are answered from.                                                *)
(*                                                                         *)
(* Callers of read_robot_snapshot hold _SNAPSHOT_LOCK for the whole read.  *)
(* Every delay (the wait for a sample, the stall window, the cooldown, the *)
(* age of the cache) may end at any time; a stream that works never ages.  *)
(***************************************************************************)
EXTENDS Naturals, FiniteSets

CONSTANTS
  None,        \* no reader, caller or packet
  Refreshers,  \* bound: refresh threads at one time
  Readers,     \* bound: reader threads at one time, superseded ones included
  MaxEvents    \* bound: failures, resets and relaunches

ASSUME TelemetryConstants ==
  /\ None \notin Refreshers \cup Readers
  /\ MaxEvents \in Nat

VARIABLES
  network,     \* whether packets arrive
  readers,     \* reader threads: pc, and their socket
  stream,      \* reader; packet: whose latest packet; age: of it or of the start
  cooling,     \* _TELEMETRY_RETRY_AFTER lies in the future
  suspended,   \* _CONNECTIONS_SUSPENDED
  lock,        \* the caller that holds _SNAPSHOT_LOCK
  refreshers,  \* what each refresh thread is doing
  cache,       \* the entry of _ROBOT_TELEMETRY_CACHE: data, failed, fresh
  refreshing,  \* whether the key is in _ROBOT_TELEMETRY_REFRESHING
  clearing,    \* an operator's retry that has yet to clear the cache
  events

linkVars  == <<network, readers, stream>>
readVars  == <<cooling, suspended, lock, refreshers>>
cacheVars == <<cache, refreshing, clearing>>
vars == <<linkVars, readVars, cacheVars, events>>

Happens == events < MaxEvents /\ events' = events + 1

Asleep   == [pc |-> "idle", socket |-> "none"]
NoStream == [reader |-> None, packet |-> None, age |-> "fresh"]
NoCache  == [data |-> FALSE, failed |-> FALSE, fresh |-> FALSE]

At(f, pc) == refreshers[f] = pc
Become(f, pc) == refreshers' = [refreshers EXCEPT ![f] = pc]

\* Starting a reader, to wait for its first packet ("connect") or to fail all the same ("replace").
Opening(f) == refreshers[f] \in {"connect", "replace"}

\* _LIVE_CONNECTION_LOCK is held from the end of the old connection to the start of the new one.
Connecting == \E f \in Refreshers : Opening(f)

\* Not older than a second, or than the configured timeout.
PacketFresh == stream.packet # None /\ stream.age = "fresh"

Delivers == stream.reader # None /\ network /\ readers[stream.reader].socket = "open"

-----------------------------------------------------------------------------
(* The reader of the stream.                                               *)

Receives(r) ==
  /\ readers[r] = [pc |-> "reading", socket |-> "open"] /\ network
  /\ readers' = [readers EXCEPT ![r].pc = "storing"]
  /\ UNCHANGED <<network, stream, readVars, cacheVars, events>>

\* Faulty variant: any reader stores what it received.
Owns_Always(r) == TRUE

\* The generation and the connection a reader was started with are the present ones.
Owns(r) == stream.reader = r

Stores(r) ==
  /\ readers[r].pc = "storing" /\ ~Connecting
  /\ IF Owns(r)
     THEN /\ stream' = [stream EXCEPT !.packet = r, !.age = "fresh"]
          /\ readers' = [readers EXCEPT ![r].pc = "reading"]
     ELSE readers' = [readers EXCEPT ![r].pc = "ending"] /\ UNCHANGED stream
  /\ UNCHANGED <<network, readVars, cacheVars, events>>

\* The socket was closed by its successor, or nothing came for the stall window.
Breaks(r) ==
  /\ readers[r].pc = "reading"
  /\ \/ readers[r].socket = "closed"
     \/ stream.reader = r /\ stream.age = "stalled" /\ ~Delivers
  /\ readers' = [readers EXCEPT ![r].pc = "ending"]
  /\ UNCHANGED <<network, stream, readVars, cacheVars, events>>

\* Faulty variant: a reader that ends stays the reader of the stream.
Ended_Forgotten(r) == stream

\* The latest packet is kept.
Ended(r) == IF Owns(r) THEN [stream EXCEPT !.reader = None] ELSE stream

Ends(r) ==
  /\ readers[r].pc = "ending" /\ ~Connecting
  /\ readers' = [readers EXCEPT ![r] = Asleep]
  /\ stream' = Ended(r)
  /\ UNCHANGED <<network, readVars, cacheVars, events>>

\* The age of a packet, or of a stream that has none, passes a limit.
StreamAges ==
  /\ stream # NoStream /\ ~Delivers
  /\ \/ stream.age = "fresh" /\ stream' = [stream EXCEPT !.age = "stale"]
     \/ stream.age = "stale" /\ stream' = [stream EXCEPT !.age = "stalled"]
  /\ UNCHANGED <<network, readers, readVars, cacheVars, events>>

-----------------------------------------------------------------------------
(* read_robot_snapshot.                                                    *)

\* Faulty variant: the old socket is left to its reader.
Disconnected_Forgotten == readers

\* _disconnect_legacy_realtime shuts the old socket down.
Disconnected ==
  [r \in Readers |-> IF Owns(r) THEN [readers[r] EXCEPT !.socket = "closed"] ELSE readers[r]]

Succeeds(f) == Become(f, "ok") /\ lock' = None /\ cooling' = FALSE

Fails(f) == Become(f, "failed") /\ lock' = None /\ cooling' = TRUE

\* Faulty variant: a suspended backend reconnects.
Refused_NotSuspended == cooling /\ ~(stream.reader # None /\ PacketFresh)

\* Communications are suspended, or cooling down and the stream has not recovered by itself.
Refused == suspended \/ (cooling /\ ~(stream.reader # None /\ PacketFresh))

Begin(f) ==
  /\ At(f, "begin") /\ lock = None
  /\ IF Refused
     THEN Become(f, "failed") /\ UNCHANGED <<lock, cooling>>
     ELSE Become(f, "look") /\ lock' = f /\ cooling' = FALSE
  /\ UNCHANGED <<linkVars, suspended, cacheVars, events>>

\* A stale sample alone does not replace the reader; only its end or a long silence does.
MustReplace == stream.reader = None \/ stream.age = "stalled"

\* A reader that ended has taken the connection's host with it and left its packet: the restart clears
\* the packet, and a read that had found it fresh raises instead of waiting for the new stream.
Look(f) ==
  /\ At(f, "look") /\ ~Connecting
  /\ \/ ~MustReplace /\ PacketFresh /\ Succeeds(f) /\ UNCHANGED <<readers, stream>>
     \/ ~MustReplace /\ ~PacketFresh /\ Become(f, "wait") /\ UNCHANGED <<readers, stream, cooling, lock>>
     \/ /\ MustReplace /\ \E r \in Readers : readers[r].pc = "idle"   \* bound
        /\ readers' = Disconnected /\ stream' = NoStream
        /\ Become(f, IF PacketFresh THEN "replace" ELSE "connect")
        /\ UNCHANGED <<cooling, lock>>
  /\ UNCHANGED <<network, suspended, cacheVars, events>>

\* A controller may accept a connection and stay silent.
Connect(f) ==
  /\ Opening(f) /\ network
  /\ \E r \in Readers, socket \in {"open", "silent"} :
       /\ readers[r].pc = "idle"
       /\ IF socket = "silent" THEN Happens ELSE UNCHANGED events
       /\ readers' = [readers EXCEPT ![r] = [pc |-> "reading", socket |-> socket]]
       /\ stream' = [NoStream EXCEPT !.reader = r]
  /\ \/ At(f, "connect") /\ Become(f, "wait") /\ UNCHANGED <<cooling, lock>>
     \/ At(f, "replace") /\ Fails(f)
  /\ UNCHANGED <<network, suspended, cacheVars>>

ConnectFails(f) ==
  /\ Opening(f) /\ ~network /\ Fails(f)
  /\ UNCHANGED <<linkVars, suspended, cacheVars, events>>

\* The event was set, or the wait is over.
Awake(f) ==
  /\ At(f, "wait")
  /\ IF PacketFresh THEN Succeeds(f) ELSE Fails(f)
  /\ UNCHANGED <<linkVars, suspended, cacheVars, events>>

CoolingEnds ==
  /\ cooling /\ lock = None /\ cooling' = FALSE
  /\ UNCHANGED <<linkVars, suspended, lock, refreshers, cacheVars, events>>

-----------------------------------------------------------------------------
(* The cache.                                                              *)

\* A page that finds the entry too old starts a refresh, unless one is under way.
Ask ==
  /\ ~cache.fresh /\ ~refreshing /\ refreshing' = TRUE
  /\ \E f \in Refreshers : At(f, "idle") /\ Become(f, "begin")
  /\ UNCHANGED <<linkVars, cooling, suspended, lock, cache, clearing, events>>

\* Faulty variant: the flag is cleared after a read that succeeded.
StillRefreshing_AfterError(f) == At(f, "failed")

StillRefreshing(f) == FALSE

\* _refresh_robot_telemetry: a failure keeps the last data, marked.
WriteBack(f) ==
  /\ refreshers[f] \in {"ok", "failed"}
  /\ cache' = [data |-> cache.data \/ At(f, "ok"), failed |-> At(f, "failed"), fresh |-> TRUE]
  /\ refreshing' = StillRefreshing(f)
  /\ Become(f, "idle")
  /\ UNCHANGED <<linkVars, cooling, suspended, lock, clearing, events>>

CacheExpires ==
  /\ cache.fresh /\ cache' = [cache EXCEPT !.fresh = FALSE]
  /\ UNCHANGED <<linkVars, readVars, refreshing, clearing, events>>

\* What a page is shown without a mark.
Live == cache.data /\ ~cache.failed

-----------------------------------------------------------------------------
(* Resets, shutdown, and the world.                                        *)

\* reset_robot_connections, by an operator's retry or by Run Mode between its attempts.
Reset(operator) ==
  /\ Happens /\ lock = None /\ ~suspended /\ ~clearing
  /\ readers' = Disconnected /\ stream' = NoStream
  /\ cooling' = FALSE /\ clearing' = operator
  /\ UNCHANGED <<network, suspended, lock, refreshers, cache, refreshing>>

\* The second half of retry_robot_telemetry.
RetryClears ==
  /\ clearing /\ clearing' = FALSE
  /\ cache' = NoCache /\ refreshing' = FALSE
  /\ UNCHANGED <<linkVars, readVars, events>>

\* update_settings clears the cache and leaves a running refresh alone.
ClearCache ==
  /\ Happens /\ cache' = NoCache
  /\ UNCHANGED <<linkVars, readVars, refreshing, clearing>>

Suspend ==
  /\ Happens /\ lock = None /\ ~suspended
  /\ readers' = Disconnected /\ stream' = NoStream /\ suspended' = TRUE
  /\ UNCHANGED <<network, cooling, lock, refreshers, cacheVars>>

\* The process is replaced by a new one.
Relaunch ==
  /\ suspended /\ suspended' = FALSE
  /\ readers' = [r \in Readers |-> Asleep] /\ stream' = NoStream
  /\ cooling' = FALSE /\ lock' = None /\ refreshers' = [f \in Refreshers |-> "idle"]
  /\ cache' = NoCache /\ refreshing' = FALSE /\ clearing' = FALSE
  /\ UNCHANGED <<network, events>>

\* Some open connections come back with the network, others stay silent.
NetworkFails ==
  /\ Happens /\ network /\ network' = FALSE
  /\ \E dead \in SUBSET {r \in Readers : readers[r].socket = "open"} :
       readers' = [r \in Readers |-> IF r \in dead THEN [readers[r] EXCEPT !.socket = "silent"] ELSE readers[r]]
  /\ UNCHANGED <<stream, readVars, cacheVars>>

NetworkReturns ==
  /\ ~network /\ network' = TRUE
  /\ UNCHANGED <<readers, stream, readVars, cacheVars, events>>

ConnectionLost(r) ==
  /\ Happens /\ readers[r].pc = "reading" /\ readers[r].socket \in {"open", "silent"}
  /\ readers' = [readers EXCEPT ![r].pc = "ending"]
  /\ UNCHANGED <<network, stream, readVars, cacheVars>>

-----------------------------------------------------------------------------
Init ==
  /\ network = TRUE /\ readers = [r \in Readers |-> Asleep] /\ stream = NoStream
  /\ cooling = FALSE /\ suspended = FALSE /\ lock = None
  /\ refreshers = [f \in Refreshers |-> "idle"]
  /\ cache = NoCache /\ refreshing = FALSE /\ clearing = FALSE /\ events = 0

ReaderStep(r) == Receives(r) \/ Stores(r) \/ Breaks(r) \/ Ends(r)
ReadStep(f)   == Look(f) \/ Connect(f) \/ ConnectFails(f) \/ Awake(f)
Delays        == StreamAges \/ CoolingEnds \/ CacheExpires
Operated      == (\E operator \in BOOLEAN : Reset(operator)) \/ RetryClears \/ ClearCache \/ Suspend

Next ==
  \/ \E r \in Readers : ReaderStep(r) \/ ConnectionLost(r)
  \/ \E f \in Refreshers : Begin(f) \/ ReadStep(f) \/ WriteBack(f)
  \/ Ask \/ Delays \/ Operated \/ Relaunch \/ NetworkFails \/ NetworkReturns

Spec == Init /\ [][Next]_vars

\* Threads run, the lock is given to everyone who waits for it, delays end, pages go on asking, and a
\* network or a backend that went away comes back.
Fairness ==
  /\ \A r \in Readers : WF_vars(ReaderStep(r))
  /\ \A f \in Refreshers : SF_vars(Begin(f)) /\ WF_vars(ReadStep(f)) /\ WF_vars(WriteBack(f))
  /\ WF_vars(StreamAges) /\ SF_vars(CoolingEnds) /\ WF_vars(CacheExpires) /\ WF_vars(Ask)
  /\ WF_vars(NetworkReturns) /\ WF_vars(Relaunch) /\ WF_vars(RetryClears)

FairSpec == Spec /\ Fairness

-----------------------------------------------------------------------------
(* Properties.                                                             *)

StreamTypeOK ==
  /\ readers \in [Readers -> [pc : {"idle", "reading", "storing", "ending"},
                              socket : {"none", "open", "silent", "closed"}]]
  /\ stream \in [reader : Readers \cup {None}, packet : Readers \cup {None},
                 age : {"fresh", "stale", "stalled"}]
  /\ stream.reader # None => readers[stream.reader].pc # "idle"

ReadTypeOK ==
  /\ refreshers \in [Refreshers -> {"idle", "begin", "look", "connect", "replace", "wait", "ok", "failed"}]
  /\ lock \in Refreshers \cup {None}
  /\ \A f \in Refreshers : lock = f <=> refreshers[f] \in {"look", "connect", "replace", "wait"}

CacheTypeOK ==
  /\ network \in BOOLEAN /\ cooling \in BOOLEAN /\ suspended \in BOOLEAN
  /\ refreshing \in BOOLEAN /\ clearing \in BOOLEAN
  /\ cache \in [data : BOOLEAN, failed : BOOLEAN, fresh : BOOLEAN]

\* Types; the lock is held exactly by a caller in a read, and the stream names a reader that lives.
TelemetryTypeOK == StreamTypeOK /\ ReadTypeOK /\ CacheTypeOK /\ events \in 0..MaxEvents

\* "Some older controllers permit only one realtime client" (robot_rtde.py 1157): however readers end,
\* stall and are replaced, no connection is left open beside the one the module remembers.
OneStream ==
  \A r \in Readers : readers[r].socket \in {"open", "silent"} => stream.reader = r

\* A superseded reader that still holds a packet never passes it off as a sample of the connection that
\* replaced its own (robot_rtde.py 1025-1027): the motion checks would take the past for the present.
SampleOfThisStream == stream.packet # None /\ stream.reader # None => stream.packet = stream.reader

\* After a shutdown began no thread opens or keeps a stream of telemetry (robot_rtde.py 1551-1560): a
\* read that waited for the lock finds the flag. The one-shot Modbus sessions for outputs do not look.
SuspendedIsSilent ==
  suspended => \A r \in Readers : readers[r].socket \notin {"open", "silent"}

\* However a stream was lost (a dead connection, a silent controller, a superseded reader, a reset in
\* the middle of a refresh, a refresh that failed or that replaced a stream and raised all the same),
\* pages that go on asking get new data again.
TelemetryRecovers == []<>(cache.fresh /\ Live)

=============================================================================
