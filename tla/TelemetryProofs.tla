--------------------------- MODULE TelemetryProofs ---------------------------
(***************************************************************************)
(* The stream of Telemetry for any number of readers and refresh threads:  *)
(* one connection, samples of that connection only, silence when           *)
(* suspended.                                                              *)
(***************************************************************************)
EXTENDS Telemetry, TLAPS

\* While a caller opens a connection nobody owns the stream, and a suspended backend has no caller
\* in a read and no stream: what keeps Connect from opening a second connection.
NobodyElse ==
  /\ \A f \in Refreshers : Opening(f) => stream.reader = None
  /\ suspended => lock = None /\ stream.reader = None

StreamInv == TelemetryTypeOK /\ OneStream /\ SampleOfThisStream /\ NobodyElse

\* The invariant holds of a backend that has just started.
LEMMA StreamInvInit == Init => StreamInv
<1> SUFFICES ASSUME Init PROVE StreamInv
  OBVIOUS
<1>1. StreamTypeOK
  BY DEF Init, StreamTypeOK, Asleep, NoStream
<1>2. ReadTypeOK
  BY TelemetryConstants DEF Init, ReadTypeOK
<1>3. CacheTypeOK
  BY DEF Init, CacheTypeOK, NoCache
<1>4. events \in 0..MaxEvents
  BY TelemetryConstants DEF Init
<1>5. OneStream /\ SampleOfThisStream /\ NobodyElse
  BY DEF Init, OneStream, SampleOfThisStream, NobodyElse, Opening, At, Asleep, NoStream
<1> QED  BY <1>1, <1>2, <1>3, <1>4, <1>5 DEF StreamInv, TelemetryTypeOK

\* What _disconnect_legacy_realtime leaves: no connection of the stream is open.
LEMMA DisconnectedIsSilent ==
  ASSUME TelemetryTypeOK, OneStream
  PROVE  /\ Disconnected \in [Readers -> [pc : {"idle", "reading", "storing", "ending"},
                                          socket : {"none", "open", "silent", "closed"}]]
         /\ \A r \in Readers : Disconnected[r].socket \notin {"open", "silent"}
<1>1. readers \in [Readers -> [pc : {"idle", "reading", "storing", "ending"},
                               socket : {"none", "open", "silent", "closed"}]]
  BY DEF TelemetryTypeOK, StreamTypeOK
<1>2. ASSUME NEW r \in Readers
      PROVE  /\ Disconnected[r] \in [pc : {"idle", "reading", "storing", "ending"},
                                     socket : {"none", "open", "silent", "closed"}]
             /\ Disconnected[r].socket \notin {"open", "silent"}
  <2>1. CASE Owns(r)
    BY <1>1, <2>1 DEF Disconnected
  <2>2. CASE ~Owns(r)
    BY <1>1, <2>2 DEF Disconnected, Owns, OneStream
  <2> QED  BY <2>1, <2>2
<1> QED  BY <1>2 DEF Disconnected

\* No step breaks it.
LEMMA StreamInvStep == StreamInv /\ [Next]_vars => StreamInv'
<1> SUFFICES ASSUME StreamInv, [Next]_vars PROVE StreamInv'
  OBVIOUS
<1> USE DEF StreamInv, TelemetryTypeOK
<1>1. ASSUME NEW r \in Readers, Receives(r) PROVE StreamInv'
  <2>1. StreamTypeOK'
    BY <1>1 DEF StreamTypeOK, Receives
  <2>2. OneStream'
    BY <1>1 DEF OneStream, StreamTypeOK, ReadTypeOK, NobodyElse, Opening, Receives, At
  <2>3. (ReadTypeOK /\ CacheTypeOK /\ events \in 0..MaxEvents /\ SampleOfThisStream /\ NobodyElse)'
    BY <1>1 DEF ReadTypeOK, CacheTypeOK, SampleOfThisStream, NobodyElse, Opening, Receives, readVars, cacheVars, At
  <2> QED  BY <2>1, <2>2, <2>3 DEF StreamInv, TelemetryTypeOK
<1>2. ASSUME NEW r \in Readers, Stores(r) PROVE StreamInv'
  <2>1. StreamTypeOK'
    <3>1. CASE Owns(r)
      <4>1. /\ stream' = [stream EXCEPT !.packet = r, !.age = "fresh"]
            /\ readers' = [readers EXCEPT ![r].pc = "reading"]
        BY <1>2, <3>1 DEF Stores
      <4>2. stream' \in [reader : Readers \cup {None}, packet : Readers \cup {None},
                         age : {"fresh", "stale", "stalled"}] /\ stream'.reader = r
        BY <3>1, <4>1 DEF StreamTypeOK, Owns
      <4>3. readers' \in [Readers -> [pc : {"idle", "reading", "storing", "ending"},
                                     socket : {"none", "open", "silent", "closed"}]]
            /\ readers'[r].pc = "reading"
        BY <4>1 DEF StreamTypeOK
      <4> QED  BY <4>2, <4>3 DEF StreamTypeOK
    <3>2. CASE ~Owns(r)
      BY <1>2, <3>2, TelemetryConstants DEF StreamTypeOK, Stores, Owns
    <3> QED  BY <3>1, <3>2
  <2>2. OneStream'
    <3>1. CASE Owns(r)
      BY <1>2, <3>1 DEF OneStream, StreamTypeOK, Stores, Owns, At
    <3>2. CASE ~Owns(r)
      BY <1>2, <3>2 DEF OneStream, StreamTypeOK, Stores, Owns, At
    <3> QED  BY <3>1, <3>2
  <2>3. SampleOfThisStream'
    BY <1>2, TelemetryConstants DEF SampleOfThisStream, StreamTypeOK, Stores, Owns, Connecting, Opening
  <2>4. NobodyElse'
    BY <1>2, TelemetryConstants
       DEF NobodyElse, Opening, StreamTypeOK, ReadTypeOK, Stores, Owns, Connecting, Opening, readVars, At
  <2>5. (ReadTypeOK /\ CacheTypeOK /\ events \in 0..MaxEvents)'
    BY <1>2 DEF ReadTypeOK, CacheTypeOK, Stores, readVars, cacheVars
  <2> QED  BY <2>1, <2>2, <2>3, <2>4, <2>5 DEF StreamInv, TelemetryTypeOK
<1>3. ASSUME NEW r \in Readers, Breaks(r) PROVE StreamInv'
  <2>1. StreamTypeOK'
    BY <1>3 DEF StreamTypeOK, Breaks
  <2>2. OneStream'
    BY <1>3 DEF OneStream, StreamTypeOK, ReadTypeOK, NobodyElse, Opening, Breaks, At
  <2>3. (ReadTypeOK /\ CacheTypeOK /\ events \in 0..MaxEvents /\ SampleOfThisStream /\ NobodyElse)'
    BY <1>3 DEF ReadTypeOK, CacheTypeOK, SampleOfThisStream, NobodyElse, Opening, Breaks, readVars, cacheVars, At
  <2> QED  BY <2>1, <2>2, <2>3 DEF StreamInv, TelemetryTypeOK
<1>4. ASSUME NEW r \in Readers, Ends(r) PROVE StreamInv'
  <2>1. StreamTypeOK'
    BY <1>4, TelemetryConstants DEF StreamTypeOK, Ends, Ended, Owns, Asleep, Connecting, Opening
  <2>2. OneStream'
    BY <1>4, TelemetryConstants
       DEF OneStream, StreamTypeOK, ReadTypeOK, NobodyElse, Opening, Ends, Ended, Owns, Asleep, Connecting, Opening, At
  <2>3. SampleOfThisStream'
    BY <1>4, TelemetryConstants DEF SampleOfThisStream, StreamTypeOK, Ends, Ended, Owns, Asleep, Connecting, Opening
  <2>4. NobodyElse'
    BY <1>4, TelemetryConstants
       DEF NobodyElse, Opening, StreamTypeOK, ReadTypeOK, Ends, Ended, Owns, Asleep, Connecting, Opening, readVars, At
  <2>5. (ReadTypeOK /\ CacheTypeOK /\ events \in 0..MaxEvents)'
    BY <1>4 DEF ReadTypeOK, CacheTypeOK, Ends, readVars, cacheVars
  <2> QED  BY <2>1, <2>2, <2>3, <2>4, <2>5 DEF StreamInv, TelemetryTypeOK
<1>5. ASSUME NEW r \in Readers, ConnectionLost(r) PROVE StreamInv'
  <2>1. StreamTypeOK'
    BY <1>5 DEF StreamTypeOK, ConnectionLost
  <2>2. (events \in 0..MaxEvents)'
    BY <1>5, TelemetryConstants DEF ConnectionLost, Happens
  <2>3. OneStream'
    BY <1>5 DEF OneStream, StreamTypeOK, ReadTypeOK, NobodyElse, Opening, ConnectionLost, At
  <2>4. (ReadTypeOK /\ CacheTypeOK /\ SampleOfThisStream /\ NobodyElse)'
    BY <1>5
       DEF ReadTypeOK, CacheTypeOK, SampleOfThisStream, NobodyElse, Opening, ConnectionLost, readVars, cacheVars, At
  <2> QED  BY <2>1, <2>2, <2>3, <2>4 DEF StreamInv, TelemetryTypeOK
<1>6. ASSUME NEW f \in Refreshers, Begin(f) PROVE StreamInv'
  <2>1. ReadTypeOK'
    BY <1>6, TelemetryConstants DEF ReadTypeOK, Begin, At, Become
  <2>2. CacheTypeOK'
    BY <1>6 DEF CacheTypeOK, Begin, linkVars, cacheVars
  <2>3. NobodyElse'
    <3>1. CASE Refused
      BY <1>6, <3>1 DEF NobodyElse, Opening, ReadTypeOK, Refused, Begin, linkVars, At, Become
    <3>2. CASE ~Refused
      BY <1>6, <3>2 DEF NobodyElse, Opening, ReadTypeOK, Refused, Begin, linkVars, At, Become
    <3> QED  BY <3>1, <3>2
  <2>4. (StreamTypeOK /\ events \in 0..MaxEvents /\ OneStream /\ SampleOfThisStream)'
    BY <1>6 DEF StreamTypeOK, OneStream, SampleOfThisStream, Begin, linkVars, At
  <2> QED  BY <2>1, <2>2, <2>3, <2>4 DEF StreamInv, TelemetryTypeOK
<1>7. ASSUME NEW f \in Refreshers, Look(f) PROVE StreamInv'
  <2>1. StreamTypeOK'
    <3>1. CASE readers' = Disconnected /\ stream' = NoStream
      BY <3>1, DisconnectedIsSilent DEF StreamTypeOK, NoStream
    <3>2. CASE UNCHANGED <<readers, stream>>
      BY <3>2 DEF StreamTypeOK
    <3> QED  BY <1>7, <3>1, <3>2 DEF Look
  <2>2. ReadTypeOK'
    BY <1>7, TelemetryConstants DEF ReadTypeOK, Look, Succeeds, At, Become
  <2>3. CacheTypeOK'
    BY <1>7 DEF CacheTypeOK, Look, Succeeds, cacheVars
  <2>4. OneStream'
    BY <1>7, TelemetryConstants, DisconnectedIsSilent
       DEF OneStream, StreamTypeOK, ReadTypeOK, NobodyElse, Opening, Look, NoStream, At
  <2>5. SampleOfThisStream'
    BY <1>7, TelemetryConstants DEF SampleOfThisStream, StreamTypeOK, Look, NoStream
  <2>6. NobodyElse'
    BY <1>7, TelemetryConstants
       DEF NobodyElse, Opening, StreamTypeOK, ReadTypeOK, Look, Succeeds, NoStream, At, Become
  <2>7. (events \in 0..MaxEvents)'
    BY <1>7 DEF Look
  <2> QED  BY <2>1, <2>2, <2>3, <2>4, <2>5, <2>6, <2>7 DEF StreamInv, TelemetryTypeOK
<1>8. ASSUME NEW f \in Refreshers, Connect(f) PROVE StreamInv'
  <2>1. StreamTypeOK'
    <3>1. PICK r \in Readers, socket \in {"open", "silent"} :
            /\ readers' = [readers EXCEPT ![r] = [pc |-> "reading", socket |-> socket]]
            /\ stream' = [NoStream EXCEPT !.reader = r]
      BY <1>8 DEF Connect
    <3>2. stream' \in [reader : Readers \cup {None}, packet : Readers \cup {None},
                       age : {"fresh", "stale", "stalled"}] /\ stream'.reader = r
      BY <3>1 DEF NoStream
    <3>3. readers' \in [Readers -> [pc : {"idle", "reading", "storing", "ending"},
                                   socket : {"none", "open", "silent", "closed"}]]
          /\ readers'[r].pc = "reading"
      BY <3>1 DEF StreamTypeOK
    <3> QED  BY <3>2, <3>3 DEF StreamTypeOK
  <2>2. ReadTypeOK'
    BY <1>8, TelemetryConstants DEF ReadTypeOK, Opening, Connect, Fails, At, Become
  <2>3. (events \in 0..MaxEvents)'
    BY <1>8, TelemetryConstants DEF Connect, Happens
  <2>4. OneStream'
    BY <1>8, TelemetryConstants DEF OneStream, StreamTypeOK, ReadTypeOK, NobodyElse, Opening, Connect, NoStream, At
  <2>5. SampleOfThisStream'
    BY <1>8, TelemetryConstants DEF SampleOfThisStream, StreamTypeOK, Connect, NoStream
  <2>6. NobodyElse'
    BY <1>8, TelemetryConstants DEF NobodyElse, Opening, StreamTypeOK, ReadTypeOK, Connect, Fails, NoStream, At, Become
  <2>7. (CacheTypeOK)'
    BY <1>8 DEF CacheTypeOK, Connect, Fails, cacheVars
  <2> QED  BY <2>1, <2>2, <2>3, <2>4, <2>5, <2>6, <2>7 DEF StreamInv, TelemetryTypeOK
<1>9. ASSUME NEW f \in Refreshers, ConnectFails(f) PROVE StreamInv'
  <2>1. ReadTypeOK'
    BY <1>9, TelemetryConstants DEF ReadTypeOK, Opening, ConnectFails, Fails, At, Become
  <2>2. CacheTypeOK'
    BY <1>9 DEF CacheTypeOK, ConnectFails, Fails, linkVars, cacheVars
  <2>3. NobodyElse'
    BY <1>9, TelemetryConstants
       DEF NobodyElse, Opening, StreamTypeOK, ReadTypeOK, ConnectFails, Fails, linkVars, At, Become
  <2>4. (StreamTypeOK /\ events \in 0..MaxEvents /\ OneStream /\ SampleOfThisStream)'
    BY <1>9 DEF StreamTypeOK, OneStream, SampleOfThisStream, ConnectFails, linkVars, At
  <2> QED  BY <2>1, <2>2, <2>3, <2>4 DEF StreamInv, TelemetryTypeOK
<1>10. ASSUME NEW f \in Refreshers, Awake(f) PROVE StreamInv'
  <2>1. ReadTypeOK'
    BY <1>10, TelemetryConstants DEF ReadTypeOK, Awake, Succeeds, Fails, At, Become
  <2>2. CacheTypeOK'
    BY <1>10 DEF CacheTypeOK, Awake, Succeeds, Fails, linkVars, cacheVars
  <2>3. NobodyElse'
    BY <1>10, TelemetryConstants
       DEF NobodyElse, Opening, StreamTypeOK, ReadTypeOK, Awake, Succeeds, Fails, linkVars, At, Become
  <2>4. (StreamTypeOK /\ events \in 0..MaxEvents /\ OneStream /\ SampleOfThisStream)'
    BY <1>10 DEF StreamTypeOK, OneStream, SampleOfThisStream, Awake, linkVars, At
  <2> QED  BY <2>1, <2>2, <2>3, <2>4 DEF StreamInv, TelemetryTypeOK
<1>11. ASSUME NEW f \in Refreshers, WriteBack(f) PROVE StreamInv'
  <2>1. ReadTypeOK'
    BY <1>11, TelemetryConstants DEF ReadTypeOK, WriteBack, At, Become
  <2>2. CacheTypeOK'
    BY <1>11 DEF CacheTypeOK, WriteBack, StillRefreshing, linkVars, At
  <2>3. NobodyElse'
    BY <1>11, TelemetryConstants DEF NobodyElse, Opening, StreamTypeOK, ReadTypeOK, WriteBack, linkVars, At, Become
  <2>4. (StreamTypeOK /\ events \in 0..MaxEvents /\ OneStream /\ SampleOfThisStream)'
    BY <1>11 DEF StreamTypeOK, OneStream, SampleOfThisStream, WriteBack, linkVars, At
  <2> QED  BY <2>1, <2>2, <2>3, <2>4 DEF StreamInv, TelemetryTypeOK
<1>12. ASSUME Ask PROVE StreamInv'
  <2>1. ReadTypeOK'
    BY <1>12, TelemetryConstants DEF ReadTypeOK, Ask, At, Become
  <2>2. CacheTypeOK'
    BY <1>12 DEF CacheTypeOK, Ask, linkVars
  <2>3. NobodyElse'
    BY <1>12, TelemetryConstants DEF NobodyElse, Opening, StreamTypeOK, ReadTypeOK, Ask, linkVars, At, Become
  <2>4. (StreamTypeOK /\ events \in 0..MaxEvents /\ OneStream /\ SampleOfThisStream)'
    BY <1>12 DEF StreamTypeOK, OneStream, SampleOfThisStream, Ask, linkVars, At
  <2> QED  BY <2>1, <2>2, <2>3, <2>4 DEF StreamInv, TelemetryTypeOK
<1>13. ASSUME StreamAges PROVE StreamInv'
  <2>1. StreamTypeOK'
    BY <1>13, TelemetryConstants DEF StreamTypeOK, StreamAges
  <2>2. OneStream'
    BY <1>13, TelemetryConstants DEF OneStream, StreamTypeOK, ReadTypeOK, NobodyElse, Opening, StreamAges, At
  <2>3. SampleOfThisStream'
    BY <1>13, TelemetryConstants DEF SampleOfThisStream, StreamTypeOK, StreamAges
  <2>4. NobodyElse'
    BY <1>13, TelemetryConstants DEF NobodyElse, Opening, StreamTypeOK, ReadTypeOK, StreamAges, readVars, At
  <2>5. (ReadTypeOK /\ CacheTypeOK /\ events \in 0..MaxEvents)'
    BY <1>13 DEF ReadTypeOK, CacheTypeOK, StreamAges, readVars, cacheVars
  <2> QED  BY <2>1, <2>2, <2>3, <2>4, <2>5 DEF StreamInv, TelemetryTypeOK
<1>14. ASSUME CoolingEnds PROVE StreamInv'
  <2>1. CacheTypeOK'
    BY <1>14 DEF CacheTypeOK, CoolingEnds, linkVars, cacheVars
  <2>2. (StreamTypeOK /\ ReadTypeOK /\ events \in 0..MaxEvents /\ OneStream /\ SampleOfThisStream /\ NobodyElse)'
    BY <1>14
       DEF StreamTypeOK, ReadTypeOK, OneStream, SampleOfThisStream, NobodyElse, Opening, CoolingEnds, linkVars, At
  <2> QED  BY <2>1, <2>2 DEF StreamInv, TelemetryTypeOK
<1>15. ASSUME CacheExpires PROVE StreamInv'
  <2>1. CacheTypeOK'
    BY <1>15 DEF CacheTypeOK, CacheExpires, linkVars, readVars
  <2>2. (StreamTypeOK /\ ReadTypeOK /\ events \in 0..MaxEvents /\ OneStream /\ SampleOfThisStream /\ NobodyElse)'
    BY <1>15
       DEF StreamTypeOK, ReadTypeOK, OneStream, SampleOfThisStream, NobodyElse, Opening, CacheExpires, linkVars, readVars, At
  <2> QED  BY <2>1, <2>2 DEF StreamInv, TelemetryTypeOK
<1>16. ASSUME NEW operator \in BOOLEAN, Reset(operator) PROVE StreamInv'
  <2>1. StreamTypeOK'
    BY <1>16, TelemetryConstants, DisconnectedIsSilent DEF StreamTypeOK, Reset, NoStream
  <2>2. CacheTypeOK'
    BY <1>16 DEF CacheTypeOK, Reset
  <2>3. (events \in 0..MaxEvents)'
    BY <1>16, TelemetryConstants DEF Reset, Happens
  <2>4. OneStream'
    BY <1>16, TelemetryConstants, DisconnectedIsSilent
       DEF OneStream, StreamTypeOK, ReadTypeOK, NobodyElse, Opening, Reset, NoStream, At
  <2>5. SampleOfThisStream'
    BY <1>16, TelemetryConstants DEF SampleOfThisStream, StreamTypeOK, Reset, NoStream
  <2>6. NobodyElse'
    BY <1>16, TelemetryConstants DEF NobodyElse, Opening, StreamTypeOK, ReadTypeOK, Reset, NoStream, At
  <2>7. (ReadTypeOK)'
    BY <1>16 DEF ReadTypeOK, Reset
  <2> QED  BY <2>1, <2>2, <2>3, <2>4, <2>5, <2>6, <2>7 DEF StreamInv, TelemetryTypeOK
<1>17. ASSUME RetryClears PROVE StreamInv'
  <2>1. CacheTypeOK'
    BY <1>17 DEF CacheTypeOK, RetryClears, NoCache, linkVars, readVars
  <2>2. (StreamTypeOK /\ ReadTypeOK /\ events \in 0..MaxEvents /\ OneStream /\ SampleOfThisStream /\ NobodyElse)'
    BY <1>17
       DEF StreamTypeOK, ReadTypeOK, OneStream, SampleOfThisStream, NobodyElse, Opening, RetryClears, linkVars, readVars, At
  <2> QED  BY <2>1, <2>2 DEF StreamInv, TelemetryTypeOK
<1>18. ASSUME ClearCache PROVE StreamInv'
  <2>1. CacheTypeOK'
    BY <1>18 DEF CacheTypeOK, ClearCache, NoCache, linkVars, readVars
  <2>2. (events \in 0..MaxEvents)'
    BY <1>18, TelemetryConstants DEF ClearCache, Happens
  <2>3. (StreamTypeOK /\ ReadTypeOK /\ OneStream /\ SampleOfThisStream /\ NobodyElse)'
    BY <1>18
       DEF StreamTypeOK, ReadTypeOK, OneStream, SampleOfThisStream, NobodyElse, Opening, ClearCache, linkVars, readVars, At
  <2> QED  BY <2>1, <2>2, <2>3 DEF StreamInv, TelemetryTypeOK
<1>19. ASSUME Suspend PROVE StreamInv'
  <2>1. StreamTypeOK'
    BY <1>19, TelemetryConstants, DisconnectedIsSilent DEF StreamTypeOK, Suspend, NoStream
  <2>2. CacheTypeOK'
    BY <1>19 DEF CacheTypeOK, Suspend, cacheVars
  <2>3. (events \in 0..MaxEvents)'
    BY <1>19, TelemetryConstants DEF Suspend, Happens
  <2>4. OneStream'
    BY <1>19, TelemetryConstants, DisconnectedIsSilent
       DEF OneStream, StreamTypeOK, ReadTypeOK, NobodyElse, Opening, Suspend, NoStream, At
  <2>5. SampleOfThisStream'
    BY <1>19, TelemetryConstants DEF SampleOfThisStream, StreamTypeOK, Suspend, NoStream
  <2>6. NobodyElse'
    BY <1>19, TelemetryConstants DEF NobodyElse, Opening, StreamTypeOK, ReadTypeOK, Suspend, NoStream, At
  <2>7. (ReadTypeOK)'
    BY <1>19 DEF ReadTypeOK, Suspend
  <2> QED  BY <2>1, <2>2, <2>3, <2>4, <2>5, <2>6, <2>7 DEF StreamInv, TelemetryTypeOK
<1>20. ASSUME Relaunch PROVE StreamInv'
  <2>1. StreamTypeOK'
    BY <1>20, TelemetryConstants DEF StreamTypeOK, Relaunch, Asleep, NoStream
  <2>2. ReadTypeOK'
    BY <1>20, TelemetryConstants DEF ReadTypeOK, Relaunch
  <2>3. CacheTypeOK'
    BY <1>20 DEF CacheTypeOK, Relaunch, NoCache
  <2>4. OneStream'
    BY <1>20, TelemetryConstants
       DEF OneStream, StreamTypeOK, ReadTypeOK, NobodyElse, Opening, Relaunch, Asleep, NoStream, At
  <2>5. SampleOfThisStream'
    BY <1>20, TelemetryConstants DEF SampleOfThisStream, StreamTypeOK, Relaunch, Asleep, NoStream
  <2>6. NobodyElse'
    BY <1>20, TelemetryConstants DEF NobodyElse, Opening, StreamTypeOK, ReadTypeOK, Relaunch, Asleep, NoStream, At
  <2>7. (events \in 0..MaxEvents)'
    BY <1>20 DEF Relaunch
  <2> QED  BY <2>1, <2>2, <2>3, <2>4, <2>5, <2>6, <2>7 DEF StreamInv, TelemetryTypeOK
<1>21. ASSUME NetworkFails PROVE StreamInv'
  <2>1. StreamTypeOK'
    BY <1>21 DEF StreamTypeOK, NetworkFails
  <2>2. CacheTypeOK'
    BY <1>21 DEF CacheTypeOK, NetworkFails, readVars, cacheVars
  <2>3. (events \in 0..MaxEvents)'
    BY <1>21, TelemetryConstants DEF NetworkFails, Happens
  <2>4. OneStream'
    BY <1>21 DEF OneStream, StreamTypeOK, ReadTypeOK, NobodyElse, Opening, NetworkFails, At
  <2>5. (ReadTypeOK /\ SampleOfThisStream /\ NobodyElse)'
    BY <1>21 DEF ReadTypeOK, SampleOfThisStream, NobodyElse, Opening, NetworkFails, readVars, At
  <2> QED  BY <2>1, <2>2, <2>3, <2>4, <2>5 DEF StreamInv, TelemetryTypeOK
<1>22. ASSUME NetworkReturns PROVE StreamInv'
  <2>1. CacheTypeOK'
    BY <1>22 DEF CacheTypeOK, NetworkReturns, readVars, cacheVars
  <2>2. (StreamTypeOK /\ ReadTypeOK /\ events \in 0..MaxEvents /\ OneStream /\ SampleOfThisStream /\ NobodyElse)'
    BY <1>22
       DEF StreamTypeOK, ReadTypeOK, OneStream, SampleOfThisStream, NobodyElse, Opening, NetworkReturns, readVars, At
  <2> QED  BY <2>1, <2>2 DEF StreamInv, TelemetryTypeOK
<1>23. CASE UNCHANGED vars
  BY <1>23
     DEF StreamInv, vars, linkVars, readVars, cacheVars, At, Become,
         TelemetryTypeOK, StreamTypeOK, ReadTypeOK, CacheTypeOK, OneStream, SampleOfThisStream, NobodyElse, Opening
<1> QED
  BY <1>1, <1>2, <1>3, <1>4, <1>5, <1>6, <1>7, <1>8, <1>9, <1>10, <1>11, <1>12, <1>13, <1>14, <1>15, <1>16, <1>17, <1>18, <1>19, <1>20, <1>21, <1>22, <1>23
     DEF Next, ReaderStep, ReadStep, Delays, Operated

-----------------------------------------------------------------------------
\* Every reachable state satisfies it.
LEMMA StreamInvHolds == Spec => []StreamInv
<1>1. Init => StreamInv
  BY StreamInvInit
<1>2. StreamInv /\ [Next]_vars => StreamInv'
  BY StreamInvStep
<1> QED  BY <1>1, <1>2, PTL DEF Spec

\* The lock of read_robot_snapshot belongs to the one caller in a read, and the stream to a live reader.
THEOREM TelemetryTyped == Spec => []TelemetryTypeOK
<1>1. StreamInv => TelemetryTypeOK
  BY DEF StreamInv
<1> QED  BY <1>1, StreamInvHolds, PTL

\* However many readers were superseded, at most one connection to the robot is open: the stream's own.
THEOREM OneStreamHolds == Spec => []OneStream
<1>1. StreamInv => OneStream
  BY DEF StreamInv
<1> QED  BY <1>1, StreamInvHolds, PTL

\* The latest packet is never one that a superseded reader left behind.
THEOREM SamplesAreOfThisStream == Spec => []SampleOfThisStream
<1>1. StreamInv => SampleOfThisStream
  BY DEF StreamInv
<1> QED  BY <1>1, StreamInvHolds, PTL

\* A suspended backend holds no stream of telemetry: no caller is in a read, so nothing opens one, and
\* by OneStream nothing was left open.
THEOREM SuspendedStaysSilent == Spec => []SuspendedIsSilent
<1>1. StreamInv => SuspendedIsSilent
  BY TelemetryConstants DEF StreamInv, NobodyElse, Opening, OneStream, SuspendedIsSilent
<1> QED  BY <1>1, StreamInvHolds, PTL

=============================================================================
