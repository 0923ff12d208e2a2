---------------------------- MODULE MonitorProofs ----------------------------
(***************************************************************************)
(* Proofs about Monitor.tla, the engine's monitor server and the relay,    *)
(* for every number of dashboards, every size of a connection's buffers    *)
(* and any number of restarts: the types, that a connection of the relay   *)
(* never meets what is left of an earlier one, that a KILL always has a    *)
(* reader, and that no open dashboard is left out of the broadcasts.       *)
(***************************************************************************)
EXTENDS Monitor, FiniteSetTheorems, TLAPS

-----------------------------------------------------------------------------
(* The parts of the type *)

\* The engine's own state.
EngineType ==
  /\ up \in BOOLEAN /\ shutdown \in BOOLEAN
  /\ alive \subseteq Threads
  /\ manual \in BOOLEAN /\ killed \in BOOLEAN /\ tick \in {"top", "publish"}
  /\ lock \in BOOLEAN /\ snap \in Snapshots /\ payload \in Snapshots \cup {None}
  /\ restarts \in 0..MaxRestarts

\* The connection and the engine's threads on it: what a thread is about to write
\* is a snapshot, and it is only on a connection that was accepted.
WireType ==
  /\ handler \in {"none", "top", "locked", "write"} /\ reader \in {"none", "read"}
  /\ conn \in {"none", "backlog", "open", "eof", "hungup"}
  /\ toRelay \in Seq(Snapshots) /\ Len(toRelay) <= PipeSize /\ killLine \in BOOLEAN
  /\ handler = "write" => payload \in Snapshots
  /\ handler # "none" \/ reader # "none" => conn \in {"open", "hungup"}

\* The reader loop of the relay: it reads only where it has not seen the end.
LoopType ==
  /\ loop \in {"connect", "read", "iterate", "send", "sleep", "dead"}
  /\ engineWriter \in BOOLEAN /\ latest \in Snapshots \cup {None}
  /\ todo \subseteq Sockets /\ stale \subseteq Sockets
  /\ size \in 0..Cardinality(Sockets) /\ current \in Sockets \cup {None}
  /\ (loop = "send") <=> (current # None)
  /\ loop \in {"read", "iterate", "send"} => conn \in {"backlog", "open", "eof"}

\* The dashboards.
DashboardType ==
  /\ clients \subseteq Sockets /\ serving \subseteq Sockets
  /\ ws \in [Sockets -> {"new", "open", "closed"}]
  /\ click \in [Sockets -> BOOLEAN] /\ shown \in [Sockets -> Snapshots \cup {None}]

Inv == EngineType /\ WireType /\ LoopType /\ DashboardType /\ OneConnection

(* No more clients than sockets. *)
LEMMA SizeFacts ==
  ASSUME NEW some \in SUBSET Sockets
  PROVE  Cardinality(some) \in 0 .. Cardinality(Sockets) /\ 0 \in 0 .. Cardinality(Sockets)
<1>1. IsFiniteSet(Sockets)
  BY MonitorAssumption
<1>2. IsFiniteSet(some) /\ Cardinality(some) <= Cardinality(Sockets)
  BY <1>1, FS_Subset
<1>3. Cardinality(some) \in Nat /\ Cardinality(Sockets) \in Nat
  BY <1>1, <1>2, FS_CardinalityType
<1>4. QED
  BY <1>2, <1>3

(* A connection that was just opened, or was closed, holds nothing. *)
LEMMA NothingBuffered == <<>> \in Seq(Snapshots) /\ Len(<<>>) <= PipeSize
<1>1. PipeSize \in Nat
  BY IpcAssumption
<1>2. QED
  BY <1>1

LEMMA InitInv ==
  ASSUME Init
  PROVE  Inv
<1>0. /\ up = TRUE /\ shutdown = FALSE /\ alive \subseteq Threads
      /\ manual = FALSE /\ killed = FALSE /\ tick = "top" /\ lock = FALSE /\ snap = "live"
      /\ handler = "none" /\ payload = None /\ reader = "none" /\ restarts = 0
      /\ conn = "none" /\ toRelay = <<>> /\ killLine = FALSE
  BY DEF Init, EngineInit, None
<1>1. EngineType
  <2>1. 0 \in 0 .. MaxRestarts
    BY IpcAssumption
  <2>2. QED
    BY <1>0, <2>1 DEF EngineType, Snapshots
<1>2. WireType
  BY <1>0, NothingBuffered DEF WireType
<1>3. LoopType
  <2>1. {} \in SUBSET Sockets
    OBVIOUS
  <2>2. 0 \in 0 .. Cardinality(Sockets)
    BY <2>1, SizeFacts
  <2>3. /\ loop = "connect" /\ engineWriter = FALSE /\ latest = None /\ todo = {} /\ size = 0
        /\ current = None /\ stale = {}
    BY DEF Init
  <2>4. QED
    BY <2>2, <2>3 DEF LoopType
<1>4. DashboardType
  <2>1. /\ clients = {} /\ serving = {} /\ ws = [w \in Sockets |-> "new"]
        /\ click = [w \in Sockets |-> FALSE] /\ shown = [w \in Sockets |-> None]
    BY DEF Init
  <2>2. ws \in [Sockets -> {"new", "open", "closed"}]
    BY <2>1
  <2>3. click \in [Sockets -> BOOLEAN]
    BY <2>1
  <2>4. shown \in [Sockets -> Snapshots \cup {None}]
    BY <2>1
  <2>5. QED
    BY <2>1, <2>2, <2>3, <2>4 DEF DashboardType
<1>5. OneConnection
  BY DEF Init, EngineInit, OneConnection
<1>6. QED
  BY <1>1, <1>2, <1>3, <1>4, <1>5 DEF Inv

-----------------------------------------------------------------------------
(* The engine *)

\* What an engine step keeps is what it needs to keep: the relay's side of the
\* invariant sees only the connection.
LEMMA EngineKept ==
  ASSUME Inv, UNCHANGED relayVars, EngineType', WireType',
         conn' = conn \/ (conn \in {"backlog", "open"} /\ conn' = "eof")
                      \/ (conn = "backlog" /\ conn' = "open")
                      \/ (conn = "hungup" /\ conn' = "none"),
         handler' # "none" => handler # "none" \/ conn = "backlog",
         reader' # "none" => reader # "none" \/ conn = "backlog"
  PROVE  Inv'
<1>1. LoopType'
  BY DEF Inv, LoopType, relayVars
<1>2. DashboardType'
  BY DEF Inv, DashboardType, relayVars
<1>3. OneConnection'
  BY DEF Inv, OneConnection, relayVars
<1>4. QED
  BY <1>1, <1>2, <1>3 DEF Inv

LEMMA EngineInv ==
  ASSUME Inv, Engine
  PROVE  Inv'
<1>1. EngineNext /\ UNCHANGED relayVars
  BY DEF Engine
<1> USE DEF Inv
<1>2. CASE Evaluate \/ PublishSnapshot \/ Elapse
  <2>1. EngineType'
    BY <1>2 DEF Evaluate, PublishSnapshot, Elapse, EngineType, serverVars, wireVars,
                Status, Snapshots
  <2>2. UNCHANGED <<conn, toRelay, killLine, handler, payload, reader>>
    BY <1>2 DEF Evaluate, PublishSnapshot, Elapse, serverVars, wireVars
  <2>3. WireType'
    BY <2>2 DEF WireType
  <2>4. QED
    BY <1>1, <2>1, <2>2, <2>3, EngineKept
<1>3. CASE Accept
  <2>1. EngineType' /\ WireType' /\ conn = "backlog" /\ conn' = "open"
    BY <1>3 DEF Accept, EngineType, WireType
  <2>2. QED
    BY <1>1, <2>1, EngineKept
<1>4. CASE HandlerLock \/ HandlerCopy
  <2>1. EngineType' /\ WireType' /\ conn' = conn /\ handler # "none" /\ reader' = reader
    BY <1>4 DEF HandlerLock, HandlerCopy, EngineType, WireType, wireVars
  <2>2. QED
    BY <1>1, <2>1, EngineKept
<1>5. CASE HandlerWrite
  <2>1. toRelay' \in Seq(Snapshots) /\ Len(toRelay') <= PipeSize
    <3>1. payload \in Snapshots /\ toRelay \in Seq(Snapshots) /\ PipeSize \in Nat
      BY <1>5, IpcAssumption DEF HandlerWrite, WireType
    <3>2. CASE conn = "open"
      <4>1. Len(toRelay) < PipeSize /\ toRelay' = Append(toRelay, payload)
        BY <1>5, <3>2 DEF HandlerWrite
      <4>2. QED
        BY <3>1, <4>1
    <3>3. CASE conn # "open"
      BY <1>5, <3>3 DEF HandlerWrite, WireType
    <3>4. QED
      BY <3>2, <3>3
  <2>2. EngineType'
    BY <1>5 DEF HandlerWrite, EngineType, None
  <2>3. WireType' /\ conn' = conn /\ handler # "none" /\ reader' = reader
    BY <1>5, <2>1 DEF HandlerWrite, WireType
  <2>4. QED
    BY <1>1, <2>2, <2>3, EngineKept
<1>6. CASE HandlerLeaves
  <2>1. EngineType'
    BY <1>6 DEF HandlerLeaves, EngineType, None
  <2>2. WireType' /\ handler' = "none" /\ reader' = reader
    BY <1>6 DEF HandlerLeaves, WireType, Gone
  <2>3. conn' = conn \/ (conn = "open" /\ conn' = "eof") \/ (conn = "hungup" /\ conn' = "none")
    BY <1>6 DEF HandlerLeaves, WireType, Gone
  <2>4. QED
    BY <1>1, <2>1, <2>2, <2>3, EngineKept
<1>7. CASE ReadKill \/ ReadEof
  <2>1. EngineType'
    BY <1>7 DEF ReadKill, ReadEof, EngineType
  <2>2. WireType' /\ handler' = handler /\ reader # "none"
    BY <1>7 DEF ReadKill, ReadEof, WireType, Gone
  <2>3. conn' = conn \/ (conn = "open" /\ conn' = "eof") \/ (conn = "hungup" /\ conn' = "none")
    BY <1>7 DEF ReadKill, ReadEof, WireType, Gone
  <2>4. QED
    BY <1>1, <2>1, <2>2, <2>3, EngineKept
<1>8. CASE Exit \/ Crash
  <2>1. Die
    BY <1>8 DEF Exit, Crash
  <2>2. EngineType'
    BY <2>1 DEF Die, EngineType, Snapshots, None
  <2>3. WireType' /\ handler' = "none" /\ reader' = "none"
    BY <2>1 DEF Die, WireType
  <2>4. conn' = conn \/ (conn \in {"backlog", "open"} /\ conn' = "eof")
                     \/ (conn = "hungup" /\ conn' = "none")
    BY <2>1 DEF Die, WireType
  <2>5. QED
    BY <1>1, <2>2, <2>3, <2>4, EngineKept
<1>9. CASE Restart
  <2>1. restarts' \in 0 .. MaxRestarts
    BY <1>9, IpcAssumption DEF Restart, EngineType
  <2>2. EngineType' /\ WireType' /\ UNCHANGED <<conn, handler, reader>>
    BY <1>9, <2>1 DEF Restart, EngineType, WireType, serverVars, wireVars
  <2>3. QED
    BY <1>1, <2>2, EngineKept
<1>10. ASSUME NEW t \in alive, Leave(t)
       PROVE  Inv'
  <2>1. EngineType'
    BY <1>10 DEF Leave, EngineType, serverVars
  <2>2. conn' = conn \/ (conn = "backlog" /\ conn' = "eof")
    BY <1>10 DEF Leave
  <2>3. WireType' /\ UNCHANGED <<handler, reader>>
    BY <1>10, <2>2 DEF Leave, WireType, serverVars
  <2>4. QED
    BY <1>1, <2>1, <2>2, <2>3, EngineKept
<1>11. QED
  BY <1>1, <1>2, <1>3, <1>4, <1>5, <1>6, <1>7, <1>8, <1>9, <1>10 DEF EngineNext

-----------------------------------------------------------------------------
(* The relay *)

LEMMA LoopInv ==
  ASSUME Inv, ReaderLoop
  PROVE  Inv'
<1> USE DEF Inv
<1>0. None \notin Sockets
  BY MonitorAssumption DEF None
<1>1. CASE Connect
  <2>1. UNCHANGED <<up, shutdown, alive, manual, killed, tick, snap, lock, handler, payload,
                    reader, restarts>>
    BY <1>1 DEF Connect, EngineAlone, serverVars
  <2>2. EngineType'
    BY <2>1 DEF EngineType
  <2>3. WireType'
    <3>1. handler = "none" /\ reader = "none" /\ conn' = "backlog"
          /\ toRelay' = <<>> /\ killLine' = FALSE
      BY <1>1 DEF Connect, OneConnection
    <3>2. toRelay' \in Seq(Snapshots) /\ Len(toRelay') <= PipeSize /\ killLine' \in BOOLEAN
      BY <3>1, NothingBuffered
    <3>3. QED
      BY <2>1, <3>1, <3>2 DEF WireType
  <2>4. LoopType' /\ OneConnection'
    BY <1>1 DEF Connect, LoopType, OneConnection, broadcastVars
  <2>5. DashboardType'
    BY <1>1 DEF Connect, DashboardType, dashboardVars
  <2>6. QED
    BY <2>2, <2>3, <2>4, <2>5
<1>2. CASE Refused \/ Wake
  <2>1. EngineType' /\ WireType' /\ UNCHANGED <<conn, handler, reader>>
    BY <1>2 DEF Refused, Wake, EngineType, WireType, engineVars
  <2>2. LoopType' /\ OneConnection'
    BY <1>2, <2>1 DEF Refused, Wake, LoopType, OneConnection, broadcastVars
  <2>3. DashboardType'
    BY <1>2 DEF Refused, Wake, DashboardType, dashboardVars
  <2>4. QED
    BY <2>1, <2>2, <2>3
<1>3. CASE ReadLine
  <2>1. /\ UNCHANGED <<up, shutdown, alive, manual, killed, tick, snap, lock, handler, payload,
                       reader, restarts, conn, killLine>>
    BY <1>3 DEF ReadLine, EngineAlone, serverVars
  <2>2. /\ Head(toRelay) \in Snapshots
        /\ toRelay' \in Seq(Snapshots) /\ Len(toRelay') <= PipeSize
    <3>1. toRelay # <<>> /\ toRelay \in Seq(Snapshots) /\ Len(toRelay) <= PipeSize
          /\ toRelay' = Tail(toRelay) /\ PipeSize \in Nat
      BY <1>3, IpcAssumption DEF ReadLine, WireType
    <3>2. QED
      BY <3>1
  <2>3. EngineType' /\ WireType'
    BY <2>1, <2>2 DEF EngineType, WireType
  <2>4. LoopType'
    <3>1. clients \in SUBSET Sockets
      BY DEF DashboardType
    <3>2. Cardinality(clients) \in 0 .. Cardinality(Sockets)
      BY <3>1, SizeFacts
    <3>3. QED
      BY <1>3, <2>1, <2>2, <3>1, <3>2 DEF ReadLine, LoopType, broadcastVars
  <2>5. OneConnection'
    BY <1>3, <2>1 DEF ReadLine, OneConnection
  <2>6. DashboardType'
    BY <1>3 DEF ReadLine, DashboardType, dashboardVars
  <2>7. QED
    BY <2>3, <2>4, <2>5, <2>6
<1>4. CASE Eof
  <2>1. UNCHANGED <<up, shutdown, alive, manual, killed, tick, snap, lock, handler, payload,
                    reader, restarts, killLine>>
    BY <1>4 DEF Eof, EngineAlone, serverVars
  <2>2. EngineType'
    BY <2>1 DEF EngineType
  <2>3. handler = "none" /\ reader = "none"
    BY <1>4 DEF Eof, WireType
  <2>4. WireType' /\ OneConnection'
    BY <1>4, <2>1, <2>3, IpcAssumption DEF Eof, WireType, OneConnection
  <2>5. LoopType'
    BY <1>4 DEF Eof, LoopType, broadcastVars
  <2>6. DashboardType'
    BY <1>4 DEF Eof, DashboardType, dashboardVars
  <2>7. QED
    BY <2>2, <2>4, <2>5, <2>6
<1>5. ASSUME NEW w \in Sockets, NextClient(w)
      PROVE  Inv'
  <2>1. EngineType' /\ WireType' /\ UNCHANGED conn
    BY <1>5 DEF NextClient, EngineType, WireType, engineVars
  <2>2. LoopType' /\ OneConnection'
    BY <1>0, <1>5, <2>1 DEF NextClient, LoopType, OneConnection
  <2>3. DashboardType'
    BY <1>5 DEF NextClient, DashboardType, dashboardVars
  <2>4. QED
    BY <2>1, <2>2, <2>3
<1>6. CASE Sent
  <2>1. EngineType' /\ WireType' /\ UNCHANGED conn
    BY <1>6 DEF Sent, EngineType, WireType, engineVars
  <2>2. current \in Sockets
    BY <1>6 DEF Sent, LoopType
  <2>3. LoopType' /\ OneConnection'
    BY <1>6, <2>1, <2>2 DEF Sent, LoopType, OneConnection
  <2>4. DashboardType'
    BY <1>6, <2>2 DEF Sent, LoopType, DashboardType
  <2>5. QED
    BY <2>1, <2>3, <2>4
<1>7. CASE BroadcastDone
  <2>1. EngineType' /\ WireType' /\ UNCHANGED conn
    BY <1>7 DEF BroadcastDone, EngineType, WireType, engineVars
  <2>2. LoopType' /\ OneConnection'
    BY <1>7, <2>1, SizeFacts DEF BroadcastDone, LoopType, OneConnection
  <2>3. DashboardType'
    BY <1>7 DEF BroadcastDone, DashboardType
  <2>4. QED
    BY <2>1, <2>2, <2>3
<1>8. CASE SetChanged
  <2>1. /\ UNCHANGED <<up, shutdown, alive, manual, killed, tick, snap, lock, handler, payload,
                       reader, restarts, killLine>>
    BY <1>8 DEF SetChanged, EngineAlone, serverVars
  <2>2. EngineType'
    BY <2>1 DEF EngineType
  <2>3. WireType'
    <3>1. toRelay' = toRelay \/ toRelay' = <<>>
      BY <1>8 DEF SetChanged
    <3>2. toRelay' \in Seq(Snapshots) /\ Len(toRelay') <= PipeSize
      BY <3>1, NothingBuffered DEF WireType
    <3>3. conn' = conn \/ conn' = "hungup" \/ (conn = "eof" /\ conn' = "none")
      BY <1>8 DEF SetChanged
    <3>4. QED
      BY <2>1, <3>2, <3>3 DEF WireType
  <2>4. LoopType' /\ OneConnection'
    BY <1>8, SizeFacts DEF SetChanged, LoopType, OneConnection
  <2>5. DashboardType'
    BY <1>8 DEF SetChanged, DashboardType, dashboardVars
  <2>6. QED
    BY <2>2, <2>3, <2>4, <2>5
<1>9. QED
  BY <1>1, <1>2, <1>3, <1>4, <1>5, <1>6, <1>7, <1>8 DEF ReaderLoop

LEMMA DashboardInv ==
  ASSUME Inv, NEW w \in Sockets, Dashboard(w)
  PROVE  Inv'
<1> USE DEF Inv
<1>1. CASE Forward(w)
  <2>1. /\ UNCHANGED <<up, shutdown, alive, manual, killed, tick, snap, lock, handler, payload,
                       reader, restarts, conn, toRelay, loop, engineWriter, latest, todo, size,
                       current, stale, clients, serving>>
        /\ killLine' \in BOOLEAN
    BY <1>1 DEF Forward, EngineAlone, serverVars, loopVars, broadcastVars
  <2>2. EngineType' /\ WireType' /\ LoopType' /\ OneConnection'
    BY <2>1 DEF EngineType, WireType, LoopType, OneConnection
  <2>3. DashboardType'
    BY <1>1, <2>1 DEF Forward, Closed, DashboardType
  <2>4. QED
    BY <2>2, <2>3
<1>2. CASE Open(w) \/ Click(w) \/ Close(w) \/ HandlerEnds(w)
  <2>1. EngineType' /\ WireType' /\ UNCHANGED <<conn, handler, reader, loop>>
    BY <1>2 DEF Open, Click, Close, HandlerEnds, EngineType, WireType, engineVars, loopVars
  <2>2. LoopType' /\ OneConnection'
    BY <1>2, <2>1 DEF Open, Click, Close, HandlerEnds, LoopType, OneConnection, loopVars, broadcastVars
  <2>3. CASE Open(w)
    BY <2>1, <2>2, <2>3 DEF Open, DashboardType, LoopType
  <2>4. CASE Click(w)
    BY <2>1, <2>2, <2>4 DEF Click, DashboardType
  <2>5. CASE Close(w)
    BY <2>1, <2>2, <2>5 DEF Close, Closed, DashboardType
  <2>6. CASE HandlerEnds(w)
    BY <2>1, <2>2, <2>6 DEF HandlerEnds, DashboardType
  <2>7. QED
    BY <1>2, <2>3, <2>4, <2>5, <2>6
<1>3. QED
  BY <1>1, <1>2 DEF Dashboard

-----------------------------------------------------------------------------
(* Theorems *)

LEMMA Invariance == Spec => []Inv
<1>1. Init => Inv
  BY InitInv
<1>2. ASSUME Inv, [Next]_vars PROVE Inv'
  <2>1. CASE UNCHANGED vars
    BY <1>2, <2>1 DEF vars, engineVars, relayVars, Inv, EngineType, WireType, LoopType,
                      DashboardType, OneConnection
  <2>2. QED
    BY <1>2, <2>1, EngineInv, LoopInv, DashboardInv DEF Next
<1>3. QED
  BY <1>1, <1>2, PTL DEF Spec

\* Every variable has its type, a connection holds no more than its buffers do,
\* and broadcast waits for a send exactly when it has a dashboard to send to.
THEOREM Typed == Spec => []TypeOK
<1>1. Inv => TypeOK
  BY DEF Inv, EngineType, WireType, LoopType, DashboardType, TypeOK
<1>2. QED
  BY <1>1, Invariance, PTL

\* When engine_reader_loop opens a connection, neither thread of handle_client
\* is left on an earlier one: its end shows only after both have gone.
THEOREM OneAtATime == Spec => []OneConnection
<1>1. Inv => OneConnection
  BY DEF Inv
<1>2. QED
  BY <1>1, Invariance, PTL

-----------------------------------------------------------------------------
(* Who reads the first KILL *)

\* A connection that was not accepted yet is in the listener's hands and has brought
\* nothing; on one that is open a thread reads, until it has set manual_kill.  And
\* no listener outlives its process.
Attended ==
  /\ conn = "backlog" => Listening /\ loop = "read" /\ toRelay = <<>>
  /\ conn = "open" /\ ~ manual => reader = "read"
  /\ up \/ alive = {}

KillInv == Attended /\ KillHasReader

(* A step that opens nothing: the reader stays, or manual_kill is set, or the KILL is gone. *)
LEMMA ReaderKept ==
  ASSUME KillInv, up' \/ alive' = {},
         conn' \in {"backlog", "open"} => conn' = conn,
         conn' = "backlog" => Listening' /\ loop' = "read" /\ toRelay' = <<>>,
         manual => manual' \/ (conn' # "open" /\ ~ killLine'),
         reader' = reader \/ manual' \/ (conn' # "open" /\ ~ killLine'),
         killLine' => killLine \/ conn' = "backlog" \/ (conn' = "open" /\ conn = "open"),
         conn = "backlog" => conn' = "backlog" \/ ~ killLine'
  PROVE  KillInv'
<1>1. Attended'
  BY DEF KillInv, Attended
<1>2. KillHasReader'
  BY DEF KillInv, Attended, KillHasReader
<1>3. QED
  BY <1>1, <1>2 DEF KillInv

LEMMA EngineKillInv ==
  ASSUME Inv, KillInv, Engine
  PROVE  KillInv'
<1>1. EngineNext /\ UNCHANGED relayVars /\ loop' = loop
  BY DEF Engine, relayVars
<1>2. conn = "backlog" => handler = "none" /\ reader = "none" /\ loop = "read" /\ toRelay = <<>>
                          /\ Listening
  BY DEF Inv, WireType, KillInv, Attended
<1>3. CASE Evaluate \/ PublishSnapshot \/ Elapse \/ HandlerLock \/ HandlerCopy
  <2>1. up' \/ alive' = {}
    BY <1>3 DEF Evaluate, PublishSnapshot, Elapse, HandlerLock, HandlerCopy, KillInv, Attended
  <2>2. UNCHANGED <<alive, manual, reader, conn, toRelay, killLine>>
    BY <1>3 DEF Evaluate, PublishSnapshot, Elapse, HandlerLock, HandlerCopy, serverVars, wireVars
  <2>3. QED
    BY <1>1, <2>1, <2>2 DEF KillInv, Attended, KillHasReader, Listening
<1>4. CASE Accept
  <2>1. conn' = "open" /\ reader' = "read" /\ UNCHANGED <<up, alive>>
    BY <1>4 DEF Accept
  <2>2. QED
    BY <2>1 DEF KillInv, Attended, KillHasReader
<1>5. CASE HandlerWrite
  <2>1. conn # "backlog" /\ UNCHANGED <<up, alive, manual, reader, conn, killLine>>
    BY <1>2, <1>5 DEF HandlerWrite
  <2>2. QED
    BY <2>1, ReaderKept DEF KillInv, Attended
<1>6. CASE HandlerLeaves
  <2>1. conn # "backlog" /\ UNCHANGED <<up, alive, manual, reader, killLine>>
    BY <1>2, <1>6 DEF HandlerLeaves
  <2>2. conn' = conn \/ conn' \in {"eof", "none"}
    BY <1>6 DEF HandlerLeaves, Gone
  <2>3. QED
    BY <2>1, <2>2, ReaderKept DEF KillInv, Attended
<1>7. CASE ReadKill
  <2>1. conn # "backlog" /\ manual' = TRUE /\ killLine' = FALSE /\ UNCHANGED <<up, alive>>
    BY <1>2, <1>7 DEF ReadKill
  <2>2. conn' = conn \/ conn' \in {"eof", "none"}
    BY <1>7 DEF ReadKill, Gone
  <2>3. QED
    BY <2>1, <2>2, ReaderKept DEF KillInv, Attended
<1>8. CASE ReadEof
  <2>1. conn = "hungup" /\ killLine' = FALSE /\ UNCHANGED <<up, alive, manual>>
    BY <1>8 DEF ReadEof, Inv, WireType
  <2>2. conn' \in {"hungup", "none"}
    BY <1>8, <2>1 DEF ReadEof, Gone
  <2>3. QED
    BY <2>1, <2>2, ReaderKept DEF KillInv, Attended
<1>9. CASE Exit \/ Crash
  <2>1. Die
    BY <1>9 DEF Exit, Crash
  <2>2. conn' \notin {"backlog", "open"} /\ killLine' = FALSE /\ alive' = {}
    BY <2>1 DEF Die
  <2>3. QED
    BY <2>2, ReaderKept
<1>10. CASE Restart
  <2>1. UNCHANGED <<manual, reader, conn, toRelay, killLine>>
    BY <1>10 DEF Restart, serverVars, wireVars
  <2>2. up' /\ conn # "backlog"
    BY <1>2, <1>10 DEF Restart, KillInv, Attended, Listening
  <2>3. QED
    BY <2>1, <2>2, ReaderKept DEF KillInv, Attended
<1>11. ASSUME NEW t \in alive, Leave(t)
       PROVE  KillInv'
  <2>1. UNCHANGED <<up, manual, reader, toRelay>> /\ alive' = alive \ {t}
    BY <1>11 DEF Leave, serverVars
  <2>2. CASE t = "ipc" /\ conn = "backlog"
    <3>1. conn' = "eof" /\ killLine' = FALSE
      BY <1>11, <2>2 DEF Leave
    <3>2. QED
      BY <2>1, <3>1, ReaderKept DEF KillInv, Attended
  <2>3. CASE ~ (t = "ipc" /\ conn = "backlog")
    <3>1. conn' = conn /\ (killLine' => killLine)
      BY <1>11, <2>3 DEF Leave
    <3>2. conn' = "backlog" => Listening'
      BY <1>2, <2>1, <2>3, <3>1 DEF Listening
    <3>3. QED
      BY <1>1, <1>2, <2>1, <3>1, <3>2, ReaderKept DEF KillInv, Attended
  <2>4. QED
    BY <2>2, <2>3
<1>12. QED
  BY <1>1, <1>3, <1>4, <1>5, <1>6, <1>7, <1>8, <1>9, <1>10, <1>11 DEF EngineNext

LEMMA LoopKillInv ==
  ASSUME Inv, KillInv, ReaderLoop
  PROVE  KillInv'
<1>1. CASE Connect
  <2>1. conn' = "backlog" /\ toRelay' = <<>> /\ killLine' = FALSE /\ loop' = "read" /\ Listening'
        /\ UNCHANGED <<up, alive>>
    BY <1>1 DEF Connect, EngineAlone, Listening
  <2>2. QED
    BY <2>1 DEF KillInv, Attended, KillHasReader
<1>2. CASE Refused \/ Wake
  <2>1. UNCHANGED <<up, alive, manual, reader, conn, toRelay, killLine>> /\ loop \in {"connect", "sleep"}
    BY <1>2 DEF Refused, Wake, engineVars
  <2>2. conn # "backlog"
    BY <2>1 DEF Inv, OneConnection
  <2>3. QED
    BY <2>1, <2>2, ReaderKept DEF KillInv, Attended
<1>3. CASE ReadLine
  <2>1. UNCHANGED <<up, alive, manual, reader, conn, killLine>> /\ toRelay # <<>>
    BY <1>3 DEF ReadLine, EngineAlone, serverVars
  <2>2. conn # "backlog"
    BY <2>1 DEF KillInv, Attended
  <2>3. QED
    BY <2>1, <2>2, ReaderKept DEF KillInv, Attended
<1>4. CASE Eof
  <2>1. UNCHANGED <<up, alive, manual, reader, killLine>> /\ conn = "eof" /\ conn' = "none"
    BY <1>4 DEF Eof, EngineAlone, serverVars
  <2>2. QED
    BY <2>1, ReaderKept DEF KillInv, Attended
<1>5. CASE (\E w \in Sockets : NextClient(w)) \/ Sent \/ BroadcastDone
  <2>1. UNCHANGED <<up, alive, manual, reader, conn, toRelay, killLine>> /\ loop \in {"iterate", "send"}
    BY <1>5 DEF NextClient, Sent, BroadcastDone, engineVars
  <2>2. conn # "backlog"
    BY <2>1 DEF KillInv, Attended
  <2>3. QED
    BY <2>1, <2>2, ReaderKept DEF KillInv, Attended
<1>6. CASE SetChanged
  <2>1. UNCHANGED <<up, alive, manual, reader, killLine>> /\ loop = "iterate"
    BY <1>6 DEF SetChanged, EngineAlone, serverVars
  <2>2. conn # "backlog" /\ (conn' = conn \/ conn' \in {"none", "hungup"})
    BY <1>6, <2>1 DEF SetChanged, KillInv, Attended
  <2>3. QED
    BY <2>1, <2>2, ReaderKept DEF KillInv, Attended
<1>7. QED
  BY <1>1, <1>2, <1>3, <1>4, <1>5, <1>6 DEF ReaderLoop

LEMMA DashboardKillInv ==
  ASSUME Inv, KillInv, NEW w \in Sockets, Dashboard(w)
  PROVE  KillInv'
<1>1. UNCHANGED <<up, alive, manual, reader, conn, toRelay, loop>>
  BY DEF Dashboard, Open, Click, Forward, Close, HandlerEnds, EngineAlone, engineVars,
         serverVars, loopVars
<1>2. killLine' => killLine \/ conn \in {"backlog", "open"}
  BY DEF Dashboard, Open, Click, Forward, Close, HandlerEnds, engineVars
<1>3. QED
  BY <1>1, <1>2 DEF KillInv, Attended, KillHasReader, Listening

\* The KILL that has not set manual_kill yet is on a connection that a thread reads,
\* or that the listener is about to give one: neither the end of the other thread, nor
\* the relay's own end, nor a shutdown of the listener leaves it lying there.
THEOREM KillIsRead == Spec => []KillHasReader
<1>1. Init => KillInv
  BY DEF Init, EngineInit, KillInv, Attended, KillHasReader
<1>2. ASSUME Inv, KillInv, [Next]_vars PROVE KillInv'
  <2>1. CASE UNCHANGED vars
    BY <1>2, <2>1 DEF vars, engineVars, relayVars, KillInv, Attended, KillHasReader, Listening
  <2>2. QED
    BY <1>2, <2>1, EngineKillInv, LoopKillInv, DashboardKillInv DEF Next
<1>3. KillInv => KillHasReader
  BY DEF KillInv
<1>4. QED
  BY <1>1, <1>2, <1>3, Invariance, PTL DEF Spec

-----------------------------------------------------------------------------
(* Whom a broadcast meets *)

\* An open dashboard is one that broadcasts meet: no end of another client, late
\* discard or failed send takes it out of the set.
NobodyForgotten == \A w \in Sockets : ws[w] = "open" => w \in clients /\ w \in serving

\* What the relay means to discard is closed, and what it knows has been opened.
Served ==
  /\ NobodyForgotten
  /\ \A w \in stale : ws[w] = "closed"
  /\ \A w \in clients \cup todo \cup serving : ws[w] # "new"
  /\ current # None => ws[current] # "new"

(* A step that touches neither the dashboards nor the iteration. *)
LEMMA ServedAlone ==
  ASSUME Served, UNCHANGED <<clients, serving, ws, todo, current, stale>>
  PROVE  Served'
  BY DEF Served, NobodyForgotten

LEMMA LoopServed ==
  ASSUME Inv, Served, ReaderLoop
  PROVE  Served'
<1>1. CASE Connect \/ Refused \/ Wake \/ Eof
  BY <1>1, ServedAlone DEF Connect, Refused, Wake, Eof, broadcastVars, dashboardVars
<1>2. CASE ReadLine
  <2>1. UNCHANGED <<clients, serving, ws, current>>
        /\ \/ UNCHANGED <<todo, stale>>
           \/ todo' = clients /\ stale' = {}
    BY <1>2 DEF ReadLine, broadcastVars, dashboardVars
  <2>2. QED
    BY <2>1 DEF Served, NobodyForgotten
<1>3. ASSUME NEW w \in Sockets, NextClient(w) PROVE Served'
  BY <1>3 DEF NextClient, dashboardVars, Served, NobodyForgotten
<1>4. CASE Sent
  <2>1. current \in Sockets /\ ws[current] \in {"new", "open", "closed"} /\ current # None
    BY <1>4, MonitorAssumption DEF Sent, Inv, LoopType, DashboardType, None
  <2>2. ws[current] # "open" => ws[current] = "closed"
    BY <2>1 DEF Served
  <2>3. UNCHANGED <<clients, serving, ws, todo>> /\ current' = None
        /\ (stale' = stale \/ (ws[current] # "open" /\ stale' = stale \cup {current}))
    BY <1>4 DEF Sent
  <2>4. QED
    BY <2>2, <2>3 DEF Served, NobodyForgotten
<1>5. CASE BroadcastDone
  <2>1. UNCHANGED <<serving, ws, current>> /\ clients' = clients \ stale
        /\ todo' = {} /\ stale' = {}
    BY <1>5 DEF BroadcastDone
  <2>2. QED
    BY <2>1 DEF Served, NobodyForgotten
<1>6. CASE SetChanged
  BY <1>6 DEF SetChanged, dashboardVars, Served, NobodyForgotten
<1>7. QED
  BY <1>1, <1>2, <1>3, <1>4, <1>5, <1>6 DEF ReaderLoop

LEMMA DashboardServed ==
  ASSUME Inv, Served, NEW w \in Sockets, Dashboard(w)
  PROVE  Served'
<1>0. ws \in [Sockets -> {"new", "open", "closed"}] /\ (current # None => current \in Sockets)
      /\ clients \subseteq Sockets /\ todo \subseteq Sockets /\ stale \subseteq Sockets
      /\ serving \subseteq Sockets
  BY DEF Inv, DashboardType, LoopType
<1>1. CASE Open(w)
  <2>1. /\ ws[w] = "new" /\ ws' = [ws EXCEPT ![w] = "open"]
        /\ serving' = serving \cup {w} /\ clients' = clients \cup {w}
        /\ todo' \subseteq todo \cup {w} /\ UNCHANGED <<current, stale>>
    BY <1>1 DEF Open
  <2>2. QED
    BY <1>0, <2>1 DEF Served, NobodyForgotten
<1>2. CASE Click(w)
  BY <1>2, ServedAlone DEF Click, loopVars, broadcastVars
<1>3. CASE Forward(w) \/ Close(w)
  <2>1. UNCHANGED <<clients, serving, todo, current, stale>>
        /\ (ws' = ws \/ ws' = [ws EXCEPT ![w] = "closed"])
    BY <1>3 DEF Forward, Close, Closed, loopVars, broadcastVars
  <2>2. QED
    BY <1>0, <2>1 DEF Served, NobodyForgotten
<1>4. CASE HandlerEnds(w)
  <2>1. /\ ws[w] = "closed" /\ serving' = serving \ {w} /\ clients' = clients \ {w}
        /\ UNCHANGED <<ws, todo, current, stale>>
    BY <1>4 DEF HandlerEnds, loopVars, broadcastVars
  <2>2. QED
    BY <2>1 DEF Served, NobodyForgotten
<1>5. QED
  BY <1>1, <1>2, <1>3, <1>4 DEF Dashboard

\* An open dashboard stays in dashboard_clients and keeps its handle_dashboard: the
\* discards of a broadcast, which come after its last await, hit closed ones only.
THEOREM NobodyIsForgotten == Spec => []NobodyForgotten
<1>1. Init => Served
  <2>1. ASSUME Init, NEW w \in Sockets PROVE ws[w] = "new"
    BY <2>1 DEF Init
  <2>2. QED
    BY <2>1 DEF Init, Served, NobodyForgotten
<1>2. ASSUME Inv, Served, [Next]_vars PROVE Served'
  <2>1. CASE UNCHANGED vars \/ Engine
    BY <1>2, <2>1, ServedAlone DEF vars, Engine, relayVars
  <2>2. QED
    BY <1>2, <2>1, LoopServed, DashboardServed DEF Next
<1>3. Served => NobodyForgotten
  BY DEF Served
<1>4. QED
  BY <1>1, <1>2, <1>3, Invariance, PTL DEF Spec
=============================================================================
