-------------------------------- MODULE Monitor --------------------------------
(***************************************************************************)
(* The way of the kill switch through three processes: the engine (Ipc),   *)
(* monitor/relay.py, and the dashboards in their browsers.                 *)
(*                                                                         *)
(* The relay runs its tasks one at a time; a task gives way only at an     *)
(* await.  So one action is what a task does between two of them:          *)
(* engine_reader_loop waits in open_connection, readline, the sleep and,   *)
(* within broadcast, in ws.send; handle_dashboard waits for a message.     *)
(***************************************************************************)
EXTENDS Ipc, FiniteSets

CONSTANT Sockets  \* bound: the dashboards' WebSocket connections; one is used once

\* They are finitely many, and each is something.
ASSUME MonitorAssumption == IsFiniteSet(Sockets) /\ "none" \notin Sockets

VARIABLES
  loop,          \* where engine_reader_loop waits, or what broadcast is about to do
  engineWriter,  \* engine_writer is not None
  latest,        \* latest_snapshot
  clients,       \* dashboard_clients
  todo, size,    \* the iteration of broadcast: what is left, the set's size at its start
  current,       \* the send it waits for
  stale,         \* stale
  serving,       \* the handle_dashboard tasks that run
  ws,            \* the connections
  click,         \* a message KILL is on its way from this dashboard
  shown          \* the last snapshot the dashboard received

broadcastVars == <<todo, size, current, stale>>
loopVars == <<loop, engineWriter, latest, broadcastVars>>
dashboardVars == <<clients, serving, ws, click, shown>>
relayVars == <<loop, engineWriter, latest, clients, todo, size, current, stale, serving, ws, click, shown>>
vars == <<engineVars, relayVars>>

\* None: no snapshot, no send.
None == "none"

Init ==
  /\ EngineInit
  /\ loop = "connect" /\ engineWriter = FALSE /\ latest = None
  /\ clients = {} /\ todo = {} /\ size = 0 /\ current = None /\ stale = {}
  /\ serving = {} /\ ws = [w \in Sockets |-> "new"]
  /\ click = [w \in Sockets |-> FALSE] /\ shown = [w \in Sockets |-> None]

\* What the relay does leaves all of the engine alone but the connection.
EngineAlone ==
  UNCHANGED <<up, shutdown, alive, manual, killed, tick, snap, serverVars, restarts>>

-----------------------------------------------------------------------------
(* engine_reader_loop *)

\* open_connection succeeds as soon as the kernel has queued the connection.
Connect ==
  /\ loop = "connect" /\ Listening
  /\ conn' = "backlog" /\ toRelay' = <<>> /\ killLine' = FALSE
  /\ engineWriter' = TRUE /\ loop' = "read"
  /\ EngineAlone /\ UNCHANGED <<latest, broadcastVars, dashboardVars>>

Refused ==
  /\ loop = "connect" /\ ~ Listening
  /\ loop' = "sleep"
  /\ UNCHANGED <<engineVars, engineWriter, latest, broadcastVars, dashboardVars>>

Wake ==
  /\ loop = "sleep"
  /\ loop' = "connect"
  /\ UNCHANGED <<engineVars, engineWriter, latest, broadcastVars, dashboardVars>>

\* readline returns a snapshot; broadcast returns at once if nobody listens.
ReadLine ==
  /\ loop = "read" /\ toRelay # <<>>
  /\ latest' = Head(toRelay) /\ toRelay' = Tail(toRelay)
  /\ IF clients = {}
     THEN UNCHANGED <<loop, broadcastVars>>
     ELSE /\ loop' = "iterate"
          /\ todo' = clients /\ size' = Cardinality(clients) /\ stale' = {}
          /\ UNCHANGED current
  /\ EngineAlone /\ UNCHANGED <<conn, killLine, engineWriter, dashboardVars>>

\* readline returns nothing or raises OSError; what was unread may be lost.
Eof ==
  /\ loop = "read" /\ conn = "eof"
  /\ conn' = "none" /\ toRelay' = <<>>
  /\ engineWriter' = FALSE /\ loop' = "sleep"
  /\ EngineAlone /\ UNCHANGED <<killLine, latest, broadcastVars, dashboardVars>>

\* for ws in dashboard_clients: the iterator checks the size at every turn.
SameSize == Cardinality(clients) = size

\* The next client; ws.send may have to wait for a slow one.
NextClient(w) ==
  /\ loop = "iterate" /\ SameSize /\ w \in todo \cap clients
  /\ todo' = todo \ {w} /\ current' = w /\ loop' = "send"
  /\ UNCHANGED <<engineVars, engineWriter, latest, size, stale, dashboardVars>>

\* ws.send returns, or raises ConnectionClosed.
Sent ==
  /\ loop = "send"
  /\ IF ws[current] = "open"
     THEN shown' = [shown EXCEPT ![current] = latest] /\ UNCHANGED stale
     ELSE stale' = stale \cup {current} /\ UNCHANGED shown
  /\ current' = None /\ loop' = "iterate"
  /\ UNCHANGED <<engineVars, engineWriter, latest, todo, size, clients, serving, ws, click>>

\* The loop is over; the closed ones are discarded.
BroadcastDone ==
  /\ loop = "iterate" /\ SameSize /\ todo \cap clients = {}
  /\ clients' = clients \ stale
  /\ todo' = {} /\ size' = 0 /\ stale' = {} /\ loop' = "read"
  /\ UNCHANGED <<engineVars, engineWriter, latest, current, serving, ws, click, shown>>

\* RuntimeError: Set changed size during iteration.  Only finally handles it, and
\* the task ends; its connection is closed when it is collected, if it is.
SetChanged ==
  /\ loop = "iterate" /\ ~ SameSize
  /\ engineWriter' = FALSE /\ loop' = "dead"
  /\ todo' = {} /\ size' = 0 /\ stale' = {}
  /\ \/ UNCHANGED <<conn, toRelay>>
     \/ /\ conn' = IF conn = "eof" THEN "none" ELSE "hungup"
        /\ toRelay' = <<>>
  /\ EngineAlone /\ UNCHANGED <<killLine, latest, current, dashboardVars>>

-----------------------------------------------------------------------------
(* handle_dashboard, and the dashboard it serves *)

\* A browser connects and is sent the latest snapshot.  A client that joins
\* during a broadcast may or may not be met by the iteration.
Open(w) ==
  /\ ws[w] = "new"
  /\ ws' = [ws EXCEPT ![w] = "open"] /\ serving' = serving \cup {w}
  /\ clients' = clients \cup {w}
  /\ shown' = [shown EXCEPT ![w] = latest]
  /\ \/ UNCHANGED todo
     \/ loop \in {"iterate", "send"} /\ todo' = todo \cup {w}
  /\ UNCHANGED <<engineVars, loop, engineWriter, latest, size, current, stale, click>>

\* The button is disabled while the dashboard shows a tripped switch.
Click(w) ==
  /\ ws[w] = "open" /\ shown[w] # "killed"
  /\ click' = [click EXCEPT ![w] = TRUE]
  /\ UNCHANGED <<engineVars, loopVars, clients, serving, ws, shown>>

\* The end of a connection; nothing is shown any more.
Closed(w) == ws' = [ws EXCEPT ![w] = "closed"] /\ shown' = [shown EXCEPT ![w] = None]

\* A message KILL: it is written if there is a connection.  Written after the
\* engine has closed its end it is lost, and drain() may raise, which closes ws.
Forward(w) ==
  /\ w \in serving /\ click[w]
  /\ click' = [click EXCEPT ![w] = FALSE]
  /\ killLine' = (killLine \/ (engineWriter /\ conn \in {"backlog", "open"}))
  /\ \/ UNCHANGED <<ws, shown>>
     \/ engineWriter /\ conn = "eof" /\ Closed(w)
  /\ EngineAlone /\ UNCHANGED <<conn, toRelay, loopVars, clients, serving>>

\* The browser goes away.
Close(w) ==
  /\ ws[w] = "open"
  /\ Closed(w)
  /\ UNCHANGED <<engineVars, loopVars, clients, serving, click>>

\* The end of async for, and finally.
HandlerEnds(w) ==
  /\ w \in serving /\ ws[w] = "closed"
  /\ serving' = serving \ {w} /\ clients' = clients \ {w}
  /\ click' = [click EXCEPT ![w] = FALSE]
  /\ UNCHANGED <<engineVars, loopVars, ws, shown>>

-----------------------------------------------------------------------------
(* The specification *)

Engine == EngineNext /\ UNCHANGED relayVars

ReaderLoop ==
  \/ Connect \/ Refused \/ Wake \/ ReadLine \/ Eof
  \/ (\E w \in Sockets : NextClient(w))
  \/ Sent \/ BroadcastDone \/ SetChanged

Dashboard(w) == Open(w) \/ Click(w) \/ Forward(w) \/ Close(w) \/ HandlerEnds(w)

Next == Engine \/ ReaderLoop \/ \E w \in Sockets : Dashboard(w)

\* The tasks of the relay keep running: a send to a client that no longer reads is
\* ended by the keepalive.  What people do is not fair.
Spec ==
  /\ Init /\ [][Next]_vars /\ EngineFairness
  /\ WF_vars(ReaderLoop)
  /\ \A w \in Sockets : WF_vars(Forward(w)) /\ WF_vars(HandlerEnds(w))

-----------------------------------------------------------------------------
(* Properties *)

\* Every variable has its type, and the connection its capacity.
TypeOK ==
  /\ up \in BOOLEAN /\ shutdown \in BOOLEAN
  /\ alive \subseteq Threads
  /\ manual \in BOOLEAN /\ killed \in BOOLEAN /\ tick \in {"top", "publish"}
  /\ lock \in BOOLEAN /\ snap \in Snapshots /\ payload \in Snapshots \cup {None}
  /\ handler \in {"none", "top", "locked", "write"} /\ reader \in {"none", "read"}
  /\ conn \in {"none", "backlog", "open", "eof", "hungup"}
  /\ toRelay \in Seq(Snapshots) /\ Len(toRelay) <= PipeSize
  /\ killLine \in BOOLEAN /\ restarts \in 0..MaxRestarts
  /\ loop \in {"connect", "read", "iterate", "send", "sleep", "dead"}
  /\ engineWriter \in BOOLEAN /\ latest \in Snapshots \cup {None}
  /\ clients \subseteq Sockets /\ todo \subseteq Sockets /\ stale \subseteq Sockets
  /\ size \in 0..Cardinality(Sockets) /\ current \in Sockets \cup {None}
  /\ (loop = "send") <=> (current # None)
  /\ serving \subseteq Sockets /\ ws \in [Sockets -> {"new", "open", "closed"}]
  /\ click \in [Sockets -> BOOLEAN] /\ shown \in [Sockets -> Snapshots \cup {None}]

\* When the relay opens a connection, no thread of the engine serves an earlier
\* one: there is one monitor at a time, and each KILL has one reader.
OneConnection ==
  loop \in {"connect", "sleep"} => conn = "none" /\ handler = "none" /\ reader = "none"

\* "It has zero effect on the strategy": however the monitor lags, hangs or dies,
\* and with its connection full, the strategy gets the snapshot's mutex and goes on.
StrategyNeverWaits == tick = "publish" /\ "strategy" \in alive ~> tick = "top" \/ ~ up

\* --duration ends the process: no join waits for a thread that waits for a client,
\* and a thread that never bound its socket is joined as well.
EngineStops == shutdown ~> ~ up

\* The first KILL on the connection never lies there with nobody to read it: a thread
\* reads the connection, or the listener that will start one is there.
KillHasReader == killLine /\ ~ manual => reader = "read" \/ (conn = "backlog" /\ Listening)

\* A KILL the relay has put on a connection the server accepted, or will, trips
\* the switch, whatever the monitor does next.
KillTakesEffect == killLine ~> killed \/ ~ up

\* The dashboard of an open connection, while the processes behind it run.
Watching(w) ==
  /\ w \in clients /\ ws[w] = "open" /\ loop # "dead"
  /\ Listening /\ ~ shutdown

\* A dashboard comes to show what the switch is: not for ever the state before
\* it tripped, nor that of an engine that has been started again since.
ScreenCatchesUp ==
  \A w \in Sockets, isKilled \in BOOLEAN :
    Watching(w) /\ killed = isKilled
      ~> ~ Watching(w) \/ killed # isKilled \/ shown[w] = Status(isKilled)

\* engine_reader_loop: "Maintains a connection to the engine [...] Reconnects
\* automatically if the engine isn't up yet or restarts."
Reconnects == []<>(Listening => engineWriter)
=============================================================================
