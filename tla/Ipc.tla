---------------------------------- MODULE Ipc ----------------------------------
(***************************************************************************)
(* The engine process as seen from the monitor: the wiring of main.rs      *)
(* (threads, the shutdown flag, the joins), the manual kill, the snapshot  *)
(* under its mutex, and the TCP server of ipc.rs with the two threads it   *)
(* starts for a connection.                                                *)
(*                                                                         *)
(* Of a snapshot only the flag killed is kept.  The monitor has one        *)
(* connection at a time, because the only client is the relay and it opens *)
(* another only after it has seen the end of the last one.                 *)
(***************************************************************************)
EXTENDS Naturals, Sequences

CONSTANTS
  PipeSize,    \* bound: the snapshots a connection buffers before a write blocks
  MaxRestarts  \* bound: how often the engine is started again

ASSUME IpcAssumption == PipeSize \in Nat \ {0} /\ MaxRestarts \in Nat

VARIABLES
  up,        \* the process exists
  shutdown,  \* shutdown
  alive,     \* the threads that have not returned
  manual,    \* manual_kill
  killed,    \* KillSwitch.triggered.is_some()
  tick,      \* the strategy: at the top of its loop, or about to publish
  lock,      \* the snapshot's mutex is held by handle_client
  snap,      \* the snapshot
  handler,   \* handle_client's writer
  payload,   \* its copy of the snapshot
  reader,    \* handle_client's reader
  conn,      \* the connection
  toRelay,   \* the snapshots on the connection
  killLine,  \* a line KILL is on the connection
  restarts   \* bound: the restarts so far

serverVars == <<lock, handler, payload, reader>>
wireVars == <<conn, toRelay, killLine>>
engineVars == <<up, shutdown, alive, manual, killed, tick, lock, snap, handler, payload,
                reader, conn, toRelay, killLine, restarts>>

\* The matching engine is not listed: it only runs, and stops like the feed handler.
Threads == {"feed", "strategy", "ipc"}

\* Threads that may end as soon as they start: both sockets may be taken.
Binding == {"feed", "ipc"}

\* What a snapshot says of the kill switch.
Status(isKilled) == IF isKilled THEN "killed" ELSE "live"
Snapshots == {"live", "killed"}

EngineInit ==
  /\ up = TRUE /\ shutdown = FALSE
  /\ \E unbound \in SUBSET Binding : alive = Threads \ unbound
  /\ manual = FALSE /\ killed = FALSE /\ tick = "top"
  /\ lock = FALSE /\ snap = "live"
  /\ handler = "none" /\ payload = "none" /\ reader = "none"
  /\ conn = "none" /\ toRelay = <<>> /\ killLine = FALSE
  /\ restarts = 0

-----------------------------------------------------------------------------
(* The strategy *)

\* Evaluate the switch: no limit is breached here (Strategy has the other reasons).
Evaluate ==
  /\ "strategy" \in alive /\ tick = "top" /\ ~ shutdown
  /\ killed' = (killed \/ manual)
  /\ tick' = "publish"
  /\ UNCHANGED <<up, shutdown, alive, manual, snap, serverVars, wireVars, restarts>>

\* Mutant: nothing is published any more once the switch has tripped.
PublishWhileTrading ==
  /\ "strategy" \in alive /\ tick = "publish" /\ ~ lock
  /\ snap' = IF killed THEN snap ELSE "live"
  /\ tick' = "top"
  /\ UNCHANGED <<up, shutdown, alive, manual, killed, serverVars, wireVars, restarts>>

\* *snapshot.lock() = snap
PublishSnapshot ==
  /\ "strategy" \in alive /\ tick = "publish" /\ ~ lock
  /\ snap' = Status(killed)
  /\ tick' = "top"
  /\ UNCHANGED <<up, shutdown, alive, manual, killed, serverVars, wireVars, restarts>>

-----------------------------------------------------------------------------
(* The monitor server *)

\* The listener is bound from the start of run_server to its return.
Listening == "ipc" \in alive

\* accept, and the two threads of handle_client.
Accept ==
  /\ Listening /\ conn = "backlog"
  /\ conn' = "open" /\ handler' = "top" /\ reader' = "read"
  /\ UNCHANGED <<up, shutdown, alive, manual, killed, tick, lock, snap, payload,
                 toRelay, killLine, restarts>>

\* Mutant: the writer closes the connection under the reader.
WriterCloses(h, r) ==
  IF h # "none" THEN conn ELSE IF conn = "open" THEN "eof" ELSE "none"

\* When the last of the two threads has gone, the engine's end is closed.
Gone(h, r) ==
  IF h # "none" \/ r # "none" THEN conn
  ELSE IF conn = "open" THEN "eof" ELSE "none"

HandlerLock ==
  /\ handler = "top" /\ ~ shutdown
  /\ lock' = TRUE /\ handler' = "locked"
  /\ UNCHANGED <<up, shutdown, alive, manual, killed, tick, snap, payload, reader,
                 wireVars, restarts>>

\* Mutant: the guard is still held while the payload is written.
CopyAndWrite ==
  /\ handler = "locked" /\ (conn = "open" => Len(toRelay) < PipeSize)
  /\ toRelay' = IF conn = "open" THEN Append(toRelay, snap) ELSE toRelay
  /\ lock' = FALSE /\ handler' = "top"
  /\ UNCHANGED <<up, shutdown, alive, manual, killed, tick, snap, payload, reader,
                 conn, killLine, restarts>>

\* The end of the block: the guard is dropped before anything is written.
HandlerCopy ==
  /\ handler = "locked"
  /\ payload' = snap /\ lock' = FALSE /\ handler' = "write"
  /\ UNCHANGED <<up, shutdown, alive, manual, killed, tick, snap, reader,
                 wireVars, restarts>>

\* Mutant: the writes do not block.
WriteWithoutBlocking ==
  /\ handler = "write" /\ conn \in {"open", "hungup"}
  /\ toRelay' = IF conn = "open" THEN Append(toRelay, payload) ELSE toRelay
  /\ handler' = "top" /\ payload' = "none"
  /\ UNCHANGED <<up, shutdown, alive, manual, killed, tick, lock, snap, reader,
                 conn, killLine, restarts>>

\* Both write_all: they block while the buffers are full; on a connection the
\* other side has closed the first may still seem to succeed.
HandlerWrite ==
  /\ handler = "write" /\ conn \in {"open", "hungup"}
  /\ IF conn = "open"
     THEN Len(toRelay) < PipeSize /\ toRelay' = Append(toRelay, payload)
     ELSE UNCHANGED toRelay
  /\ handler' = "top" /\ payload' = "none"
  /\ UNCHANGED <<up, shutdown, alive, manual, killed, tick, lock, snap, reader,
                 conn, killLine, restarts>>

HandlerLeaves ==
  /\ \/ handler = "top" /\ shutdown
     \/ handler = "write" /\ conn = "hungup"
  /\ handler' = "none" /\ payload' = "none" /\ conn' = Gone("none", reader)
  /\ UNCHANGED <<up, shutdown, alive, manual, killed, tick, lock, snap, reader,
                 toRelay, killLine, restarts>>

\* Mutant: the line is compared with its newline.
ReadUntrimmed ==
  /\ reader = "read" /\ killLine
  /\ killLine' = FALSE
  /\ reader' = (IF shutdown THEN "none" ELSE "read") /\ conn' = Gone(handler, reader')
  /\ UNCHANGED <<up, shutdown, alive, manual, killed, tick, lock, snap, handler, payload,
                 toRelay, restarts>>

\* A line KILL; shutdown is looked at only after a line has come.
ReadKill ==
  /\ reader = "read" /\ killLine
  /\ manual' = TRUE /\ killLine' = FALSE
  /\ reader' = (IF shutdown THEN "none" ELSE "read") /\ conn' = Gone(handler, reader')
  /\ UNCHANGED <<up, shutdown, alive, killed, tick, lock, snap, handler, payload,
                 toRelay, restarts>>

\* Mutant: a closed connection is given up without reading what is left on it.
CloseUnread ==
  /\ reader = "read" /\ conn = "hungup"
  /\ reader' = "none" /\ conn' = Gone(handler, "none")
  /\ UNCHANGED <<up, shutdown, alive, manual, killed, tick, lock, snap, handler, payload,
                 toRelay, killLine, restarts>>

\* Ok(0): the client disconnected.
ReadEof ==
  /\ reader = "read" /\ conn = "hungup" /\ ~ killLine
  /\ reader' = "none" /\ conn' = Gone(handler, "none")
  /\ UNCHANGED <<up, shutdown, alive, manual, killed, tick, lock, snap, handler, payload,
                 toRelay, killLine, restarts>>

-----------------------------------------------------------------------------
(* The process *)

\* The main thread has slept for --duration and goes on to the joins; without
\* that option it waits in the first join as if the time never elapsed.
Elapse ==
  /\ up /\ ~ shutdown
  /\ shutdown' = TRUE
  /\ UNCHANGED <<up, alive, manual, killed, tick, snap, serverVars, wireVars, restarts>>

\* A thread sees the flag at the top of its loop; each has a wait that ends.
\* The listener takes a connection nobody accepted with it.
Leave(t) ==
  /\ t \in alive /\ shutdown /\ (t = "strategy" => tick = "top")
  /\ alive' = alive \ {t}
  /\ conn' = IF t = "ipc" /\ conn = "backlog" THEN "eof" ELSE conn
  /\ killLine' = (killLine /\ conn' # "eof")
  /\ UNCHANGED <<up, shutdown, manual, killed, tick, snap, serverVars, toRelay, restarts>>

\* The process is gone, with its threads, its memory (here it gets the values a
\* start would give it) and its end of the connection.
Die ==
  /\ up' = FALSE /\ alive' = {} /\ lock' = FALSE
  /\ shutdown' = FALSE /\ manual' = FALSE /\ killed' = FALSE
  /\ tick' = "top" /\ snap' = "live"
  /\ handler' = "none" /\ reader' = "none" /\ payload' = "none"
  /\ conn' = CASE conn \in {"backlog", "open"} -> "eof" [] conn = "hungup" -> "none" [] OTHER -> conn
  /\ killLine' = FALSE
  /\ UNCHANGED <<toRelay, restarts>>

\* Mutant: the threads of the connections are joined too.
JoinsHandlers == up /\ alive = {} /\ handler = "none" /\ reader = "none" /\ Die

\* The four joins have returned, and main returns: the threads of the connections
\* do not survive it.
Exit == up /\ alive = {} /\ Die

\* Ctrl+C, or the trap of run.sh, at any moment.
Crash == up /\ Die

Restart ==
  /\ ~ up /\ restarts < MaxRestarts
  /\ restarts' = restarts + 1
  /\ up' = TRUE
  /\ \E unbound \in SUBSET Binding : alive' = Threads \ unbound
  /\ UNCHANGED <<shutdown, manual, killed, tick, snap, serverVars, wireVars>>

EngineNext ==
  \/ Evaluate \/ PublishSnapshot
  \/ Accept \/ HandlerLock \/ HandlerCopy \/ HandlerWrite \/ HandlerLeaves
  \/ ReadKill \/ ReadEof
  \/ Elapse \/ Exit \/ Crash \/ Restart
  \/ \E t \in alive : Leave(t)

\* Every thread keeps running.  The handler sleeps 50 ms without the mutex
\* between two copies, so the strategy gets it; nothing makes the time elapse.
EngineFairness ==
  /\ WF_engineVars(Evaluate) /\ SF_engineVars(PublishSnapshot)
  /\ WF_engineVars(Accept)
  /\ WF_engineVars(HandlerLock \/ HandlerCopy \/ HandlerWrite \/ HandlerLeaves)
  /\ WF_engineVars(ReadKill \/ ReadEof)
  /\ WF_engineVars(\E t \in alive : Leave(t))
  /\ WF_engineVars(Exit)
=============================================================================
