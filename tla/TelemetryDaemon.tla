--------------------------- MODULE TelemetryDaemon ---------------------------
(***************************************************************************)
(* The telemetry daemon (py/telemetry_entry.py): a TCP service whose       *)
(* clients' data goes to every WebSocket client, and a WebSocket service   *)
(* whose clients' commands go to every TCP client, through two streams;    *)
(* the services' start and stop (ServiceManager, Daemon, TelemetryService, *)
(* TcpTelemetryService, WebsocketService).                                 *)
(*                                                                         *)
(* Threads: the main thread, the acceptor (serve_forever), a handler for   *)
(* each TCP client, and the event loop, in which all WebSocket handlers    *)
(* run one at a time.  A TCP client's name in the command stream and a     *)
(* WebSocket client's in the telemetry stream are the client itself: they  *)
(* are made of its address, and one that has left may be met again when no *)
(* write is at its output any more.                                        *)
(***************************************************************************)
EXTENDS StreamManager

CONSTANTS
  TcpClients,      (* connections to the data service, one at a time each  *)
  WsClients,       (* connections to the WebSocket service, likewise       *)
  Loop             (* the event loop, as the publisher of commands         *)

ASSUME DaemonAssumption ==
  /\ TcpClients \intersect WsClients = {}
  /\ Loop \notin TcpClients \union WsClients
  /\ NoOutput \notin TcpClients \union WsClients
  /\ IsFiniteSet(TcpClients) /\ IsFiniteSet(WsClients)

VARIABLES
  main,            (* where the main thread is                             *)
  telemetry_shutdown_request,
  acceptor,        (* the thread in serve_forever                          *)
  shutdown_asked,  (* server.shutdown() has been called                    *)
  loop,            (* the event loop's thread                              *)
  stop_queued,     (* loop.stop is among the loop's callbacks              *)
  tcp,             (* where each TCP client's handler is                   *)
  ws,              (* where each WebSocket client's handler is             *)
  speaker,         (* whose command the loop forwarded last                *)
  it,              (* the iterator of each publisher's write               *)
  telemetry_stream, command_stream

mainVars   == <<main, telemetry_shutdown_request, shutdown_asked, stop_queued>>
threads    == <<acceptor, loop>>
clients    == <<tcp, ws, speaker>>
streams    == <<telemetry_stream, command_stream>>
daemonVars == <<mainVars, threads, clients, it, streams>>

Init ==
  /\ main = "start_data"
  /\ telemetry_shutdown_request = FALSE
  /\ acceptor = "new"
  /\ shutdown_asked = FALSE
  /\ loop = "new"
  /\ stop_queued = FALSE
  /\ tcp = [c \in TcpClients |-> "absent"]
  /\ ws = [w \in WsClients |-> "absent"]
  /\ speaker = NoOutput
  /\ it = [p \in TcpClients \union {Loop} |-> NoIterator]
  /\ telemetry_stream = NewStream(WsClients)
  /\ command_stream = NewStream(TcpClients)

-----------------------------------------------------------------------------
(***************************************************************************)
(* The main thread: manager.run_forever.  Each service is started once, so *)
(* start never refuses.                                                    *)
(***************************************************************************)
MainStep(from, to) ==
  /\ main = from /\ main' = to
  /\ UNCHANGED <<clients, it, streams>>

StartData ==
  /\ MainStep("start_data", "start_ws")
  /\ acceptor' = "ready"
  /\ UNCHANGED <<telemetry_shutdown_request, shutdown_asked, stop_queued, loop>>

StartWs ==
  /\ MainStep("start_ws", "sleep")
  /\ loop' = "ready"
  /\ UNCHANGED <<telemetry_shutdown_request, shutdown_asked, stop_queued, acceptor>>

(* The user's KeyboardInterrupt ends the sleep. *)
Interrupt ==
  /\ MainStep("sleep", "stop_data")
  /\ UNCHANGED <<telemetry_shutdown_request, shutdown_asked, stop_queued, threads>>

(* TelemetryService's stop_fn: the flag, then server.shutdown(), which     *)
(* waits for serve_forever to end, then server.server_close(), which waits *)
(* for the handlers.  Daemon.stop joins the acceptor, which has ended.     *)
RaiseFlag ==
  /\ MainStep("stop_data", "shutdown")
  /\ telemetry_shutdown_request' = TRUE
  /\ UNCHANGED <<shutdown_asked, stop_queued, threads>>

Shutdown ==
  /\ MainStep("shutdown", "shutdown_wait")
  /\ shutdown_asked' = TRUE
  /\ UNCHANGED <<telemetry_shutdown_request, stop_queued, threads>>

ShutdownDone ==
  /\ acceptor = "ended"
  /\ MainStep("shutdown_wait", "close")
  /\ UNCHANGED <<telemetry_shutdown_request, shutdown_asked, stop_queued, threads>>

HandlerRuns(c) == tcp[c] \notin {"absent", "reset", "raised"}

(* Mutant: the connections are not waited for. *)
ServerClosed_AtOnce == TRUE

ServerClosed == \A c \in TcpClients : ~HandlerRuns(c)

ServerClose ==
  /\ ServerClosed
  /\ MainStep("close", "stop_ws")
  /\ UNCHANGED <<telemetry_shutdown_request, shutdown_asked, stop_queued, threads>>

(* WebsocketService's stop_fn: loop.stop is queued, the main thread spins  *)
(* while the loop runs, then queues loop.close, which no loop executes     *)
(* with effect, and joins the thread.                                      *)
QueueStop ==
  /\ MainStep("stop_ws", "spin")
  /\ stop_queued' = TRUE
  /\ UNCHANGED <<telemetry_shutdown_request, shutdown_asked, threads>>

is_running == loop \in {"setup", "listening", "running"}

Spin ==
  /\ ~is_running
  /\ MainStep("spin", "join_ws")
  /\ UNCHANGED <<telemetry_shutdown_request, shutdown_asked, stop_queued, threads>>

JoinWs ==
  /\ loop = "ended"
  /\ MainStep("join_ws", "done")
  /\ UNCHANGED <<telemetry_shutdown_request, shutdown_asked, stop_queued, threads>>

Stopping ==
  \/ RaiseFlag \/ Shutdown \/ ShutdownDone \/ ServerClose
  \/ QueueStop \/ Spin \/ JoinWs

Main == StartData \/ StartWs \/ Stopping

-----------------------------------------------------------------------------
(***************************************************************************)
(* The acceptor.  It may take one more connection after it was asked to    *)
(* end: it looks at the request before or after it waits for connections.  *)
(***************************************************************************)
Serve ==
  /\ acceptor = "ready" /\ acceptor' = "serving"
  /\ UNCHANGED <<mainVars, loop, clients, it, streams>>

EndServe ==
  /\ acceptor = "serving" /\ shutdown_asked
  /\ acceptor' = "ended"
  /\ UNCHANGED <<mainVars, loop, clients, it, streams>>

Acceptor == Serve \/ EndServe

(* A connection made earlier waits for its turn in the listening socket.   *)
Accept(c) ==
  /\ acceptor = "serving"
  /\ tcp[c] = "absent" /\ it[Loop].at # c
  /\ tcp' = [tcp EXCEPT ![c] = "new"]
  /\ UNCHANGED <<mainVars, threads, ws, speaker, it, streams>>

-----------------------------------------------------------------------------
(***************************************************************************)
(* TcpTelemetryHandler.handle, in a thread of its own for each client.     *)
(***************************************************************************)
TcpStep(c, from, to) ==
  /\ tcp[c] = from
  /\ tcp' = [tcp EXCEPT ![c] = to]
  /\ UNCHANGED <<mainVars, threads, ws, speaker>>

Register(c) ==
  /\ TcpStep(c, "new", "poll")
  /\ \E room \in Rooms : command_stream' = add_output(command_stream, c, room)
  /\ UNCHANGED <<it, telemetry_stream>>

(* Mutant: the loop only ends when there is data. *)
Poll_NoFlag(c) ==
  /\ TcpStep(c, "poll", "poll")
  /\ UNCHANGED <<it, streams>>

(* `while data is None and not self.server.telemetry_shutdown_request':    *)
(* another turn while rfile.read gives nothing, unless the flag is up.     *)
Poll(c) ==
  /\ TcpStep(c, "poll", IF telemetry_shutdown_request THEN "leave" ELSE "poll")
  /\ UNCHANGED <<it, streams>>

(* rfile.read gives data, or the 0 bytes of the connection's end.  A reset *)
(* of the connection raises, and nothing catches it: the handler dies with *)
(* its output still registered.                                            *)
Read(c) ==
  /\ ~telemetry_shutdown_request
  /\ \E outcome \in {"data", "leave", "reset"} :
       TcpStep(c, "poll", outcome)
  /\ UNCHANGED <<it, streams>>

(* The flag is looked at again: data read just before the shutdown is      *)
(* dropped.                                                                *)
Quit(c) ==
  /\ telemetry_shutdown_request
  /\ TcpStep(c, "data", "leave")
  /\ UNCHANGED <<it, streams>>

(* The data is text, or a binary packet, which need not be UTF-8. *)
TcpDataHandler(c) ==
  /\ ~telemetry_shutdown_request
  /\ \E write \in {"write_text", "write_binary"} : TcpStep(c, "data", write)
  /\ it' = [it EXCEPT ![c] = Iterate(telemetry_stream)]
  /\ UNCHANGED streams

(* Mutant: a client that goes leaves its output behind. *)
Unregister_Forgets(c) ==
  /\ TcpStep(c, "leave", "absent")
  /\ UNCHANGED <<it, streams>>

Unregister(c) ==
  /\ TcpStep(c, "leave", "absent")
  /\ command_stream' = remove_output(command_stream, c)
  /\ UNCHANGED <<it, telemetry_stream>>

-----------------------------------------------------------------------------
(***************************************************************************)
(* The event loop's thread: start_fn, and the callbacks it runs.           *)
(***************************************************************************)
LoopStep(from, to) ==
  /\ loop = from /\ loop' = to
  /\ UNCHANGED <<main, telemetry_shutdown_request, shutdown_asked, acceptor,
                 clients, it, streams>>

(* run_until_complete(server), which runs the loop until the server        *)
(* listens, or raises because its port is in use.                          *)
LoopSetup  == LoopStep("ready", "setup") /\ UNCHANGED stop_queued
LoopListen == LoopStep("setup", "listening") /\ UNCHANGED stop_queued
LoopFails  == LoopStep("setup", "ended") /\ UNCHANGED stop_queued

(* The server listens, and the callback that stops the loop for it is      *)
(* queued.  A loop.stop queued as well is called in the same turn: the two *)
(* stop the loop once, and nothing is left to stop run_forever.            *)
LoopReturns == LoopStep("listening", "between") /\ stop_queued' = FALSE

LoopRun == LoopStep("between", "running") /\ UNCHANGED stop_queued

LoopIdle == loop = "running" /\ ~it[Loop].on

(* loop.stop before the server listens makes run_until_complete raise; in  *)
(* the turn in which it comes to listen, the callback it queues stops      *)
(* run_forever in its first turn.  Either way the thread ends.             *)
LoopStop ==
  /\ stop_queued
  /\ LoopStep("setup", "ended") \/ (LoopIdle /\ LoopStep("running", "ended"))
  /\ stop_queued' = FALSE

LoopThread ==
  LoopSetup \/ LoopListen \/ LoopFails \/ LoopReturns \/ LoopRun \/ LoopStop

(* The WebSocket handler, as far as its first wait for a message. *)
WsConnect(w) ==
  /\ LoopIdle
  /\ ws[w] = "absent"
  /\ \A c \in TcpClients : it[c].at # w
  /\ ws' = [ws EXCEPT ![w] = "open"]
  /\ \E room \in Rooms : telemetry_stream' = add_output(telemetry_stream, w, room)
  /\ UNCHANGED <<mainVars, threads, tcp, speaker, it, command_stream>>

(* A message that is empty, or binary and no command packet, raises before *)
(* anything is written: the handler dies with its output still registered. *)
WsInvalid(w) ==
  /\ LoopIdle
  /\ ws[w] = "open"
  /\ ws' = [ws EXCEPT ![w] = "invalid"]
  /\ UNCHANGED <<mainVars, threads, tcp, speaker, it, streams>>

WsMessage(w) ==
  /\ LoopIdle
  /\ ws[w] = "open"
  /\ ws' = [ws EXCEPT ![w] = "write"]
  /\ speaker' = w
  /\ it' = [it EXCEPT ![Loop] = Iterate(command_stream)]
  /\ UNCHANGED <<mainVars, threads, tcp, streams>>

ConnectionClosed(w) ==
  /\ LoopIdle
  /\ ws[w] = "open"
  /\ ws' = [ws EXCEPT ![w] = "absent"]
  /\ telemetry_stream' = remove_output(telemetry_stream, w)
  /\ UNCHANGED <<mainVars, threads, tcp, speaker, it, command_stream>>

-----------------------------------------------------------------------------
(***************************************************************************)
(* StreamManager.write, by a TCP handler on the telemetry stream or by the *)
(* event loop on the command stream.  message_count, which is only logged, *)
(* is left out.                                                            *)
(***************************************************************************)
StreamOf(p) == IF p = Loop THEN command_stream ELSE telemetry_stream

(* Mutant: a write that fails is taken for one that ended. *)
Back_Anyway(p, raised) ==
  /\ it' = [it EXCEPT ![p] = NoIterator]
  /\ IF p = Loop
     THEN ws' = [ws EXCEPT ![speaker] = "open"] /\ tcp' = tcp
     ELSE tcp' = [tcp EXCEPT ![p] = "poll"] /\ ws' = ws
  /\ UNCHANGED <<mainVars, threads, speaker, streams>>

(* The handler that called write goes on, or dies of the exception. *)
Back(p, raised) ==
  /\ it' = [it EXCEPT ![p] = NoIterator]
  /\ IF p = Loop
     THEN /\ ws' = [ws EXCEPT ![speaker] = IF raised THEN "raised" ELSE "open"]
          /\ tcp' = tcp
     ELSE /\ tcp' = [tcp EXCEPT ![p] = IF raised THEN "raised" ELSE "poll"]
          /\ ws' = ws
  /\ UNCHANGED <<mainVars, threads, speaker, streams>>

InIteration(p) == it[p].on /\ it[p].at = NoOutput

(* Mutant: an iterator whose dict changed under it just stops. *)
WriteNext_Swallows(p) ==
  /\ InIteration(p)
  /\ \/ Changed(StreamOf(p), it[p]) /\ Back(p, FALSE)
     \/ /\ ~Changed(StreamOf(p), it[p])
        /\ Ahead(StreamOf(p), it[p]) = {}
        /\ Back(p, FALSE)
     \/ /\ ~Changed(StreamOf(p), it[p])
        /\ Ahead(StreamOf(p), it[p]) # {}
        /\ it' = [it EXCEPT ![p] = Advance(StreamOf(p), @)]
        /\ UNCHANGED <<mainVars, threads, clients, streams>>

WriteNext(p) ==
  /\ InIteration(p)
  /\ \/ Changed(StreamOf(p), it[p]) /\ Back(p, TRUE)
     \/ /\ ~Changed(StreamOf(p), it[p])
        /\ Ahead(StreamOf(p), it[p]) = {}
        /\ Back(p, FALSE)
     \/ /\ ~Changed(StreamOf(p), it[p])
        /\ Unexpected(StreamOf(p), it[p])
        /\ Back(p, TRUE)
     \/ /\ ~Changed(StreamOf(p), it[p])
        /\ Ahead(StreamOf(p), it[p]) # {}
        /\ it' = [it EXCEPT ![p] = Advance(StreamOf(p), @)]
        /\ UNCHANGED <<mainVars, threads, clients, streams>>

(* stream.write.  A WebSocket's decodes the message first and never waits. *)
(* A TCP client's raises once the socket is closed, and may raise before:  *)
(* the peer is gone, or its buffer is full and the socket does not block.  *)
Fails(p)    == IF p = Loop THEN TRUE ELSE tcp[p] = "write_binary"
Succeeds(p) == IF p = Loop THEN HandlerRuns(it[Loop].at) ELSE tcp[p] = "write_text"

WriteOut(p) ==
  /\ it[p].on /\ it[p].at # NoOutput
  /\ \/ Fails(p) /\ Back(p, TRUE)
     \/ /\ Succeeds(p)
        /\ it' = [it EXCEPT ![p].at = NoOutput]
        /\ UNCHANGED <<mainVars, threads, clients, streams>>

write(p) == WriteNext(p) \/ WriteOut(p)

-----------------------------------------------------------------------------
Handle(c) ==
  \/ Register(c) \/ Poll(c) \/ Quit(c)
  \/ TcpDataHandler(c) \/ write(c) \/ Unregister(c)

Next ==
  \/ Main \/ Interrupt
  \/ Acceptor
  \/ LoopThread \/ write(Loop)
  \/ \E c \in TcpClients :
       Accept(c) \/ Read(c) \/ Handle(c)
  \/ \E w \in WsClients : WsConnect(w) \/ WsMessage(w) \/ WsInvalid(w) \/ ConnectionClosed(w)

(* Every thread keeps running.  The loop takes its callbacks in the order  *)
(* they were queued, so that its clients cannot keep it from loop.stop for *)
(* ever.  Nobody has to connect, send or close, and the user need not stop *)
(* the daemon.                                                             *)
Spec ==
  /\ Init /\ [][Next]_daemonVars
  /\ WF_daemonVars(Main)
  /\ WF_daemonVars(Acceptor)
  /\ WF_daemonVars(LoopThread)
  /\ SF_daemonVars(LoopStop)
  /\ \A p \in TcpClients : WF_daemonVars(Handle(p))
  /\ WF_daemonVars(write(Loop))

-----------------------------------------------------------------------------
TypeOK ==
  /\ main \in {"start_data", "start_ws", "sleep", "stop_data", "shutdown",
               "shutdown_wait", "close", "stop_ws", "spin", "join_ws", "done"}
  /\ telemetry_shutdown_request \in BOOLEAN
  /\ shutdown_asked \in BOOLEAN /\ stop_queued \in BOOLEAN
  /\ acceptor \in {"new", "ready", "serving", "ended"}
  /\ loop \in {"new", "ready", "setup", "listening", "between", "running", "ended"}
  /\ tcp \in [TcpClients -> {"absent", "new", "poll", "data", "write_text",
                             "write_binary", "leave",
                             "reset", "raised"}]
  /\ ws \in [WsClients -> {"absent", "open", "write", "raised", "invalid"}]
  /\ speaker \in WsClients \union {NoOutput}
  /\ it \in [TcpClients \union {Loop} ->
               Iterator(TcpClients) \union Iterator(WsClients)]
  /\ telemetry_stream \in [place : [WsClients -> Nat], entries : Nat, room : Nat]
  /\ command_stream \in [place : [TcpClients -> Nat], entries : Nat, room : Nat]

(* A stream's outputs are those of the handlers at work in it, and of the  *)
(* handlers that died of an exception: whoever leaves takes his output     *)
(* with him, and no one another's.                                         *)
OutputsOwned ==
  /\ Outputs(command_stream) =
       {c \in TcpClients : tcp[c] \notin {"absent", "new"}}
  /\ Outputs(telemetry_stream) =
       {w \in WsClients : ws[w] \in {"open", "write", "raised", "invalid"}}

(* When the data service has been stopped it has: nothing of it runs any   *)
(* more, while the event loop still does.                                  *)
StoppedIsStopped ==
  main \in {"stop_ws", "spin", "join_ws", "done"}
    => /\ acceptor = "ended"
       /\ \A c \in TcpClients : ~HandlerRuns(c) /\ ~it[c].on

(* Both streams are hubs: a write that returns has reached every output    *)
(* that was there throughout, whatever the other threads did to the dict   *)
(* meanwhile, unless an insertion made its table anew.                     *)
TelemetryHub == INSTANCE Hub WITH
  Publishers  <- TcpClients,
  Subscribers <- WsClients,
  members     <- Outputs(telemetry_stream),
  room        <- telemetry_stream.room,
  status      <- [c \in TcpClients |-> IF it[c].on THEN "busy"
                                       ELSE IF tcp[c] = "raised" THEN "failed"
                                       ELSE "ended"],
  owed        <- [c \in TcpClients |-> Owed(telemetry_stream, it[c])]

CommandHub == INSTANCE Hub WITH
  Publishers  <- {Loop},
  Subscribers <- TcpClients,
  members     <- Outputs(command_stream),
  room        <- command_stream.room,
  status      <- [p \in {Loop} |-> IF it[p].on THEN "busy"
                                   ELSE IF speaker # NoOutput /\ ws[speaker] = "raised"
                                   THEN "failed" ELSE "ended"],
  owed        <- [p \in {Loop} |-> Owed(command_stream, it[p])]

TelemetryIsHub == TelemetryHub!Spec
CommandIsHub   == CommandHub!Spec

(* The loop.stop meant for run_forever was spent on run_until_complete. *)
StopSwallowed ==
  /\ main \in {"spin", "join_ws"} /\ ~stop_queued
  /\ loop \in {"between", "running"}

(* An interrupted daemon ends, or its one loop.stop was swallowed: no      *)
(* handler, no client and no other state of the event loop can keep it up. *)
DaemonEnds == main = "stop_data" ~> (main = "done" \/ StopSwallowed)
=============================================================================
