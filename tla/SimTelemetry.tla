------------------------------ MODULE SimTelemetry ------------------------------
(***************************************************************************)
(* The simulator's telemetry (py/classes/telemetry): clients whose main    *)
(* thread sets a channel's data and publishes it, while a thread of theirs *)
(* streams what is queued to a server over TCP; and the server (py/web.py) *)
(* with an acceptor and a handler thread for each client, which stores the *)
(* lines it reads in a buffer.  Every client publishes a channel of the    *)
(* same name, as TestChannel does; the simulator itself publishes nothing, *)
(* which is the case of a client that stops at once.                       *)
(*                                                                         *)
(* The channel itself is queued, and made into a line when the streamer    *)
(* gets to it: the queue is a number.  The i-th data a client sets is i,   *)
(* at time i.                                                              *)
(***************************************************************************)
EXTENDS Integers, Sequences, FiniteSetsExt

CONSTANTS
  Clients,    (* the clients, one use each                                 *)
  Publishes,  (* how often the clients publish at most, together           *)
  Wire,       (* how many lines a connection holds that are not read       *)
  DEPTH       (* ChannelBuffer.DEPTH                                       *)

ASSUME SimAssumption == Publishes \in Nat /\ Wire \in Nat \ {0} /\ DEPTH \in Nat \ {0}

VARIABLES
  main,       (* where each client's main thread is                        *)
  streamer,   (* where each client's streaming thread is                   *)
  dict,       (* each client's channel                                     *)
  queue,      (* how often it is queued                                    *)
  line,       (* the line the streamer has made                            *)
  sent,       (* the lines each client's sendall has taken                 *)
  conn,       (* each client's connection                                  *)
  wire,       (* the lines in it                                           *)
  server,     (* where the server's main thread is                         *)
  handler,    (* where each connection's handler is                        *)
  hand,       (* the channel it has read                                   *)
  stored,     (* how many lines it has put into the buffer                 *)
  known,      (* the channel's name is in the server's buffer              *)
  first,      (* ChannelBuffer.channel                                     *)
  buffer      (* ChannelBuffer.buffer; items is its length                 *)

publisher == <<main, dict, queue>>
streaming == <<streamer, line, sent>>
network   == <<conn, wire>>
serving   == <<handler, hand, stored>>
storage   == <<known, first, buffer>>
simVars   == <<publisher, streaming, network, server, serving, storage>>

Lines == [value : 0..Publishes, timestamp : 0..Publishes]
Blank == [value |-> 0, timestamp |-> 0]

Init ==
  /\ main = [c \in Clients |-> "new"]
  /\ streamer = [c \in Clients |-> "new"]
  /\ dict = [c \in Clients |-> Blank]
  /\ queue = [c \in Clients |-> 0]
  /\ line = [c \in Clients |-> Blank]
  /\ sent = [c \in Clients |-> << >>]
  /\ conn = [c \in Clients |-> "none"]
  /\ wire = [c \in Clients |-> << >>]
  /\ server = "new"
  /\ handler = [c \in Clients |-> "none"]
  /\ hand = [c \in Clients |-> Blank]
  /\ stored = [c \in Clients |-> 0]
  /\ known = FALSE /\ first = Blank /\ buffer = << >>

(* The bound on the run: data set so far, by all clients. *)
DataSet == MapThenSumSet(LAMBDA c : dict[c].value, Clients)

-----------------------------------------------------------------------------
(***************************************************************************)
(* A client's main thread.                                                 *)
(***************************************************************************)
MainStep(c, from, to) ==
  /\ main[c] = from
  /\ main' = [main EXCEPT ![c] = to]
  /\ UNCHANGED <<server, serving, storage>>

Listening == server \in {"new", "serving", "stopping"}

(* TelemetryClient.start: the connection waits in the listening socket,    *)
(* which is there from the server's constructor on, until it is accepted.  *)
start(c) ==
  /\ Listening
  /\ MainStep(c, "new", "idle")
  /\ conn' = [conn EXCEPT ![c] = "queued"]
  /\ streamer' = [streamer EXCEPT ![c] = "test"]
  /\ UNCHANGED <<dict, queue, line, sent, wire>>

(* Quadcopter.connect returns False, and the simulation ends.              *)
Refused(c) ==
  /\ ~Listening
  /\ MainStep(c, "new", "refused")
  /\ UNCHANGED <<dict, queue, streaming, network>>

(* Mutant: the channel is published before its data is set.                *)
set_data_Late(c) ==
  /\ UNCHANGED <<streaming, network>>
  /\ \/ /\ MainStep(c, "idle", "value")
        /\ DataSet < Publishes
        /\ queue' = [queue EXCEPT ![c] = @ + 1]
        /\ UNCHANGED dict
     \/ /\ MainStep(c, "value", "time")
        /\ dict' = [dict EXCEPT ![c].value = @ + 1]
        /\ UNCHANGED queue
     \/ /\ MainStep(c, "time", "idle")
        /\ dict' = [dict EXCEPT ![c].timestamp = dict[c].value]
        /\ UNCHANGED queue

(* Channel.set_data(data, True): the value, the timestamp, then publish,   *)
(* which does not raise: the thread that publishes is the one that stops.  *)
set_data(c) ==
  /\ UNCHANGED <<streaming, network>>
  /\ \/ /\ MainStep(c, "idle", "value")
        /\ DataSet < Publishes
        /\ dict' = [dict EXCEPT ![c].value = @ + 1]
        /\ UNCHANGED queue
     \/ /\ MainStep(c, "value", "time")
        /\ dict' = [dict EXCEPT ![c].timestamp = dict[c].value]
        /\ UNCHANGED queue
     \/ /\ MainStep(c, "time", "idle")
        /\ queue' = [queue EXCEPT ![c] = @ + 1]
        /\ UNCHANGED dict

(* TelemetryClient.stop: the flag, then join, then the socket's close.     *)
stop(c) ==
  /\ MainStep(c, "idle", "joining")
  /\ UNCHANGED <<dict, queue, streaming, network>>

Join(c) ==
  /\ streamer[c] \in {"ended", "raised"}
  /\ MainStep(c, "joining", "stopped")
  /\ UNCHANGED <<dict, queue, streaming, network>>

stopped(c) == main[c] \in {"joining", "stopped"}

-----------------------------------------------------------------------------
(***************************************************************************)
(* TelemetryClient.stream_telemetry.                                       *)
(***************************************************************************)
StreamerStep(c, from, to) ==
  /\ streamer[c] = from
  /\ streamer' = [streamer EXCEPT ![c] = to]
  /\ UNCHANGED <<main, dict, server, serving, storage>>

Test(c) ==
  /\ StreamerStep(c, "test", IF stopped(c) THEN "ended" ELSE "get")
  /\ UNCHANGED <<queue, line, sent, network>>

(* Mutant: the thread ends when there is nothing to stream.                *)
get_nowait_Ends(c) ==
  /\ UNCHANGED <<line, sent, network>>
  /\ \/ /\ queue[c] = 0
        /\ StreamerStep(c, "get", "ended")
        /\ UNCHANGED queue
     \/ /\ queue[c] > 0
        /\ StreamerStep(c, "get", "json")
        /\ queue' = [queue EXCEPT ![c] = @ - 1]

(* Mutant: the thread waits for something to stream.                       *)
get_nowait_Waits(c) ==
  /\ UNCHANGED <<line, sent, network>>
  /\ queue[c] > 0
  /\ StreamerStep(c, "get", "json")
  /\ queue' = [queue EXCEPT ![c] = @ - 1]

(* queue.Empty is caught, and the thread goes on.                          *)
get_nowait(c) ==
  /\ UNCHANGED <<line, sent, network>>
  /\ \/ /\ queue[c] = 0
        /\ StreamerStep(c, "get", "test")
        /\ UNCHANGED queue
     \/ /\ queue[c] > 0
        /\ StreamerStep(c, "get", "json")
        /\ queue' = [queue EXCEPT ![c] = @ - 1]

to_json(c) ==
  /\ StreamerStep(c, "json", "send")
  /\ line' = [line EXCEPT ![c] = dict[c]]
  /\ UNCHANGED <<queue, sent, network>>

(* sendall waits while the connection is full.  When the server is gone it *)
(* raises, which nothing catches, or the line is lost.                     *)
sendall(c) ==
  /\ UNCHANGED <<queue, line, conn>>
  /\ \/ /\ conn[c] # "reset" /\ Len(wire[c]) < Wire
        /\ StreamerStep(c, "send", "test")
        /\ wire' = [wire EXCEPT ![c] = Append(@, line[c])]
        /\ sent' = [sent EXCEPT ![c] = Append(@, line[c])]
     \/ /\ conn[c] = "reset"
        /\ StreamerStep(c, "send", "test")
        /\ sent' = [sent EXCEPT ![c] = Append(@, line[c])]
        /\ UNCHANGED wire
     \/ /\ conn[c] = "reset"
        /\ StreamerStep(c, "send", "raised")
        /\ UNCHANGED <<sent, wire>>

Stream(c) == Test(c) \/ get_nowait(c) \/ to_json(c) \/ sendall(c)

-----------------------------------------------------------------------------
(***************************************************************************)
(* The server: serve and TelemetryServer's start and stop.                 *)
(***************************************************************************)
ServerStep(from, to) ==
  /\ server = from /\ server' = to
  /\ UNCHANGED <<publisher, streaming, storage>>

Reset(gone) ==
  /\ conn' = [c \in Clients |-> IF c \in gone THEN "reset" ELSE conn[c]]
  /\ wire' = [c \in Clients |-> IF c \in gone THEN << >> ELSE wire[c]]

StartServing == ServerStep("new", "serving") /\ UNCHANGED <<network, serving>>

(* The user's KeyboardInterrupt, and shutdown.                             *)
Interrupt == ServerStep("serving", "stopping") /\ UNCHANGED <<network, serving>>

(* The acceptor is joined and the listening socket closed; the handlers,   *)
(* being daemon threads, are not waited for.                               *)
Close ==
  /\ ServerStep("stopping", "closed")
  /\ Reset({c \in Clients : conn[c] = "queued"})
  /\ UNCHANGED serving

(* They die with the process.                                              *)
Exit ==
  /\ ServerStep("closed", "exited")
  /\ Reset({c \in Clients : conn[c] = "open"})
  /\ handler' = [c \in Clients |-> IF handler[c] \in {"none", "ended"}
                                   THEN handler[c] ELSE "killed"]
  /\ UNCHANGED <<hand, stored>>

Serve == StartServing \/ Close \/ Exit

(* serve_forever may take one more connection while it is being stopped.   *)
Accept(c) ==
  /\ server \in {"serving", "stopping"}
  /\ conn[c] = "queued"
  /\ conn' = [conn EXCEPT ![c] = "open"]
  /\ handler' = [handler EXCEPT ![c] = "read"]
  /\ UNCHANGED <<publisher, streaming, wire, server, hand, stored, storage>>

-----------------------------------------------------------------------------
(***************************************************************************)
(* DefaultTelemetryHandler.handle, and TelemetryBuffer.put.                *)
(***************************************************************************)
HandlerStep(c, from, to) ==
  /\ handler[c] = from
  /\ handler' = [handler EXCEPT ![c] = to]
  /\ UNCHANGED <<publisher, streaming, conn, server>>

(* Mutant: a closed connection is not read to its end.                     *)
readline_Abandons(c) ==
  /\ UNCHANGED <<stored, storage>>
  /\ \/ /\ wire[c] # << >>
        /\ HandlerStep(c, "read", "test")
        /\ hand' = [hand EXCEPT ![c] = Head(wire[c])]
        /\ wire' = [wire EXCEPT ![c] = Tail(@)]
     \/ /\ main[c] = "stopped"
        /\ HandlerStep(c, "read", "ended")
        /\ UNCHANGED <<hand, wire>>

(* readline gives a line, or nothing when the client has closed.           *)
readline(c) ==
  /\ UNCHANGED <<stored, storage>>
  /\ \/ /\ wire[c] # << >>
        /\ HandlerStep(c, "read", "test")
        /\ hand' = [hand EXCEPT ![c] = Head(wire[c])]
        /\ wire' = [wire EXCEPT ![c] = Tail(@)]
     \/ /\ wire[c] = << >> /\ main[c] = "stopped"
        /\ HandlerStep(c, "read", "ended")
        /\ UNCHANGED <<hand, wire>>

PutTest(c) ==
  /\ HandlerStep(c, "test", IF known THEN "capture" ELSE "create")
  /\ UNCHANGED <<wire, hand, stored, storage>>

(* A new ChannelBuffer, whatever another handler has created meanwhile.    *)
PutCreate(c) ==
  /\ HandlerStep(c, "create", "capture")
  /\ known' = TRUE
  /\ first' = hand[c]
  /\ buffer' = << >>
  /\ UNCHANGED <<wire, hand, stored>>

(* It takes the data of the channel it was created with.                   *)
capture(c) ==
  /\ HandlerStep(c, "capture", "read")
  /\ buffer' = LET longer == Append(buffer, first)
               IN  IF Len(longer) > DEPTH THEN Tail(longer) ELSE longer
  /\ stored' = [stored EXCEPT ![c] = @ + 1]
  /\ UNCHANGED <<wire, hand, known, first>>

Handle(c) == readline(c) \/ PutTest(c) \/ PutCreate(c) \/ capture(c)

-----------------------------------------------------------------------------
Next ==
  \/ Serve \/ Interrupt
  \/ \E c \in Clients :
       \/ start(c) \/ Refused(c) \/ set_data(c) \/ stop(c) \/ Join(c)
       \/ Stream(c) \/ Accept(c) \/ Handle(c)

(* Every thread keeps running.  Nobody has to publish, to stop a client or *)
(* to interrupt the server.                                                *)
Spec ==
  /\ Init /\ [][Next]_simVars
  /\ WF_simVars(Serve)
  /\ \A c \in Clients :
       /\ WF_simVars(Join(c))
       /\ WF_simVars(Stream(c))
       /\ WF_simVars(Accept(c))
       /\ WF_simVars(Handle(c))

-----------------------------------------------------------------------------
(* A queued channel is never older than what was published: the line sent  *)
(* for the k-th publication has the k-th data or newer, lines do not go    *)
(* back, and the only tear is a timestamp one behind its value             *)
(* (Channel.set_data, Channel.publish, stream_telemetry).                  *)
NeverStale ==
  \A c \in Clients : \A k \in DOMAIN sent[c] :
    /\ sent[c][k].timestamp >= k
    /\ sent[c][k].value - sent[c][k].timestamp \in {0, 1}
    /\ k > 1 => sent[c][k - 1].value <= sent[c][k].value

(* When a handler has seen its client close, everything that client sent   *)
(* has been put; and while one client alone has published a channel, all   *)
(* of it is there, up to the buffer's depth (handle, put, capture).        *)
SentIsStored ==
  \A c \in Clients :
    /\ handler[c] = "ended" => stored[c] = Len(sent[c])
    /\ /\ handler[c] \in {"read", "ended"}
       /\ \A d \in Clients \ {c} : handler[d] = "none"
       => Len(buffer) = IF stored[c] < DEPTH THEN stored[c] ELSE DEPTH

(* What is queued is sent and stored, unless its client is stopped or the  *)
(* server interrupted: the streamer does not give up on an empty queue.    *)
Delivered ==
  \A c \in Clients : \A k \in 1..Publishes :
    main[c] = "idle" /\ dict[c].value >= k
      ~> stored[c] >= k \/ stopped(c) \/ server \notin {"new", "serving"}

(* A client that is being stopped stops, whatever the queue, the           *)
(* connection and the server are at: join never waits for ever.            *)
ClientStops == \A c \in Clients : main[c] = "joining" ~> main[c] = "stopped"

(* "store data" (DataHandling.py): the newest item of a channel is the     *)
(* data of the line put last.  One client alone publishes.                 *)
StoresLatest ==
  \A c \in Clients :
    handler[c] \in {"read", "ended"} /\ stored[c] > 0 => buffer[Len(buffer)] = hand[c]
=============================================================================
