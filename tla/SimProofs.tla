------------------------------ MODULE SimProofs ------------------------------
(***************************************************************************)
(* Theorems about SimTelemetry, for any clients, any number of data they   *)
(* publish, any connections and any depth of the server's buffer.          *)
(***************************************************************************)
EXTENDS SimTelemetry, TLAPS

Line == [value : Nat, timestamp : Nat]

MainPlaces     == {"new", "idle", "value", "time", "joining", "stopped", "refused"}
StreamerPlaces == {"new", "test", "get", "json", "send", "ended", "raised"}
HandlerPlaces  == {"none", "read", "test", "create", "capture", "ended", "killed"}

TypeOK ==
  /\ main \in [Clients -> MainPlaces]
  /\ streamer \in [Clients -> StreamerPlaces]
  /\ dict \in [Clients -> Line] /\ queue \in [Clients -> Nat]
  /\ line \in [Clients -> Line] /\ sent \in [Clients -> Seq(Line)]
  /\ conn \in [Clients -> {"none", "queued", "open", "reset"}]
  /\ wire \in [Clients -> Seq(Line)]
  /\ handler \in [Clients -> HandlerPlaces]
  /\ hand \in [Clients -> Line] /\ stored \in [Clients -> Nat]
  /\ known \in BOOLEAN /\ first \in Line /\ buffer \in Seq(Line)

-----------------------------------------------------------------------------
(* A line whose only tear is a timestamp one behind its value. *)
Sound(l) == l.value - l.timestamp \in {0, 1}

(* What a client has published so far, and how much of it its streamer has *)
(* taken and not sent.                                                     *)
Published(c) == dict[c].value - (IF main[c] \in {"value", "time"} THEN 1 ELSE 0)
Taken(c)     == IF streamer[c] \in {"json", "send", "raised"} THEN 1 ELSE 0

DictTrue(c) ==
  /\ dict[c].timestamp = dict[c].value - (IF main[c] = "value" THEN 1 ELSE 0)
  /\ main[c] \in {"value", "time"} => dict[c].value >= 1

QueueTrue(c) == Published(c) = queue[c] + Len(sent[c]) + Taken(c)

LineFresh(c) ==
  streamer[c] = "send" =>
    /\ line[c].timestamp >= Len(sent[c]) + 1 /\ Sound(line[c])
    /\ line[c].value <= dict[c].value
    /\ \A k \in 1..Len(sent[c]) : sent[c][k].value <= line[c].value

SentFresh(c) ==
  \A k \in 1..Len(sent[c]) :
    /\ sent[c][k].timestamp >= k /\ Sound(sent[c][k])
    /\ sent[c][k].value <= dict[c].value
    /\ k > 1 => sent[c][k - 1].value <= sent[c][k].value

Fresh(c) == DictTrue(c) /\ QueueTrue(c) /\ LineFresh(c) /\ SentFresh(c)

-----------------------------------------------------------------------------
InHand(c) == IF handler[c] \in {"test", "create", "capture"} THEN 1 ELSE 0

(* What is sent is in the connection, in the handler's hand or stored,     *)
(* until the server closes its end.                                        *)
Linked(c) ==
  /\ main[c] = "new" => /\ streamer[c] = "new" /\ conn[c] = "none"
                        /\ sent[c] = << >> /\ wire[c] = << >>
  /\ conn[c] = "none" => streamer[c] = "new"
  /\ main[c] = "stopped" => streamer[c] \in {"ended", "raised"}
  /\ conn[c] \in {"none", "queued"} => handler[c] = "none"
  /\ handler[c] = "none" => stored[c] = 0 /\ conn[c] # "open"
  /\ conn[c] \in {"queued", "open"} =>
       Len(sent[c]) = Len(wire[c]) + InHand(c) + stored[c]
  /\ handler[c] = "ended" => /\ main[c] = "stopped" /\ wire[c] = << >>
                             /\ stored[c] = Len(sent[c])
  /\ conn[c] = "reset" => handler[c] \in {"none", "ended", "killed"}
  /\ handler[c] = "killed" => conn[c] = "reset"

Least(m, n) == IF m < n THEN m ELSE n

(* While one client's handler alone has run, the buffer holds what it put. *)
Alone(c) == \A d \in Clients \ {c} : handler[d] = "none"

Kept(c) ==
  Alone(c) =>
    /\ Len(buffer) = Least(stored[c], DEPTH)
    /\ stored[c] > 0 => known
    /\ handler[c] = "create" => ~known
    /\ handler[c] = "capture" => known
    /\ handler[c] = "none" => ~known

IInv == TypeOK /\ \A c \in Clients : Fresh(c) /\ Linked(c) /\ Kept(c)
-----------------------------------------------------------------------------
LEMMA TypeInit == Init => TypeOK
<1>1. Blank \in Line
  BY DEF Blank, Line
<1>2. << >> \in Seq(Line)
  OBVIOUS
<1> SUFFICES ASSUME Init PROVE TypeOK
  OBVIOUS
<1>3. /\ main \in [Clients -> MainPlaces] /\ streamer \in [Clients -> StreamerPlaces]
      /\ handler \in [Clients -> HandlerPlaces]
      /\ conn \in [Clients -> {"none", "queued", "open", "reset"}]
  BY DEF Init, MainPlaces, StreamerPlaces, HandlerPlaces
<1>4. /\ dict \in [Clients -> Line] /\ line \in [Clients -> Line]
      /\ hand \in [Clients -> Line] /\ first \in Line
  BY <1>1 DEF Init
<1>5. /\ sent \in [Clients -> Seq(Line)] /\ wire \in [Clients -> Seq(Line)]
      /\ buffer \in Seq(Line)
  BY <1>2 DEF Init
<1> QED
  BY <1>3, <1>4, <1>5 DEF Init, TypeOK

LEMMA MainType ==
  ASSUME TypeOK, NEW c \in Clients,
         start(c) \/ Refused(c) \/ set_data(c) \/ stop(c) \/ Join(c)
  PROVE  TypeOK'
<1>1. /\ dict[c] \in Line /\ dict[c].value \in Nat /\ dict[c].timestamp \in Nat
      /\ queue[c] \in Nat
  BY DEF TypeOK, Line
<1>2. UNCHANGED <<line, sent, wire, server, serving, storage>>
  BY DEF start, Refused, set_data, stop, Join, MainStep, streaming, network
<1>3. main' \in [Clients -> MainPlaces]
  BY DEF TypeOK, MainPlaces, start, Refused, set_data, stop, Join, MainStep
<1>4. /\ streamer' \in [Clients -> StreamerPlaces]
      /\ conn' \in [Clients -> {"none", "queued", "open", "reset"}]
  BY DEF TypeOK, StreamerPlaces, start, Refused, set_data, stop, Join, streaming, network
<1>5. dict' \in [Clients -> Line]
  <2>1. \/ dict' = dict
        \/ dict' = [dict EXCEPT ![c].value = @ + 1]
        \/ dict' = [dict EXCEPT ![c].timestamp = dict[c].value]
    BY DEF start, Refused, set_data, stop, Join
  <2>2. CASE dict' = [dict EXCEPT ![c].value = @ + 1]
    <3>1. /\ dict'[c] = [dict[c] EXCEPT !.value = @ + 1] /\ DOMAIN dict' = Clients
          /\ \A d \in Clients : d # c => dict'[d] = dict[d]
      BY <2>2 DEF TypeOK
    <3>2. dict'[c] \in Line
      BY <1>1, <3>1 DEF Line
    <3> QED
      BY <2>2, <3>1, <3>2 DEF TypeOK
  <2>3. CASE dict' = [dict EXCEPT ![c].timestamp = dict[c].value]
    BY <1>1, <2>3 DEF TypeOK, Line
  <2> QED
    BY <2>1, <2>2, <2>3 DEF TypeOK
<1>6. queue' \in [Clients -> Nat]
  <2>1. queue' = queue \/ queue' = [queue EXCEPT ![c] = @ + 1]
    BY DEF start, Refused, set_data, stop, Join
  <2>2. queue[c] + 1 \in Nat
    BY <1>1
  <2> QED
    BY <2>1, <2>2 DEF TypeOK
<1> QED
  BY <1>2, <1>3, <1>4, <1>5, <1>6 DEF TypeOK, serving, storage

LEMMA StreamerType ==
  ASSUME TypeOK, NEW c \in Clients, Stream(c)
  PROVE  TypeOK'
<1>1. UNCHANGED <<main, dict, conn, server, serving, storage>>
  BY DEF Stream, Test, get_nowait, to_json, sendall, StreamerStep, network
<1>2. streamer' \in [Clients -> StreamerPlaces]
  BY DEF TypeOK, StreamerPlaces, Stream, Test, get_nowait, to_json, sendall, StreamerStep
<1>3. queue' \in [Clients -> Nat]
  <2>1. queue' = queue \/ (queue[c] > 0 /\ queue' = [queue EXCEPT ![c] = @ - 1])
    <3>1. get_nowait(c) => queue' = queue \/ (queue[c] > 0 /\ queue' = [queue EXCEPT ![c] = @ - 1])
      BY DEF get_nowait
    <3>2. Test(c) \/ to_json(c) \/ sendall(c) => queue' = queue
      BY DEF Test, to_json, sendall
    <3> QED
      BY <3>1, <3>2 DEF Stream
  <2>2. queue[c] \in Nat
    BY DEF TypeOK
  <2>3. queue[c] > 0 => queue[c] - 1 \in Nat
    BY <2>2
  <2> QED
    BY <2>1, <2>3 DEF TypeOK
<1>4. line' \in [Clients -> Line]
  <2>1. line' = line \/ line' = [line EXCEPT ![c] = dict[c]]
    BY DEF Stream, Test, get_nowait, to_json, sendall
  <2> QED
    BY <2>1 DEF TypeOK
<1>5. /\ sent' = sent \/ sent' = [sent EXCEPT ![c] = Append(@, line[c])]
      /\ wire' = wire \/ wire' = [wire EXCEPT ![c] = Append(@, line[c])]
  BY DEF Stream, Test, get_nowait, to_json, sendall, network
<1>6. /\ Append(sent[c], line[c]) \in Seq(Line)
      /\ Append(wire[c], line[c]) \in Seq(Line)
  BY DEF TypeOK
<1>7. sent' \in [Clients -> Seq(Line)] /\ wire' \in [Clients -> Seq(Line)]
  BY <1>5, <1>6 DEF TypeOK
<1> QED
  BY <1>1, <1>2, <1>3, <1>4, <1>7 DEF TypeOK, serving, storage

LEMMA HandlerType ==
  ASSUME TypeOK, NEW c \in Clients, Accept(c) \/ Handle(c)
  PROVE  TypeOK'
<1>1. UNCHANGED <<publisher, streaming, server>>
  BY DEF Accept, Handle, readline, PutTest, PutCreate, capture, HandlerStep
<1>2. /\ handler' \in [Clients -> HandlerPlaces]
      /\ conn' \in [Clients -> {"none", "queued", "open", "reset"}]
  BY DEF TypeOK, HandlerPlaces, Accept, Handle, readline, PutTest, PutCreate, capture,
         HandlerStep
<1>3. wire' \in [Clients -> Seq(Line)] /\ hand' \in [Clients -> Line]
  <2>1. CASE UNCHANGED <<wire, hand>>
    BY <2>1 DEF TypeOK
  <2>2. CASE /\ wire[c] # << >>
             /\ hand' = [hand EXCEPT ![c] = Head(wire[c])]
             /\ wire' = [wire EXCEPT ![c] = Tail(@)]
    <3>1. wire[c] \in Seq(Line)
      BY DEF TypeOK
    <3>2. Head(wire[c]) \in Line /\ Tail(wire[c]) \in Seq(Line)
      BY <2>2, <3>1
    <3> QED
      BY <2>2, <3>2 DEF TypeOK
  <2> QED
    BY <2>1, <2>2 DEF Accept, Handle, readline, PutTest, PutCreate, capture
<1>4. stored' \in [Clients -> Nat]
  <2>1. stored' = stored \/ stored' = [stored EXCEPT ![c] = @ + 1]
    BY DEF Accept, Handle, readline, PutTest, PutCreate, capture
  <2>2. stored[c] + 1 \in Nat
    BY DEF TypeOK
  <2> QED
    BY <2>1, <2>2 DEF TypeOK
<1>5. known' \in BOOLEAN /\ first' \in Line /\ buffer' \in Seq(Line)
  <2>1. CASE UNCHANGED storage
    BY <2>1 DEF TypeOK, storage
  <2>2. CASE PutCreate(c)
    BY <2>2 DEF TypeOK, PutCreate
  <2>3. CASE capture(c)
    <3> DEFINE longer == Append(buffer, first)
    <3>a. buffer \in Seq(Line) /\ first \in Line
      BY DEF TypeOK
    <3>b. longer \in Seq(Line) /\ Len(longer) = Len(buffer) + 1 /\ Len(buffer) \in Nat
      BY <3>a
    <3>1. longer \in Seq(Line) /\ longer # << >>
      BY <3>b
    <3>2. Tail(longer) \in Seq(Line)
      BY <3>1
    <3>3. buffer' = (IF Len(longer) > DEPTH THEN Tail(longer) ELSE longer)
          /\ UNCHANGED <<known, first>>
      BY <2>3 DEF capture
    <3> HIDE DEF longer
    <3> QED
      BY <3>1, <3>2, <3>3 DEF TypeOK
  <2> QED
    BY <2>1, <2>2, <2>3 DEF Accept, Handle, readline, PutTest
<1> QED
  BY <1>1, <1>2, <1>3, <1>4, <1>5 DEF TypeOK, publisher, streaming

LEMMA ServerType ==
  ASSUME TypeOK, Serve \/ Interrupt
  PROVE  TypeOK'
<1>1. UNCHANGED <<publisher, streaming, storage, hand, stored>>
  BY DEF Serve, Interrupt, StartServing, Close, Exit, ServerStep, serving
<1>2. handler' \in [Clients -> HandlerPlaces]
  BY DEF TypeOK, HandlerPlaces, Serve, Interrupt, StartServing, Close, Exit, serving
<1>3. /\ conn' \in [Clients -> {"none", "queued", "open", "reset"}]
      /\ wire' \in [Clients -> Seq(Line)]
  <2>1. CASE UNCHANGED network
    BY <2>1 DEF TypeOK, network
  <2>2. ASSUME NEW gone, Reset(gone)
        PROVE  /\ conn' \in [Clients -> {"none", "queued", "open", "reset"}]
               /\ wire' \in [Clients -> Seq(Line)]
    BY <2>2 DEF TypeOK, Reset
  <2> QED
    BY <2>1, <2>2 DEF Serve, Interrupt, StartServing, Close, Exit
<1> QED
  BY <1>1, <1>2, <1>3 DEF TypeOK, publisher, streaming, storage

LEMMA TypeStep == TypeOK /\ [Next]_simVars => TypeOK'
<1>1. ASSUME TypeOK, UNCHANGED simVars PROVE TypeOK'
  BY <1>1 DEF TypeOK, simVars, publisher, streaming, network, serving, storage
<1> QED
  BY <1>1, MainType, StreamerType, HandlerType, ServerType DEF Next

-----------------------------------------------------------------------------
(***************************************************************************)
(* The client's side: what it publishes, queues and sends.                 *)
(***************************************************************************)
SameClient(c) ==
  /\ main'[c] = main[c] /\ streamer'[c] = streamer[c] /\ dict'[c] = dict[c]
  /\ queue'[c] = queue[c] /\ line'[c] = line[c] /\ sent'[c] = sent[c]

(* A step is of one client at most; the server's are of none. *)
LEMMA ClientSteps ==
  ASSUME TypeOK, [Next]_simVars, NEW c \in Clients
  PROVE  \/ SameClient(c)
         \/ start(c) \/ Refused(c) \/ set_data(c) \/ stop(c) \/ Join(c) \/ Stream(c)
<1>1. ASSUME UNCHANGED <<publisher, streaming>> PROVE SameClient(c)
  BY <1>1 DEF SameClient, publisher, streaming
<1>2. ASSUME Serve \/ Interrupt PROVE SameClient(c)
  BY <1>1, <1>2 DEF Serve, Interrupt, StartServing, Close, Exit, ServerStep
<1>3. ASSUME NEW d \in Clients, Accept(d) \/ Handle(d) PROVE SameClient(c)
  BY <1>1, <1>3
  DEF Accept, Handle, readline, PutTest, PutCreate, capture, HandlerStep
<1>4. ASSUME NEW d \in Clients, d # c,
             start(d) \/ Refused(d) \/ set_data(d) \/ stop(d) \/ Join(d)
      PROVE  SameClient(c)
  <2>1. main'[c] = main[c] /\ UNCHANGED <<line, sent>>
    BY <1>4
    DEF TypeOK, start, Refused, set_data, stop, Join, MainStep, streaming
  <2>2. streamer'[c] = streamer[c]
    BY <1>4 DEF TypeOK, start, Refused, set_data, stop, Join, streaming
  <2>3. dict'[c] = dict[c] /\ queue'[c] = queue[c]
    BY <1>4 DEF TypeOK, start, Refused, set_data, stop, Join
  <2> QED
    BY <2>1, <2>2, <2>3 DEF SameClient
<1>5. ASSUME NEW d \in Clients, d # c, Stream(d) PROVE SameClient(c)
  <2>1. streamer'[c] = streamer[c] /\ UNCHANGED <<main, dict>>
    BY <1>5 DEF TypeOK, Stream, Test, get_nowait, to_json, sendall, StreamerStep
  <2>2. queue'[c] = queue[c] /\ line'[c] = line[c] /\ sent'[c] = sent[c]
    BY <1>5 DEF TypeOK, Stream, Test, get_nowait, to_json, sendall
  <2> QED
    BY <2>1, <2>2 DEF SameClient
<1>6. CASE UNCHANGED simVars
  BY <1>1, <1>6 DEF simVars
<1> QED
  BY <1>2, <1>3, <1>4, <1>5, <1>6 DEF Next

LEMMA FreshInit == Init => \A c \in Clients : Fresh(c)
<1> SUFFICES ASSUME Init, NEW c \in Clients PROVE Fresh(c)
  OBVIOUS
<1>1. /\ main[c] = "new" /\ streamer[c] = "new" /\ queue[c] = 0
      /\ dict[c].value = 0 /\ dict[c].timestamp = 0 /\ sent[c] = << >>
  BY DEF Init, Blank
<1>2. Len(sent[c]) = 0
  BY <1>1
<1>a. Taken(c) = 0
  BY <1>1 DEF Taken
<1>c. Published(c) = 0
  <2>1. (IF main[c] \in {"value", "time"} THEN 1 ELSE 0) = 0
    BY <1>1
  <2>2. dict[c].value = 0
    BY <1>1
  <2>3. Published(c) = 0 - 0
    BY <2>1, <2>2 DEF Published
  <2> QED
    BY <2>3
<1>b. DictTrue(c)
  BY <1>1 DEF DictTrue
<1>3. DictTrue(c) /\ QueueTrue(c)
  BY <1>1, <1>2, <1>a, <1>b, <1>c DEF QueueTrue
<1>4. LineFresh(c) /\ SentFresh(c)
  BY <1>1, <1>2 DEF LineFresh, SentFresh
<1> QED
  BY <1>3, <1>4 DEF Fresh

(* The data are set, and published, by the one thread: the value before    *)
(* the timestamp, the timestamp before the channel is queued.              *)
LEMMA MainStaysFresh ==
  ASSUME TypeOK, NEW c \in Clients, Fresh(c), main[c] = "new" => streamer[c] = "new",
         start(c) \/ Refused(c) \/ set_data(c) \/ stop(c) \/ Join(c)
  PROVE  Fresh(c)'
<1> DEFINE v == dict[c].value   t == dict[c].timestamp   n == Len(sent[c])
<1>1. v \in Nat /\ t \in Nat /\ queue[c] \in Nat /\ line[c].value \in Nat
  BY DEF TypeOK, Line
<1>2. n \in Nat /\ \A k \in 1..n : sent[c][k] \in Line /\ sent[c][k].value \in Nat
  <2>1. sent[c] \in Seq(Line)
    BY DEF TypeOK
  <2>2. \A k \in 1..n : sent[c][k] \in Line
    BY <2>1
  <2> QED
    BY <2>1, <2>2 DEF Line
<1>3. line' = line /\ sent' = sent
  BY DEF start, Refused, set_data, stop, Join, streaming
<1>4. /\ t = v - (IF main[c] = "value" THEN 1 ELSE 0)
      /\ main[c] \in {"value", "time"} => v >= 1
      /\ v - (IF main[c] \in {"value", "time"} THEN 1 ELSE 0)
           = queue[c] + n + Taken(c)
      /\ Taken(c) \in {0, 1}
  BY DEF Fresh, DictTrue, QueueTrue, Published, Taken
<1>5. ASSUME v <= dict'[c].value, streamer'[c] = "send" => streamer[c] = "send",
             dict'[c].value \in Nat
      PROVE  LineFresh(c)' /\ SentFresh(c)'
  <2>1. LineFresh(c)'
    <3>1. LineFresh(c)
      BY DEF Fresh
    <3>2. streamer[c] = "send" => line[c].value <= dict'[c].value
      BY <1>1, <1>5, <3>1 DEF LineFresh
    <3> QED
      BY <1>3, <1>5, <3>1, <3>2 DEF LineFresh
  <2>2. SentFresh(c)'
    <3>1. SentFresh(c)
      BY DEF Fresh
    <3>2. \A k \in 1..n : sent[c][k].value <= dict'[c].value
      BY <1>1, <1>2, <1>5, <3>1 DEF SentFresh
    <3> QED
      BY <1>3, <3>1, <3>2 DEF SentFresh
  <2> QED
    BY <2>1, <2>2
<1>6. ASSUME dict'[c] = dict[c], queue'[c] = queue[c], Taken(c)' = Taken(c),
             main[c] \notin {"value", "time"}, main'[c] \notin {"value", "time"},
             streamer'[c] = "send" => streamer[c] = "send"
      PROVE  Fresh(c)'
  <2>1. DictTrue(c)' /\ QueueTrue(c)'
    BY <1>1, <1>3, <1>4, <1>6 DEF DictTrue, QueueTrue, Published
  <2> QED
    BY <1>1, <1>5, <1>6, <2>1 DEF Fresh
<1>7. CASE start(c)
  <2>1. /\ dict'[c] = dict[c] /\ queue'[c] = queue[c]
        /\ main[c] = "new" /\ main'[c] = "idle" /\ streamer'[c] = "test"
    BY <1>7 DEF start, MainStep, TypeOK
  <2>2. Taken(c) = 0 /\ Taken(c)' = 0
    BY <2>1 DEF Taken
  <2> QED
    BY <1>6, <2>1, <2>2
<1>8. CASE Refused(c) \/ stop(c) \/ Join(c)
  <2>1. /\ dict'[c] = dict[c] /\ queue'[c] = queue[c] /\ streamer'[c] = streamer[c]
        /\ main[c] \notin {"value", "time"} /\ main'[c] \notin {"value", "time"}
    BY <1>8 DEF Refused, stop, Join, MainStep, TypeOK, streaming
  <2>2. Taken(c)' = Taken(c)
    BY <2>1 DEF Taken
  <2> QED
    BY <1>6, <2>1, <2>2
<1>9. CASE set_data(c)
  <2>1. streamer' = streamer
    BY <1>9 DEF set_data, streaming
  <2>2. Taken(c)' = Taken(c)
    BY <2>1 DEF Taken
  <2>3. CASE main[c] = "idle"
    <3>1. main'[c] = "value" /\ queue'[c] = queue[c]
          /\ dict' = [dict EXCEPT ![c].value = @ + 1]
      BY <1>9, <2>3 DEF set_data, MainStep, TypeOK
    <3>2. dict'[c].value = v + 1 /\ dict'[c].timestamp = t
      BY <1>1, <3>1 DEF TypeOK, Line
    <3>3. DictTrue(c)'
      BY <1>1, <1>4, <2>3, <3>1, <3>2 DEF DictTrue
    <3>4. QueueTrue(c)'
      BY <1>1, <1>2, <1>3, <1>4, <2>2, <2>3, <3>1, <3>2 DEF QueueTrue, Published
    <3> QED
      BY <1>1, <1>5, <2>1, <3>2, <3>3, <3>4 DEF Fresh
  <2>4. CASE main[c] = "value"
    <3>1. main'[c] = "time" /\ queue'[c] = queue[c]
          /\ dict' = [dict EXCEPT ![c].timestamp = dict[c].value]
      BY <1>9, <2>4 DEF set_data, MainStep, TypeOK
    <3>2. dict'[c].value = v /\ dict'[c].timestamp = v
      BY <1>1, <3>1 DEF TypeOK, Line
    <3>3. DictTrue(c)'
      BY <1>1, <1>4, <2>4, <3>1, <3>2 DEF DictTrue
    <3>4. QueueTrue(c)'
      BY <1>1, <1>2, <1>3, <1>4, <2>2, <2>4, <3>1, <3>2 DEF QueueTrue, Published
    <3> QED
      BY <1>1, <1>5, <2>1, <3>2, <3>3, <3>4 DEF Fresh
  <2>5. CASE main[c] = "time"
    <3>1. main'[c] = "idle" /\ queue'[c] = queue[c] + 1 /\ dict' = dict
      BY <1>1, <1>9, <2>5 DEF set_data, MainStep, TypeOK
    <3>3. DictTrue(c)'
      BY <1>1, <1>4, <2>5, <3>1 DEF DictTrue
    <3>4. QueueTrue(c)'
      <4>1. Published(c)' = v
        BY <1>1, <3>1 DEF Published
      <4>2. v - 1 = queue[c] + n + Taken(c)
        BY <1>4, <2>5
      <4>3. Len(sent'[c]) = n
        BY <1>3
      <4>4. n \in Nat /\ queue[c] \in Nat /\ v \in Nat /\ Taken(c) \in {0, 1}
        BY <1>1, <1>2, <1>4
      <4> HIDE DEF n, v
      <4>5. v = (queue[c] + 1) + n + Taken(c)
        BY <4>2, <4>4
      <4> QED
        BY <2>2, <3>1, <4>1, <4>3, <4>5 DEF QueueTrue
    <3> QED
      BY <1>1, <1>5, <2>1, <3>1, <3>3, <3>4 DEF Fresh
  <2> QED
    BY <1>9, <2>3, <2>4, <2>5 DEF set_data, MainStep
<1> QED
  BY <1>7, <1>8, <1>9

(* The streamer takes one publication at a time, and sends the data of     *)
(* then or later.                                                          *)
LEMMA StreamerStaysFresh ==
  ASSUME TypeOK, NEW c \in Clients, Fresh(c), Stream(c)
  PROVE  Fresh(c)'
<1> DEFINE v == dict[c].value   t == dict[c].timestamp   n == Len(sent[c])
<1>1. /\ v \in Nat /\ t \in Nat /\ queue[c] \in Nat
      /\ line[c] \in Line /\ line[c].value \in Nat /\ line[c].timestamp \in Nat
  BY DEF TypeOK, Line
<1>2. /\ n \in Nat /\ sent[c] \in Seq(Line)
      /\ \A k \in 1..n : sent[c][k].value \in Nat
  <2>1. sent[c] \in Seq(Line)
    BY DEF TypeOK
  <2>2. \A k \in 1..n : sent[c][k] \in Line
    BY <2>1
  <2> QED
    BY <2>1, <2>2 DEF Line
<1>3. UNCHANGED <<main, dict>>
  BY DEF Stream, Test, get_nowait, to_json, sendall, StreamerStep
<1>4. /\ t = v - (IF main[c] = "value" THEN 1 ELSE 0)
      /\ main[c] \in {"value", "time"} => v >= 1
      /\ Published(c) = queue[c] + n + Taken(c)
      /\ Published(c) <= t
  BY <1>1 DEF Fresh, DictTrue, QueueTrue, Published
<1>5. DictTrue(c)' /\ Published(c)' = Published(c) /\ Published(c) \in Int
  BY <1>1, <1>3 DEF Fresh, DictTrue, Published
<1>6. ASSUME queue'[c] + Taken(c)' = queue[c] + Taken(c), sent' = sent,
             queue'[c] \in Nat, Taken(c)' \in Nat, Taken(c) \in Nat,
             streamer'[c] # "send"
      PROVE  Fresh(c)'
  <2>1. QueueTrue(c)'
    <3>1. Len(sent'[c]) = n
      BY <1>6
    <3>2. Published(c)' = queue'[c] + n + Taken(c)'
      <4>1. /\ n \in Nat /\ queue[c] \in Nat
            /\ Published(c) = queue[c] + n + Taken(c)
        BY <1>1, <1>2, <1>4
      <4>2. Published(c)' = Published(c)
        BY <1>5
      <4> HIDE DEF n
      <4> QED
        BY <1>6, <4>1, <4>2
    <3> QED
      BY <3>1, <3>2 DEF QueueTrue
  <2>2. LineFresh(c)' /\ SentFresh(c)'
    BY <1>3, <1>6 DEF Fresh, LineFresh, SentFresh
  <2> QED
    BY <1>5, <2>1, <2>2 DEF Fresh
<1>7. CASE Test(c)
  <2>1. /\ streamer[c] = "test" /\ streamer'[c] \in {"ended", "get"}
        /\ queue' = queue /\ sent' = sent
    BY <1>7 DEF Test, StreamerStep, TypeOK
  <2> QED
    BY <1>1, <1>6, <2>1 DEF Taken
<1>8. CASE get_nowait(c)
  <2>1. /\ streamer[c] = "get" /\ sent' = sent
        /\ \/ streamer'[c] = "test" /\ queue'[c] = queue[c]
           \/ streamer'[c] = "json" /\ queue'[c] = queue[c] - 1 /\ queue[c] > 0
    BY <1>8 DEF get_nowait, StreamerStep, TypeOK
  <2>2. /\ Taken(c) = 0 /\ Taken(c)' = IF streamer'[c] = "test" THEN 0 ELSE 1
    BY <2>1 DEF Taken
  <2>3. queue'[c] + Taken(c)' = queue[c] + Taken(c) /\ queue'[c] \in Nat
    BY <1>1, <2>1, <2>2
  <2> QED
    BY <1>6, <2>1, <2>2, <2>3
<1>9. CASE to_json(c)
  <2>1. /\ streamer[c] = "json" /\ streamer'[c] = "send"
        /\ queue' = queue /\ sent' = sent /\ line'[c] = dict[c]
    BY <1>9 DEF to_json, StreamerStep, TypeOK
  <2>2. Taken(c) = 1 /\ Taken(c)' = 1
    BY <2>1 DEF Taken
  <2>3. QueueTrue(c)'
    BY <1>4, <1>5, <2>1, <2>2 DEF QueueTrue
  <2>4. t >= n + 1
    BY <1>1, <1>2, <1>4, <1>5, <2>2
  <2>5. Sound(dict[c])
    BY <1>1, <1>4 DEF Sound
  <2>6. LineFresh(c)'
    <3>1. \A k \in 1..n : sent[c][k].value <= v
      BY DEF Fresh, SentFresh
    <3> QED
      BY <1>1, <1>3, <2>1, <2>4, <2>5, <3>1 DEF LineFresh
  <2>7. SentFresh(c)'
    BY <1>3, <2>1 DEF Fresh, SentFresh
  <2> QED
    BY <1>5, <2>3, <2>6, <2>7 DEF Fresh
<1>10. CASE sendall(c) /\ streamer'[c] = "raised"
  <2>1. streamer[c] = "send" /\ queue' = queue /\ sent' = sent
    BY <1>10 DEF sendall, StreamerStep, TypeOK
  <2> QED
    BY <1>1, <1>6, <1>10, <2>1 DEF Taken
<1>11. CASE sendall(c) /\ streamer'[c] # "raised"
  <2>1. /\ streamer[c] = "send" /\ streamer'[c] = "test" /\ queue' = queue
        /\ sent'[c] = Append(sent[c], line[c])
    BY <1>11 DEF sendall, StreamerStep, TypeOK
  <2>2. /\ Len(sent'[c]) = n + 1 /\ sent'[c][n + 1] = line[c]
        /\ \A k \in 1..n : sent'[c][k] = sent[c][k]
    BY <1>1, <1>2, <2>1
  <2>3. Taken(c) = 1 /\ Taken(c)' = 0
    BY <2>1 DEF Taken
  <2>4. QueueTrue(c)'
    BY <1>1, <1>2, <1>4, <1>5, <2>1, <2>2, <2>3 DEF QueueTrue
  <2>5. LineFresh(c)'
    BY <2>1 DEF LineFresh
  <2>6. /\ line[c].timestamp >= n + 1 /\ Sound(line[c]) /\ line[c].value <= v
        /\ \A k \in 1..n : sent[c][k].value <= line[c].value
    BY <2>1 DEF Fresh, LineFresh
  <2>7. SentFresh(c)'
    <3> SUFFICES ASSUME NEW k \in 1..(n + 1)
                 PROVE  /\ sent'[c][k].timestamp >= k /\ Sound(sent'[c][k])
                        /\ sent'[c][k].value <= v
                        /\ k > 1 => sent'[c][k - 1].value <= sent'[c][k].value
      BY <1>3, <2>2 DEF SentFresh
    <3>1. CASE k = n + 1
      <4>1. k > 1 => k - 1 \in 1..n
        BY <1>2, <3>1
      <4> QED
        BY <2>2, <2>6, <3>1, <4>1
    <3>2. CASE k # n + 1
      <4>1. k \in 1..n /\ (k > 1 => k - 1 \in 1..n)
        BY <1>2, <3>2
      <4>2. SentFresh(c)
        BY DEF Fresh
      <4> QED
        BY <2>2, <4>1, <4>2 DEF SentFresh
    <3> QED
      BY <3>1, <3>2
  <2> QED
    BY <1>5, <2>4, <2>5, <2>7 DEF Fresh
<1> QED
  BY <1>7, <1>8, <1>9, <1>10, <1>11 DEF Stream

LEMMA FreshStep ==
  ASSUME TypeOK, [Next]_simVars, NEW c \in Clients, Fresh(c),
         main[c] = "new" => streamer[c] = "new"
  PROVE  Fresh(c)'
<1>1. CASE SameClient(c)
  BY <1>1
  DEF SameClient, Fresh, DictTrue, QueueTrue, LineFresh, SentFresh, Published, Taken
<1> QED
  BY <1>1, ClientSteps, MainStaysFresh, StreamerStaysFresh

-----------------------------------------------------------------------------
(***************************************************************************)
(* The connection, and the handler at its end.                             *)
(***************************************************************************)
SameLink(c) ==
  /\ main'[c] = main[c] /\ streamer'[c] = streamer[c] /\ sent'[c] = sent[c]
  /\ conn'[c] = conn[c] /\ wire'[c] = wire[c]
  /\ handler'[c] = handler[c] /\ stored'[c] = stored[c]

LEMMA LinkSteps ==
  ASSUME TypeOK, [Next]_simVars, NEW c \in Clients
  PROVE  \/ SameLink(c)
         \/ start(c) \/ Refused(c) \/ set_data(c) \/ stop(c) \/ Join(c) \/ Stream(c)
         \/ Accept(c) \/ Handle(c) \/ Close \/ Exit
<1>1. ASSUME UNCHANGED <<publisher, streaming, network, serving>> PROVE SameLink(c)
  BY <1>1 DEF SameLink, publisher, streaming, network, serving
<1>2. ASSUME StartServing \/ Interrupt PROVE SameLink(c)
  BY <1>1, <1>2 DEF StartServing, Interrupt, ServerStep
<1>3. ASSUME NEW d \in Clients, d # c, Accept(d) \/ Handle(d) PROVE SameLink(c)
  <2>1. UNCHANGED <<publisher, streaming>>
    BY <1>3 DEF Accept, Handle, readline, PutTest, PutCreate, capture, HandlerStep
  <2>2. conn'[c] = conn[c] /\ handler'[c] = handler[c]
    BY <1>3
    DEF TypeOK, Accept, Handle, readline, PutTest, PutCreate, capture, HandlerStep
  <2>3. wire'[c] = wire[c] /\ stored'[c] = stored[c]
    BY <1>3 DEF TypeOK, Accept, Handle, readline, PutTest, PutCreate, capture
  <2> QED
    BY <2>1, <2>2, <2>3 DEF SameLink, publisher, streaming
<1>4. ASSUME NEW d \in Clients, d # c,
             start(d) \/ Refused(d) \/ set_data(d) \/ stop(d) \/ Join(d)
      PROVE  SameLink(c)
  <2>1. main'[c] = main[c] /\ UNCHANGED <<sent, wire, handler, stored>>
    BY <1>4
    DEF TypeOK, start, Refused, set_data, stop, Join, MainStep, streaming, network, serving
  <2>2. streamer'[c] = streamer[c] /\ conn'[c] = conn[c]
    BY <1>4 DEF TypeOK, start, Refused, set_data, stop, Join, streaming, network
  <2> QED
    BY <2>1, <2>2 DEF SameLink
<1>5. ASSUME NEW d \in Clients, d # c, Stream(d) PROVE SameLink(c)
  <2>1. streamer'[c] = streamer[c] /\ UNCHANGED <<main, conn, handler, stored>>
    BY <1>5
    DEF TypeOK, Stream, Test, get_nowait, to_json, sendall, StreamerStep, network, serving
  <2>2. sent'[c] = sent[c] /\ wire'[c] = wire[c]
    BY <1>5 DEF TypeOK, Stream, Test, get_nowait, to_json, sendall, network
  <2> QED
    BY <2>1, <2>2 DEF SameLink
<1>6. CASE UNCHANGED simVars
  BY <1>1, <1>6 DEF simVars
<1> QED
  BY <1>2, <1>3, <1>4, <1>5, <1>6 DEF Next, Serve

LEMMA LinkedInit == Init => \A c \in Clients : Linked(c)
BY DEF Init, Linked

LEMMA MainStaysLinked ==
  ASSUME TypeOK, NEW c \in Clients, Linked(c),
         start(c) \/ Refused(c) \/ set_data(c) \/ stop(c) \/ Join(c)
  PROVE  Linked(c)'
<1>1. /\ UNCHANGED <<sent, wire, handler, stored>>
      /\ InHand(c)' = InHand(c)
  BY DEF start, Refused, set_data, stop, Join, MainStep, streaming, network, serving, InHand
<1>2. CASE start(c)
  <2>1. /\ main[c] = "new" /\ main'[c] = "idle" /\ conn'[c] = "queued"
        /\ streamer'[c] = "test"
    BY <1>2 DEF start, MainStep, TypeOK
  <2>2. /\ sent[c] = << >> /\ wire[c] = << >> /\ handler[c] = "none" /\ stored[c] = 0
    BY <2>1 DEF Linked
  <2>3. Len(sent[c]) = 0 /\ Len(wire[c]) = 0 /\ InHand(c) = 0
    BY <2>2 DEF InHand
  <2> QED
    BY <1>1, <2>1, <2>2, <2>3 DEF Linked
<1>3. CASE Refused(c) \/ set_data(c) \/ stop(c)
  <2>1. /\ UNCHANGED <<streamer, conn>>
        /\ main[c] # "stopped" /\ main'[c] \notin {"new", "stopped"}
    BY <1>3 DEF Refused, set_data, stop, MainStep, TypeOK, streaming, network
  <2> QED
    BY <1>1, <2>1 DEF Linked
<1>4. CASE Join(c)
  <2>1. /\ UNCHANGED <<streamer, conn>> /\ streamer[c] \in {"ended", "raised"}
        /\ main[c] = "joining" /\ main'[c] = "stopped"
    BY <1>4 DEF Join, MainStep, TypeOK, streaming, network
  <2> QED
    BY <1>1, <2>1 DEF Linked
<1> QED
  BY <1>2, <1>3, <1>4

LEMMA StreamerStaysLinked ==
  ASSUME TypeOK, NEW c \in Clients, Linked(c), Stream(c)
  PROVE  Linked(c)'
<1>1. UNCHANGED <<main, conn, handler, stored>> /\ InHand(c)' = InHand(c)
  BY DEF Stream, Test, get_nowait, to_json, sendall, StreamerStep, network, serving, InHand
<1>2. streamer[c] \in {"test", "get", "json", "send"}
  BY DEF Stream, Test, get_nowait, to_json, sendall, StreamerStep
<1>3. main[c] \notin {"new", "stopped"} /\ conn[c] # "none" /\ handler[c] # "ended"
  BY <1>2 DEF Linked
<1>4. /\ sent[c] \in Seq(Line) /\ wire[c] \in Seq(Line)
      /\ Len(sent[c]) \in Nat /\ Len(wire[c]) \in Nat /\ stored[c] \in Nat
      /\ InHand(c) \in {0, 1}
  BY DEF TypeOK, InHand
<1>5. ASSUME conn[c] = "reset" \/ (sent'[c] = sent[c] /\ wire'[c] = wire[c])
                 \/ (/\ sent'[c] = Append(sent[c], line[c])
                     /\ wire'[c] = Append(wire[c], line[c]))
      PROVE  Linked(c)'
  <2>1. conn[c] \in {"queued", "open"} =>
          Len(sent'[c]) = Len(wire'[c]) + InHand(c) + stored[c]
    <3>1. CASE sent'[c] = sent[c] /\ wire'[c] = wire[c]
      BY <3>1 DEF Linked
    <3>2. CASE /\ sent'[c] = Append(sent[c], line[c])
               /\ wire'[c] = Append(wire[c], line[c])
      <4>1. Len(sent'[c]) = Len(sent[c]) + 1 /\ Len(wire'[c]) = Len(wire[c]) + 1
        BY <1>4, <3>2
      <4> SUFFICES ASSUME conn[c] \in {"queued", "open"}
                   PROVE  Len(sent'[c]) = Len(wire'[c]) + InHand(c) + stored[c]
        OBVIOUS
      <4>2. Len(sent[c]) = Len(wire[c]) + InHand(c) + stored[c]
        BY DEF Linked
      <4>3. /\ Len(sent[c]) \in Nat /\ Len(wire[c]) \in Nat /\ stored[c] \in Nat
            /\ InHand(c) \in {0, 1}
        BY <1>4
      <4> QED
        BY <4>1, <4>2, <4>3
    <3> QED
      BY <1>5, <3>1, <3>2
  <2> QED
    BY <1>1, <1>3, <2>1 DEF Linked
<1>6. CASE sendall(c)
  <2>1. \/ conn[c] = "reset"
        \/ /\ sent'[c] = Append(sent[c], line[c])
           /\ wire'[c] = Append(wire[c], line[c])
    BY <1>6 DEF sendall, TypeOK
  <2> QED
    BY <1>5, <2>1
<1>7. CASE Test(c) \/ get_nowait(c) \/ to_json(c)
  BY <1>5, <1>7 DEF Test, get_nowait, to_json, network
<1> QED
  BY <1>6, <1>7 DEF Stream

LEMMA HandlerStaysLinked ==
  ASSUME TypeOK, NEW c \in Clients, Linked(c), Accept(c) \/ Handle(c)
  PROVE  Linked(c)'
<1>1. UNCHANGED <<main, streamer, sent>>
  BY DEF Accept, Handle, readline, PutTest, PutCreate, capture, HandlerStep,
         publisher, streaming
<1>2. /\ wire[c] \in Seq(Line) /\ Len(sent[c]) \in Nat /\ Len(wire[c]) \in Nat
      /\ stored[c] \in Nat
  BY DEF TypeOK
<1>3. CASE Accept(c)
  <2>1. /\ conn[c] = "queued" /\ conn'[c] = "open" /\ handler'[c] = "read"
        /\ wire' = wire /\ stored' = stored
    BY <1>3 DEF Accept, TypeOK
  <2>2. handler[c] = "none"
    BY <2>1 DEF Linked
  <2>3. InHand(c) = 0 /\ InHand(c)' = 0
    BY <2>1, <2>2 DEF InHand
  <2> QED
    BY <1>1, <2>1, <2>2, <2>3 DEF Linked
<1>4. CASE Handle(c)
  <2>1. handler[c] \in {"read", "test", "create", "capture"} /\ conn' = conn
    BY <1>4 DEF Handle, readline, PutTest, PutCreate, capture, HandlerStep
  <2>2. conn[c] = "open" /\ main[c] # "new"
        /\ Len(sent[c]) = Len(wire[c]) + InHand(c) + stored[c]
    BY <2>1, <1>2 DEF Linked, TypeOK
  <2>3. ASSUME handler'[c] \in {"read", "test", "create", "capture"},
               Len(wire'[c]) + InHand(c)' + stored'[c] = Len(wire[c]) + InHand(c) + stored[c]
        PROVE  Linked(c)'
    BY <1>1, <2>1, <2>2, <2>3 DEF Linked
  <2>4. CASE readline(c) /\ wire[c] # << >>
    <3>1. /\ handler[c] = "read" /\ handler'[c] = "test" /\ stored' = stored
          /\ wire'[c] = Tail(wire[c])
      BY <2>4 DEF readline, HandlerStep, TypeOK
    <3>2. Len(wire'[c]) = Len(wire[c]) - 1 /\ InHand(c) = 0 /\ InHand(c)' = 1
      BY <1>2, <2>4, <3>1 DEF InHand
    <3> QED
      BY <1>2, <2>3, <3>1, <3>2
  <2>5. CASE readline(c) /\ wire[c] = << >>
    <3>1. /\ handler[c] = "read" /\ handler'[c] = "ended" /\ stored' = stored
          /\ wire' = wire /\ main[c] = "stopped"
      BY <2>5 DEF readline, HandlerStep, TypeOK
    <3>2. Len(wire[c]) = 0 /\ InHand(c) = 0 /\ InHand(c)' = 0
      BY <2>5, <3>1 DEF InHand
    <3>3. Len(sent[c]) = stored[c]
      BY <1>2, <2>2, <3>2
    <3> QED
      BY <1>1, <2>1, <2>2, <2>5, <3>1, <3>2, <3>3 DEF Linked
  <2>6. CASE PutTest(c) \/ PutCreate(c)
    <3>1. /\ handler[c] \in {"test", "create"} /\ handler'[c] \in {"create", "capture"}
          /\ wire' = wire /\ stored' = stored
      BY <2>6 DEF PutTest, PutCreate, HandlerStep, TypeOK
    <3>2. InHand(c) = 1 /\ InHand(c)' = 1
      BY <3>1 DEF InHand
    <3> QED
      BY <2>3, <3>1, <3>2
  <2>7. CASE capture(c)
    <3>1. /\ handler[c] = "capture" /\ handler'[c] = "read" /\ wire' = wire
          /\ stored'[c] = stored[c] + 1
      BY <2>7 DEF capture, HandlerStep, TypeOK
    <3>2. InHand(c) = 1 /\ InHand(c)' = 0
      BY <3>1 DEF InHand
    <3> QED
      BY <1>2, <2>3, <3>1, <3>2
  <2> QED
    BY <1>4, <2>4, <2>5, <2>6, <2>7 DEF Handle
<1> QED
  BY <1>3, <1>4

LEMMA ServerStaysLinked ==
  ASSUME TypeOK, NEW c \in Clients, Linked(c), Close \/ Exit
  PROVE  Linked(c)'
<1>1. UNCHANGED <<main, streamer, sent, stored>>
  BY DEF Close, Exit, ServerStep, publisher, streaming, serving
<1>2. CASE Close
  <2>1. /\ handler' = handler
        /\ conn'[c] = IF conn[c] = "queued" THEN "reset" ELSE conn[c]
        /\ wire'[c] = IF conn[c] = "queued" THEN << >> ELSE wire[c]
    BY <1>2 DEF Close, Reset, serving, TypeOK
  <2>2. InHand(c)' = InHand(c)
    BY <2>1 DEF InHand
  <2> QED
    BY <1>1, <2>1, <2>2 DEF Linked
<1>3. CASE Exit
  <2>1. /\ conn'[c] = IF conn[c] = "open" THEN "reset" ELSE conn[c]
        /\ wire'[c] = IF conn[c] = "open" THEN << >> ELSE wire[c]
        /\ handler'[c] = IF handler[c] \in {"none", "ended"} THEN handler[c] ELSE "killed"
    BY <1>3 DEF Exit, Reset, TypeOK
  <2>2. conn[c] # "open" => handler[c] \in {"none", "ended", "killed"}
    BY DEF Linked, TypeOK
  <2>3. conn'[c] = "queued" => InHand(c)' = InHand(c)
    BY <2>1, <2>2 DEF InHand
  <2> QED
    BY <1>1, <2>1, <2>2, <2>3 DEF Linked
<1> QED
  BY <1>2, <1>3

LEMMA LinkedStep ==
  ASSUME TypeOK, [Next]_simVars, NEW c \in Clients, Linked(c)
  PROVE  Linked(c)'
<1>1. CASE SameLink(c)
  BY <1>1 DEF SameLink, Linked, InHand
<1> QED
  BY <1>1, LinkSteps, MainStaysLinked, StreamerStaysLinked, HandlerStaysLinked,
     ServerStaysLinked

-----------------------------------------------------------------------------
(***************************************************************************)
(* The server's buffer.                                                    *)
(***************************************************************************)
LEMMA KeptInit == Init => \A c \in Clients : Kept(c)
<1> SUFFICES ASSUME Init, NEW c \in Clients PROVE Kept(c)
  OBVIOUS
<1>1. /\ buffer = << >> /\ stored[c] = 0 /\ ~known /\ handler[c] = "none"
      /\ Len(buffer) = 0 /\ DEPTH \in Nat \ {0}
  BY SimAssumption DEF Init
<1> QED
  BY <1>1 DEF Kept, Least

LEMMA KeptStep ==
  ASSUME TypeOK, [Next]_simVars, NEW c \in Clients, Linked(c), Kept(c)
  PROVE  Kept(c)'
<1> SUFFICES ASSUME Alone(c)'
             PROVE  /\ Len(buffer') = Least(stored'[c], DEPTH)
                    /\ stored'[c] > 0 => known'
                    /\ handler'[c] = "create" => ~known'
                    /\ handler'[c] = "capture" => known'
                    /\ handler'[c] = "none" => ~known'
  BY DEF Kept
<1>1. DEPTH \in Nat \ {0} /\ stored[c] \in Nat /\ buffer \in Seq(Line) /\ first \in Line
  BY SimAssumption DEF TypeOK
<1>2. ASSUME Alone(c)
      PROVE  /\ Len(buffer) = Least(stored[c], DEPTH)
             /\ stored[c] > 0 => known
             /\ handler[c] = "create" => ~known
             /\ handler[c] = "capture" => known
             /\ handler[c] = "none" => ~known
  BY <1>2 DEF Kept
<1>3. ASSUME UNCHANGED <<handler, stored, storage>>
      PROVE  Kept(c)'
  BY <1>3 DEF Kept, Alone, storage
<1>4. ASSUME \/ \E d \in Clients :
                  start(d) \/ Refused(d) \/ set_data(d) \/ stop(d) \/ Join(d) \/ Stream(d)
             \/ StartServing \/ Interrupt \/ Close \/ UNCHANGED simVars
      PROVE  UNCHANGED <<handler, stored, storage>>
  BY <1>4
  DEF start, Refused, set_data, stop, Join, MainStep, Stream, Test, get_nowait, to_json,
      sendall, StreamerStep, StartServing, Interrupt, Close, ServerStep, serving, simVars
<1>5. CASE Exit
  <2>1. /\ UNCHANGED <<stored, storage>>
        /\ \A d \in Clients : handler'[d] = IF handler[d] \in {"none", "ended"}
                                            THEN handler[d] ELSE "killed"
    BY <1>5 DEF Exit, ServerStep
  <2>2. Alone(c)
    BY <2>1 DEF Alone
  <2> QED
    BY <1>2, <2>1, <2>2 DEF storage
<1>6. ASSUME NEW d \in Clients, d # c, Accept(d) \/ Handle(d)
      PROVE  FALSE
  <2>1. handler'[d] \in {"read", "test", "create", "capture", "ended"}
    BY <1>6
    DEF TypeOK, Accept, Handle, readline, PutTest, PutCreate, capture, HandlerStep
  <2> QED
    BY <1>6, <2>1 DEF Alone
<1>7. ASSUME Accept(c) \/ Handle(c)
      PROVE  Alone(c) /\ handler'[c] # "none"
  <2>1. /\ handler'[c] # "none"
        /\ \A d \in Clients \ {c} : handler'[d] = handler[d]
    BY <1>7
    DEF TypeOK, Accept, Handle, readline, PutTest, PutCreate, capture, HandlerStep
  <2> QED
    BY <2>1 DEF Alone
<1>8. CASE Accept(c)
  <2>1. handler'[c] = "read" /\ UNCHANGED <<stored, storage>>
    BY <1>8 DEF Accept, TypeOK
  <2> QED
    BY <1>2, <1>7, <1>8, <2>1 DEF storage
<1>9. CASE readline(c)
  <2>1. handler'[c] \in {"test", "ended"} /\ UNCHANGED <<stored, storage>>
    BY <1>9 DEF readline, HandlerStep, TypeOK
  <2> QED
    BY <1>2, <1>7, <1>9, <2>1 DEF storage, Handle
<1>10. CASE PutTest(c)
  <2>1. /\ handler'[c] = IF known THEN "capture" ELSE "create"
        /\ UNCHANGED <<stored, storage>>
    BY <1>10 DEF PutTest, HandlerStep, TypeOK
  <2> QED
    BY <1>2, <1>7, <1>10, <2>1 DEF storage, Handle
<1>11. CASE PutCreate(c)
  <2>1. /\ handler[c] = "create" /\ handler'[c] = "capture"
        /\ stored' = stored /\ known' /\ buffer' = << >>
    BY <1>11 DEF PutCreate, HandlerStep, TypeOK
  <2>2. stored[c] = 0
    BY <1>1, <1>2, <1>7, <1>11, <2>1 DEF Handle
  <2>3. Len(buffer') = Least(stored'[c], DEPTH)
    BY <1>1, <2>1, <2>2 DEF Least
  <2> QED
    BY <2>1, <2>3
<1>12. CASE capture(c)
  <2> DEFINE longer == Append(buffer, first)
  <2>1. /\ handler[c] = "capture" /\ handler'[c] = "read"
        /\ stored'[c] = stored[c] + 1 /\ known' = known
        /\ buffer' = IF Len(longer) > DEPTH THEN Tail(longer) ELSE longer
    BY <1>12 DEF capture, HandlerStep, TypeOK
  <2>2. /\ Len(longer) = Len(buffer) + 1 /\ longer \in Seq(Line)
        /\ Len(buffer) \in Nat
    BY <1>1
  <2> HIDE DEF longer
  <2>3. Len(Tail(longer)) = Len(longer) - 1
    BY <2>2
  <2>4. Len(buffer) = (IF stored[c] < DEPTH THEN stored[c] ELSE DEPTH) /\ known
    BY <1>2, <1>7, <1>12, <2>1 DEF Least, Handle
  <2>5. Len(buffer') = Least(stored'[c], DEPTH)
    <3>1. CASE stored[c] < DEPTH
      BY <1>1, <2>1, <2>2, <2>4, <3>1 DEF Least
    <3>2. CASE stored[c] >= DEPTH
      BY <1>1, <2>1, <2>2, <2>3, <2>4, <3>2 DEF Least
    <3> QED
      BY <1>1, <3>1, <3>2
  <2> QED
    BY <2>1, <2>4, <2>5
<1>13. CASE UNCHANGED <<handler, stored, storage>>
  BY <1>3, <1>13 DEF Kept
<1>14. ASSUME NEW d \in Clients, Accept(d) \/ Handle(d)
       PROVE  Kept(c)'
  <2>1. d = c
    BY <1>6, <1>14
  <2> QED
    BY <1>8, <1>9, <1>10, <1>11, <1>12, <1>14, <2>1 DEF Handle, Kept
<1> QED
  BY <1>4, <1>5, <1>13, <1>14 DEF Next, Serve, Kept

-----------------------------------------------------------------------------
LEMMA InvInit == Init => IInv
BY TypeInit, FreshInit, LinkedInit, KeptInit DEF IInv

LEMMA InvStep == IInv /\ [Next]_simVars => IInv'
<1> SUFFICES ASSUME IInv, [Next]_simVars PROVE IInv'
  OBVIOUS
<1>1. TypeOK /\ TypeOK'
  BY TypeStep DEF IInv
<1>2. ASSUME NEW c \in Clients PROVE Fresh(c)' /\ Linked(c)' /\ Kept(c)'
  <2>1. Fresh(c) /\ Linked(c) /\ Kept(c)
    BY DEF IInv
  <2>2. main[c] = "new" => streamer[c] = "new"
    BY <2>1 DEF Linked
  <2> QED
    BY <1>1, <2>1, <2>2, FreshStep, LinkedStep, KeptStep
<1> QED
  BY <1>1, <1>2 DEF IInv

LEMMA Inductive == Spec => []IInv
BY InvInit, InvStep, PTL DEF Spec

(* A queued channel is never older than what was published when it is      *)
(* sent, although what is sent is the channel of then                      *)
(* (Channel.set_data, Channel.publish, stream_telemetry).                  *)
THEOREM NeverStaleAlways == Spec => []NeverStale
<1>1. ASSUME IInv PROVE NeverStale
  <2> SUFFICES ASSUME NEW c \in Clients, NEW k \in DOMAIN sent[c]
               PROVE  /\ sent[c][k].timestamp >= k
                      /\ sent[c][k].value - sent[c][k].timestamp \in {0, 1}
                      /\ k > 1 => sent[c][k - 1].value <= sent[c][k].value
    BY DEF NeverStale
  <2>1. k \in 1..Len(sent[c])
    BY <1>1 DEF IInv, TypeOK
  <2>2. SentFresh(c)
    BY <1>1 DEF IInv, Fresh
  <2> QED
    BY <2>1, <2>2 DEF SentFresh, Sound
<1> QED
  BY <1>1, Inductive, PTL

(* Everything a client has sent is put before its handler ends, and one    *)
(* client's channel is kept up to the buffer's depth (handle, put,         *)
(* capture).                                                               *)
THEOREM SentIsStoredAlways == Spec => []SentIsStored
<1>1. ASSUME IInv PROVE SentIsStored
  <2> SUFFICES ASSUME NEW c \in Clients
               PROVE  /\ handler[c] = "ended" => stored[c] = Len(sent[c])
                      /\ /\ handler[c] \in {"read", "ended"}
                         /\ \A d \in Clients \ {c} : handler[d] = "none"
                         => Len(buffer) = IF stored[c] < DEPTH THEN stored[c] ELSE DEPTH
    BY DEF SentIsStored
  <2>1. Linked(c) /\ Kept(c)
    BY <1>1 DEF IInv
  <2> QED
    BY <2>1 DEF Linked, Kept, Alone, Least
<1> QED
  BY <1>1, Inductive, PTL
=============================================================================
