------------------------------ MODULE GroundStation ------------------------------
(***************************************************************************)
(* The ground station: ui/server.js, which learns the quadcopter's         *)
(* channels from its manifest and passes their data on, and the pages      *)
(* (ui/main.js, ui/manifest.js) connected to it through socket.io, which   *)
(* hook a plot to every channel they are told of.                          *)
(*                                                                         *)
(* The server runs one callback at a time.  The quadcopter, which is not   *)
(* here, sends the lines of its manifest in order on one TCP connection    *)
(* and may send it again; packets come on connections of their own, with   *)
(* nothing to keep them behind the manifest.  The manifest comes in whole  *)
(* lines.  A chunk of a data connection may be anything: the server takes  *)
(* it for one packet, and throws if it ends too early for that.            *)
(* socket.io keeps each page's messages in order while it is connected; a  *)
(* page whose connection is lost connects again by itself, and keeps its   *)
(* hooks.                                                                  *)
(***************************************************************************)
EXTENDS Integers, Sequences, FiniteSets

CONSTANTS
  Pages,     (* the pages                                                  *)
  Channels,  (* how many channels the quadcopter has                       *)
  Rounds,    (* how often it sends its manifest: a bound                   *)
  Joins,     (* how often a page connects: a bound                         *)
  Backlog    (* how many messages wait for a page: a bound                 *)

ASSUME GroundAssumption ==
  /\ Channels \in Nat \ {0} /\ Rounds \in Nat \ {0}
  /\ Joins \in Nat \ {0} /\ Backlog \in Nat \ {0}

Index == 0..(Channels - 1)

VARIABLES
  manifest,  (* the indices at which the server knows a channel            *)
  server,    (* "up", or what it ended of: "short_chunk", "no_channel"     *)
  next_line, (* the line of the manifest the quadcopter sends next         *)
  round,     (* which time it sends the manifest                           *)
  links,     (* its connections to the data server                         *)
  connected, (* whether a page is connected                                *)
  joins,     (* how often it has been                                      *)
  skipped,   (* the channels known, and not told, when it last connected   *)
  inbox,     (* the messages on their way to it                            *)
  hooks,     (* how many hooks it has for each channel                     *)
  data_sign  (* its light for the data connection                          *)

quadcopter == <<next_line, round, links>>
page       == <<connected, joins, skipped>>
shown      == <<hooks, data_sign>>
groundVars == <<manifest, server, quadcopter, page, inbox, shown>>

(* Data is a packet's values and the data_status 1 behind them, Values is  *)
(* what comes of a packet without it.                                      *)
ManifestLine(cs) == [kind |-> "manifestLine", channels |-> cs]
Data(cs)         == [kind |-> "data", channels |-> cs]
Values(cs)       == [kind |-> "values", channels |-> cs]
DataStatus0      == [kind |-> "data_status", channels |-> {}]

Init ==
  /\ manifest = {} /\ server = "up"
  /\ next_line = 0 /\ round = 1 /\ links = 0
  /\ connected = [p \in Pages |-> FALSE]
  /\ joins = [p \in Pages |-> 0]
  /\ skipped = [p \in Pages |-> {}]
  /\ inbox = [p \in Pages |-> << >>]
  /\ hooks = [p \in Pages |-> [c \in Index |-> 0]]
  /\ data_sign = [p \in Pages |-> "none"]

(* manifest.length: one more than the greatest index that was assigned. *)
ManifestLength ==
  IF manifest = {} THEN 0 ELSE 1 + CHOOSE c \in manifest : \A d \in manifest : d <= c

(* socket_io.emit: to every page that is connected. *)
Emit(message) ==
  inbox' = [p \in Pages |-> IF connected[p] THEN Append(inbox[p], message) ELSE inbox[p]]

HasRoom == \A p \in Pages : Len(inbox[p]) < Backlog

-----------------------------------------------------------------------------
(***************************************************************************)
(* The server's callbacks.                                                 *)
(***************************************************************************)

(* Mutant: a line that is sent again is taken for a new channel. *)
handle_manifest_line_Again(c) ==
  /\ manifest' = manifest \union {c}
  /\ Emit(ManifestLine({c}))

(* The channel's name stands for it: a known one is not stored again. *)
handle_manifest_line(c) ==
  IF c \in manifest
  THEN UNCHANGED <<manifest, inbox>>
  ELSE /\ manifest' = manifest \union {c}
       /\ Emit(ManifestLine({c}))

ManifestData ==
  /\ server = "up" /\ HasRoom
  /\ next_line < Channels
  /\ next_line' = next_line + 1
  /\ handle_manifest_line(next_line)
  /\ UNCHANGED <<server, round, links, page, shown>>

(* The quadcopter connects anew, and sends its manifest from the start. *)
Retransmit ==
  /\ round < Rounds
  /\ round' = round + 1
  /\ next_line' = 0
  /\ UNCHANGED <<manifest, server, links, page, inbox, shown>>

DataConnection ==
  /\ server = "up" /\ links < 2
  /\ links' = links + 1
  /\ UNCHANGED <<manifest, server, next_line, round, page, inbox, shown>>

(* Mutant: the first index that is out of range is let through. *)
OutOfRange_OffByOne(cs) == \E c \in cs : c > ManifestLength

OutOfRange(cs) == \E c \in cs : c >= ManifestLength

(* The indices of a chunk, in its order, as far as it goes.  Nothing of a  *)
(* packet with one out of range is passed on.                              *)
Dropped(cs) == OutOfRange(cs) /\ UNCHANGED <<inbox, server, links>>

PassedOn(cs) ==
  /\ ~OutOfRange(cs) /\ cs \subseteq manifest
  /\ Emit(Data(cs))
  /\ UNCHANGED <<server, links>>

(* The chunk ends before its count and its channels' sizes say, or there   *)
(* is no channel at an index in range: nobody catches the exception, and   *)
(* the server ends, and all its connections.  The values before that may   *)
(* have been passed on.                                                    *)
Thrown(cs, short) ==
  /\ ~OutOfRange(cs) /\ (short \/ ~(cs \subseteq manifest))
  /\ \E before \in SUBSET (cs \intersect manifest) :
       IF before = {} THEN UNCHANGED inbox ELSE Emit(Values(before))
  /\ server' = IF cs \subseteq manifest THEN "short_chunk" ELSE "no_channel"
  /\ links' = 0

handle_telemetry(cs, short) ==
  /\ server = "up" /\ HasRoom /\ links > 0
  /\ \/ Dropped(cs)
     \/ ~short /\ PassedOn(cs)
     \/ Thrown(cs, short)
  /\ UNCHANGED <<manifest, next_line, round, page, shown>>

(* Mutant: nothing is shown of a connection's end. *)
handle_connection_close_Silent ==
  /\ server = "up" /\ HasRoom
  /\ links > 0 /\ links' = links - 1
  /\ UNCHANGED <<manifest, server, next_line, round, page, inbox, shown>>

handle_connection_close ==
  /\ server = "up" /\ HasRoom
  /\ links > 0 /\ links' = links - 1
  /\ Emit(DataStatus0)
  /\ UNCHANGED <<manifest, server, next_line, round, page, shown>>

(* Mutant: a page that connects late gets the channels to come only. *)
Greeting_None(p) ==
  /\ inbox' = [inbox EXCEPT ![p] = << >>]
  /\ skipped' = [skipped EXCEPT ![p] = {}]

(* The manifest is sent when its length is more than 1: a page that        *)
(* connects when one channel is known is not told of it.                   *)
Greeting(p) ==
  IF ManifestLength > 1
  THEN /\ inbox' = [inbox EXCEPT ![p] = <<ManifestLine(manifest)>>]
       /\ skipped' = [skipped EXCEPT ![p] = {}]
  ELSE /\ inbox' = [inbox EXCEPT ![p] = << >>]
       /\ skipped' = [skipped EXCEPT ![p] = manifest]

Connection(p) ==
  /\ server = "up"
  /\ ~connected[p] /\ joins[p] < Joins
  /\ connected' = [connected EXCEPT ![p] = TRUE]
  /\ joins' = [joins EXCEPT ![p] = @ + 1]
  /\ Greeting(p)
  /\ UNCHANGED <<manifest, server, quadcopter, shown>>

(* What was on its way is lost. *)
Disconnect(p) ==
  /\ connected[p]
  /\ connected' = [connected EXCEPT ![p] = FALSE]
  /\ inbox' = [inbox EXCEPT ![p] = << >>]
  /\ UNCHANGED <<manifest, server, quadcopter, joins, skipped, shown>>

-----------------------------------------------------------------------------
(***************************************************************************)
(* A page's callbacks.                                                     *)
(***************************************************************************)
Receives(p, kind) ==
  /\ inbox[p] # << >> /\ Head(inbox[p]).kind = kind
  /\ inbox' = [inbox EXCEPT ![p] = Tail(@)]
  /\ UNCHANGED <<manifest, server, quadcopter, page>>

manifest_handle(p) ==
  /\ Receives(p, "manifestLine")
  /\ hooks' = [hooks EXCEPT ![p] =
       [c \in Index |-> @[c] + IF c \in Head(inbox[p]).channels THEN 1 ELSE 0]]
  /\ UNCHANGED data_sign

PageData(p) ==
  /\ Receives(p, "data")
  /\ data_sign' = [data_sign EXCEPT ![p] = "green"]
  /\ UNCHANGED hooks

PageValues(p) == Receives(p, "values") /\ UNCHANGED shown

PageStatus(p) ==
  /\ Receives(p, "data_status")
  /\ data_sign' = [data_sign EXCEPT ![p] = "red"]
  /\ UNCHANGED hooks

PageStep(p) == manifest_handle(p) \/ PageData(p) \/ PageValues(p) \/ PageStatus(p)

-----------------------------------------------------------------------------
Next ==
  \/ ManifestData \/ Retransmit
  \/ DataConnection \/ handle_connection_close
  \/ \E cs \in SUBSET (0..Channels), short \in BOOLEAN : handle_telemetry(cs, short)
  \/ \E p \in Pages : Connection(p) \/ Disconnect(p) \/ PageStep(p)

(* A page that is open handles its messages. *)
Spec ==
  /\ Init /\ [][Next]_groundVars
  /\ \A p \in Pages : WF_groundVars(PageStep(p))

-----------------------------------------------------------------------------
(* Whatever indices a packet has, and whichever comes first, the packet or *)
(* the lines of the manifest: where an index is in range there is a        *)
(* channel (handle_telemetry, handle_manifest_line).  The server ends of   *)
(* chunks that are too short, and of nothing else.                         *)
NoHoleThrows == server # "no_channel"

Told(p, c, k) ==
  \/ hooks[p][c] > 0
  \/ \E j \in 1..k : inbox[p][j].kind = "manifestLine" /\ c \in inbox[p][j].channels

(* A connected page knows every channel the server does, or is being told, *)
(* and is told of a channel before it gets data of it, but for the channel *)
(* that was the only one when the page connected.                          *)
PagesKnow ==
  \A p \in Pages : connected[p] =>
    /\ \A c \in manifest \ skipped[p] : Told(p, c, Len(inbox[p]))
    /\ \A k \in DOMAIN inbox[p] :
         inbox[p][k].kind \in {"data", "values"} =>
           \A c \in inbox[p][k].channels \ skipped[p] : Told(p, c, k)

(* A page's plot of a channel is hooked once for each time the page has    *)
(* connected, however often the quadcopter sends its manifest: its data is *)
(* not drawn twice.                                                        *)
Telling(p, c) ==
  Cardinality({j \in DOMAIN inbox[p] :
                 inbox[p][j].kind = "manifestLine" /\ c \in inbox[p][j].channels})

HookedOnce ==
  \A p \in Pages, c \in Index : hooks[p][c] + Telling(p, c) <= joins[p]

(* When all data connections have closed, no page that stays connected     *)
(* goes on showing that data comes, even though a connection may close     *)
(* after a later one was opened (handle_connection_close).  A page that    *)
(* has lost its connection once may have missed it: it is told nothing of  *)
(* the data connection when it comes back, and no page is told of a server *)
(* that ended.                                                             *)
ClosedIsShown ==
  \A p \in Pages :
    server = "up" /\ links = 0 /\ connected[p] /\ joins[p] = 1
      ~> data_sign[p] # "green" \/ links > 0 \/ ~connected[p]
=============================================================================
