---------------------------- MODULE StreamManager ----------------------------
(***************************************************************************)
(* The streams of the telemetry daemon (py/telemetry/StreamManager.py):    *)
(* output_streams is a dict that several threads change while others       *)
(* iterate over it.  Each of its operations is atomic under the            *)
(* interpreter's lock; between two steps of an iteration any thread may    *)
(* run.                                                                    *)
(*                                                                         *)
(* A dict (CPython's, from 3.6 on) keeps its entries in a table, in the    *)
(* order of insertion.  A removal leaves its place in the table empty; an  *)
(* insertion that finds no room left makes the table anew, without the     *)
(* empty places.  An iterator remembers its place in the table and the     *)
(* number of entries there were.  It raises RuntimeError when asked for    *)
(* the next with another number there, but a table made anew under it does *)
(* not tell it that the entries have moved.                                *)
(***************************************************************************)
EXTENDS Integers, FiniteSets

CONSTANTS
  NoOutput,        (* an iterator at no entry                              *)
  ROOM,            (* insertions a new dict has room for (5)               *)
  Rooms            (* insertions a table made anew may have room for: it   *)
                   (* depends on the interpreter and on the entries kept   *)

ASSUME StreamAssumption ==
  /\ ROOM \in Nat \ {0}
  /\ Rooms \subseteq Nat \ {0}

(* Each name's place in the table, 0 if it is not there; the places used,  *)
(* by entries or by what they left behind; the places free.                *)
NewStream(Names) == [place |-> [n \in Names |-> 0], entries |-> 0, room |-> ROOM]

Outputs(stream) == {n \in DOMAIN stream.place : stream.place[n] > 0}

(* The table made anew: the entries move up. *)
Rank(stream, name) ==
  Cardinality({n \in Outputs(stream) : stream.place[n] <= stream.place[name]})

Compacted(stream, room) ==
  [place   |-> [n \in DOMAIN stream.place |-> Rank(stream, n)],
   entries |-> Cardinality(Outputs(stream)),
   room    |-> room]

Appended(stream, name) ==
  [place   |-> [stream.place EXCEPT ![name] = stream.entries + 1],
   entries |-> stream.entries + 1,
   room    |-> stream.room - 1]

add_output(stream, name, room) ==
  IF name \in Outputs(stream) THEN stream
  ELSE IF stream.room > 0 THEN Appended(stream, name)
  ELSE Appended(Compacted(stream, room), name)

(* pop(name, None): no harm if it is not there. *)
remove_output(stream, name) == [stream EXCEPT !.place[name] = 0]

-----------------------------------------------------------------------------
(* The iterator of write's `for _, stream in self.output_streams.items()': *)
(* its place, the number of entries it expects in all and still to come,   *)
(* the entry it is at.                                                     *)
Iterator(Names) ==
  [on : BOOLEAN, pos : Nat, size : Nat, left : Int, at : Names \union {NoOutput}]

NoIterator == [on |-> FALSE, pos |-> 0, size |-> 0, left |-> 0, at |-> NoOutput]

Iterate(stream) ==
  LET size == Cardinality(Outputs(stream))
  IN  [on |-> TRUE, pos |-> 0, size |-> size, left |-> size, at |-> NoOutput]

Ahead(stream, it) == {n \in Outputs(stream) : stream.place[n] > it.pos}

(* The entries it has still to write to, if the table stays as it is. *)
Owed(stream, it) ==
  IF it.on THEN Ahead(stream, it) \union (Outputs(stream) \intersect {it.at}) ELSE {}

Changed(stream, it) == Cardinality(Outputs(stream)) # it.size

(* An entry more than it expects: from 3.8 on an interpreter may raise. *)
Unexpected(stream, it) == Ahead(stream, it) # {} /\ it.left <= 0

NextEntry(stream, it) ==
  CHOOSE n \in Ahead(stream, it) :
    \A m \in Ahead(stream, it) : stream.place[n] <= stream.place[m]

Advance(stream, it) ==
  LET n == NextEntry(stream, it)
  IN  [it EXCEPT !.pos = stream.place[n], !.left = @ - 1, !.at = n]
=============================================================================
