---------------------------- MODULE DaemonProofs ----------------------------
(***************************************************************************)
(* Theorems about TelemetryDaemon, for every set of TCP and WebSocket      *)
(* clients.                                                                *)
(***************************************************************************)
EXTENDS TelemetryDaemon, FiniteSetTheorems, WellFoundedInduction, TLAPS

-----------------------------------------------------------------------------
(***************************************************************************)
(* What the operations of StreamManager do to a stream and to the          *)
(* iterations under way in it, for every set of names.                     *)
(***************************************************************************)

(* A stream as its operations leave it: no two entries in one place, none  *)
(* beyond the places used.                                                 *)
StreamOK(stream, Names) ==
  /\ stream \in [place : [Names -> Nat], entries : Nat, room : Nat]
  /\ IsFiniteSet(Outputs(stream))
  /\ \A n \in Names : stream.place[n] <= stream.entries
  /\ \A m, n \in Outputs(stream) : stream.place[m] = stream.place[n] => m = n

(* An iterator of that stream: the entry that it is at is not before it.   *)
IteratorOK(stream, iter, Names) ==
  /\ iter \in Iterator(Names)
  /\ iter.at \in Outputs(stream) => stream.place[iter.at] <= iter.pos

-----------------------------------------------------------------------------
Below == {pair \in Nat \X Nat : pair[1] < pair[2]}

LEMMA LeastNatural ==
  ASSUME NEW T \in SUBSET Nat, T # {}
  PROVE  \E x \in T : \A y \in T : x <= y
<1>1. IsWellFoundedOn(Below, Nat)
  BY NatLessThanWellFounded DEF OpToRel, Below
<1>2. PICK x \in T : \A y \in T : ~(<<y, x>> \in Below)
  BY <1>1, WFMin
<1>3. \A y \in T : ~(y < x)
  BY <1>2 DEF Below
<1> QED
  BY <1>3

(* NextEntry is the first of the entries ahead. *)
LEMMA NextEntryIsFirst ==
  ASSUME NEW Names, NEW stream, StreamOK(stream, Names), NEW iter,
         Ahead(stream, iter) # {}
  PROVE  /\ NextEntry(stream, iter) \in Ahead(stream, iter)
         /\ \A m \in Ahead(stream, iter) :
              stream.place[NextEntry(stream, iter)] <= stream.place[m]
<1> DEFINE T == {stream.place[n] : n \in Ahead(stream, iter)}
<1>1. /\ stream.place \in [Names -> Nat] /\ DOMAIN stream.place = Names
      /\ Ahead(stream, iter) \subseteq Names
  BY DEF StreamOK, Ahead, Outputs
<1>2. T \in SUBSET Nat /\ T # {}
  BY <1>1
<1>3. PICK x \in T : \A y \in T : x <= y
  <2> HIDE DEF T
  <2> QED
    BY <1>2, LeastNatural
<1>4. \E n \in Ahead(stream, iter) :
        \A m \in Ahead(stream, iter) : stream.place[n] <= stream.place[m]
  BY <1>3
<1> QED
  BY <1>4 DEF NextEntry

-----------------------------------------------------------------------------
LEMMA NewStreamOK ==
  ASSUME NEW Names
  PROVE  /\ StreamOK(NewStream(Names), Names)
         /\ Outputs(NewStream(Names)) = {}
<1>1. Outputs(NewStream(Names)) = {}
  BY DEF Outputs, NewStream
<1>2. NewStream(Names) \in [place : [Names -> Nat], entries : Nat, room : Nat]
  BY StreamAssumption DEF NewStream
<1> QED
  BY <1>1, <1>2, FS_EmptySet DEF StreamOK, NewStream

LEMMA NoIteratorOK ==
  ASSUME NEW Names, NoOutput \notin Names, NEW stream, StreamOK(stream, Names)
  PROVE  /\ IteratorOK(stream, NoIterator, Names)
         /\ Owed(stream, NoIterator) = {}
<1>1. stream.place \in [Names -> Nat]
  BY DEF StreamOK
<1>2. NoIterator \in Iterator(Names)
  BY DEF NoIterator, Iterator
<1>3. Outputs(stream) \subseteq Names
  BY <1>1 DEF Outputs
<1>4. IteratorOK(stream, NoIterator, Names)
  BY <1>2, <1>3 DEF IteratorOK, NoIterator
<1> QED
  BY <1>4 DEF Owed, NoIterator

-----------------------------------------------------------------------------
(* An entry's place in the table made anew is at least 1, no higher than   *)
(* before, and the entries keep their order.                               *)
LEMMA RankFacts ==
  ASSUME NEW Names, NEW stream, StreamOK(stream, Names)
  PROVE  /\ \A n \in Names : /\ Rank(stream, n) \in Nat
                             /\ Rank(stream, n) <= Cardinality(Outputs(stream))
                             /\ Rank(stream, n) <= stream.place[n]
                             /\ Rank(stream, n) > 0 <=> n \in Outputs(stream)
         /\ \A m, n \in Outputs(stream) : Rank(stream, m) = Rank(stream, n) => m = n
<1> DEFINE UpTo(n) == {m \in Outputs(stream) : stream.place[m] <= stream.place[n]}
<1>1. /\ stream.place \in [Names -> Nat] /\ DOMAIN stream.place = Names
      /\ Outputs(stream) \subseteq Names /\ IsFiniteSet(Outputs(stream))
      /\ \A m, n \in Outputs(stream) : stream.place[m] = stream.place[n] => m = n
  BY DEF StreamOK, Outputs
<1>2. \A n : Rank(stream, n) = Cardinality(UpTo(n))
  BY DEF Rank
<1>3. \A n : UpTo(n) \in SUBSET Outputs(stream)
  OBVIOUS
<1>4. \A n : /\ IsFiniteSet(UpTo(n)) /\ Cardinality(UpTo(n)) \in Nat
             /\ Cardinality(UpTo(n)) <= Cardinality(Outputs(stream))
  <2> HIDE DEF UpTo
  <2> QED
    BY <1>1, <1>3, FS_Subset, FS_CardinalityType
<1>5. ASSUME NEW n \in Names
      PROVE  Cardinality(UpTo(n)) <= stream.place[n]
  <2> DEFINE f == [m \in UpTo(n) |-> stream.place[m]]
  <2>1. stream.place[n] \in Nat
    BY <1>1
  <2>2. f \in Injection(UpTo(n), 1 .. stream.place[n])
    <3>1. \A m \in UpTo(n) : stream.place[m] \in 1 .. stream.place[n]
      BY <1>1, <2>1 DEF Outputs
    <3>2. f \in [UpTo(n) -> 1 .. stream.place[n]]
      BY <3>1
    <3>3. \A a, b \in UpTo(n) : f[a] = f[b] => a = b
      BY <1>1
    <3> QED
      BY <3>2, <3>3 DEF Injection, IsInjective
  <2>3. /\ IsFiniteSet(1 .. stream.place[n])
        /\ Cardinality(1 .. stream.place[n]) = stream.place[n]
    <3>1. 1 \in Int /\ stream.place[n] \in Int
      BY <2>1
    <3>2. /\ IsFiniteSet(1 .. stream.place[n])
          /\ Cardinality(1 .. stream.place[n]) =
               IF 1 > stream.place[n] THEN 0 ELSE stream.place[n] - 1 + 1
      BY <3>1, FS_Interval
    <3> HIDE DEF f, UpTo
    <3> QED
      BY <2>1, <3>2
  <2> HIDE DEF f, UpTo
  <2> QED
    BY <2>2, <2>3, FS_Injection
<1>6. ASSUME NEW n \in Names
      PROVE  Cardinality(UpTo(n)) > 0 <=> n \in Outputs(stream)
  <2>1. n \in Outputs(stream) => n \in UpTo(n)
    BY <1>1
  <2>2. n \notin Outputs(stream) => UpTo(n) = {}
    BY <1>1 DEF Outputs
  <2>3. Cardinality(UpTo(n)) = 0 <=> UpTo(n) = {}
    BY <1>4, FS_EmptySet
  <2> HIDE DEF UpTo
  <2> QED
    BY <1>4, <2>1, <2>2, <2>3
<1>7. ASSUME NEW m \in Outputs(stream), NEW n \in Outputs(stream),
             Cardinality(UpTo(m)) = Cardinality(UpTo(n)),
             stream.place[m] <= stream.place[n]
      PROVE  m = n
  <2>1. UpTo(m) \in SUBSET UpTo(n)
    BY <1>1, <1>7
  <2>2. UpTo(n) = UpTo(m)
    <3> HIDE DEF UpTo
    <3> QED
      BY <1>4, <1>7, <2>1, FS_Subset
  <2>3. n \in UpTo(m)
    BY <1>1, <2>2
  <2>4. stream.place[n] <= stream.place[m]
    BY <2>3
  <2>5. stream.place[m] \in Nat /\ stream.place[n] \in Nat
    BY <1>1
  <2> QED
    BY <1>1, <1>7, <2>4, <2>5
<1>8. \A m, n \in Outputs(stream) :
        Cardinality(UpTo(m)) = Cardinality(UpTo(n)) => m = n
  <2>1. \A m, n \in Outputs(stream) :
          stream.place[m] <= stream.place[n] \/ stream.place[n] <= stream.place[m]
    BY <1>1
  <2> HIDE DEF UpTo
  <2> QED
    BY <1>7, <2>1
<1> HIDE DEF UpTo
<1> QED
  BY <1>2, <1>4, <1>5, <1>6, <1>8

(* A table made anew holds the same outputs.  An iteration under way may   *)
(* miss some of what it owes, and comes upon nothing else.                 *)
LEMMA MadeAnew ==
  ASSUME NEW Names, NEW stream, StreamOK(stream, Names), NEW room \in Nat
  PROVE  /\ StreamOK(Compacted(stream, room), Names)
         /\ Outputs(Compacted(stream, room)) = Outputs(stream)
         /\ Compacted(stream, room).room = room
         /\ \A iter : IteratorOK(stream, iter, Names) =>
              /\ IteratorOK(Compacted(stream, room), iter, Names)
              /\ Owed(Compacted(stream, room), iter) \subseteq Owed(stream, iter)
<1> DEFINE new == Compacted(stream, room)
<1>1. /\ stream.place \in [Names -> Nat] /\ DOMAIN stream.place = Names
      /\ Outputs(stream) \subseteq Names /\ IsFiniteSet(Outputs(stream))
  BY DEF StreamOK, Outputs
<1>2. Cardinality(Outputs(stream)) \in Nat
  BY <1>1, FS_CardinalityType
<1>3. /\ new.place = [n \in Names |-> Rank(stream, n)]
      /\ new.entries = Cardinality(Outputs(stream)) /\ new.room = room
      /\ new = [place |-> new.place, entries |-> new.entries, room |-> new.room]
  BY <1>1 DEF Compacted
<1> HIDE DEF new
<1>4. /\ new.place \in [Names -> Nat] /\ DOMAIN new.place = Names
      /\ \A n \in Names : new.place[n] = Rank(stream, n)
  BY <1>3, RankFacts
<1>5. Outputs(new) = Outputs(stream)
  <2>1. \A n \in Names : new.place[n] > 0 <=> n \in Outputs(stream)
    BY <1>4, RankFacts
  <2> QED
    BY <1>1, <1>4, <2>1 DEF Outputs
<1>6. \A n \in Names : /\ new.place[n] <= new.entries
                       /\ new.place[n] <= stream.place[n]
  BY <1>3, <1>4, RankFacts
<1>7. StreamOK(new, Names)
  <2>1. new \in [place : [Names -> Nat], entries : Nat, room : Nat]
    BY <1>2, <1>3, <1>4
  <2>2. \A m, n \in Outputs(new) : new.place[m] = new.place[n] => m = n
    BY <1>1, <1>4, <1>5, RankFacts
  <2> QED
    BY <1>1, <1>5, <1>6, <2>1, <2>2 DEF StreamOK
<1>8. ASSUME NEW iter, IteratorOK(stream, iter, Names)
      PROVE  /\ IteratorOK(new, iter, Names)
             /\ Owed(new, iter) \subseteq Owed(stream, iter)
  <2>1. iter \in Iterator(Names) /\ iter.pos \in Nat
    BY <1>8 DEF IteratorOK, Iterator
  <2>2. \A n \in Names : new.place[n] \in Nat /\ stream.place[n] \in Nat
    BY <1>1, <1>4
  <2>3. IteratorOK(new, iter, Names)
    BY <1>1, <1>5, <1>6, <1>8, <2>1, <2>2 DEF IteratorOK
  <2>4. Ahead(new, iter) \subseteq Ahead(stream, iter)
    BY <1>1, <1>5, <1>6, <2>1, <2>2 DEF Ahead
  <2> QED
    BY <1>5, <2>3, <2>4 DEF Owed
<1> QED
  BY <1>3, <1>5, <1>7, <1>8 DEF new

(* An output added behind the others: the iterations under way may come    *)
(* upon it, and lose nothing that they owe.                                *)
LEMMA AppendOutput ==
  ASSUME NEW Names, NEW stream, StreamOK(stream, Names), stream.room > 0,
         NEW name \in Names, name \notin Outputs(stream)
  PROVE  /\ StreamOK(Appended(stream, name), Names)
         /\ Outputs(Appended(stream, name)) = Outputs(stream) \union {name}
         /\ Appended(stream, name).room = stream.room - 1
         /\ \A iter : IteratorOK(stream, iter, Names) /\ iter.at # name =>
              /\ IteratorOK(Appended(stream, name), iter, Names)
              /\ iter.on => Owed(stream, iter) \subseteq Owed(Appended(stream, name), iter)
              /\ Owed(Appended(stream, name), iter) \subseteq Owed(stream, iter) \union {name}
              /\ ~iter.on => Owed(Appended(stream, name), iter) = {}
<1> DEFINE new == Appended(stream, name)
<1>1. /\ stream.place \in [Names -> Nat] /\ stream.entries \in Nat
      /\ stream.room \in Nat /\ Outputs(stream) \subseteq Names
      /\ \A n \in Names : stream.place[n] <= stream.entries
  BY DEF StreamOK, Outputs
<1>2. /\ new.place = [stream.place EXCEPT ![name] = stream.entries + 1]
      /\ new.entries = stream.entries + 1 /\ new.room = stream.room - 1
      /\ new = [place |-> new.place, entries |-> new.entries, room |-> new.room]
  BY DEF Appended
<1> HIDE DEF new
<1>3. /\ new.place \in [Names -> Nat] /\ DOMAIN new.place = Names
      /\ \A n \in Names : n # name => new.place[n] = stream.place[n]
      /\ new.place[name] = stream.entries + 1
  BY <1>1, <1>2
<1>4. Outputs(new) = Outputs(stream) \union {name}
  BY <1>1, <1>3 DEF Outputs
<1>5. StreamOK(new, Names)
  <2>1. new \in [place : [Names -> Nat], entries : Nat, room : Nat]
    <3>1. new.entries \in Nat /\ new.room \in Nat
      BY <1>1, <1>2
    <3> QED
      BY <1>2, <1>3, <3>1
  <2>2. IsFiniteSet(Outputs(new))
    BY <1>4, FS_AddElement DEF StreamOK
  <2>3. \A n \in Names : new.place[n] <= new.entries
    BY <1>1, <1>2, <1>3
  <2>4. \A m, n \in Outputs(new) : new.place[m] = new.place[n] => m = n
    <3>1. \A n \in Outputs(stream) : /\ new.place[n] = stream.place[n]
                                     /\ new.place[n] < stream.entries + 1
      BY <1>1, <1>3
    <3> QED
      BY <1>3, <1>4, <3>1 DEF StreamOK
  <2> QED
    BY <2>1, <2>2, <2>3, <2>4 DEF StreamOK
<1>6. ASSUME NEW iter, IteratorOK(stream, iter, Names), iter.at # name
      PROVE  /\ IteratorOK(new, iter, Names)
             /\ iter.on => Owed(stream, iter) \subseteq Owed(new, iter)
             /\ Owed(new, iter) \subseteq Owed(stream, iter) \union {name}
             /\ ~iter.on => Owed(new, iter) = {}
  <2>1. iter \in Iterator(Names)
    BY <1>6 DEF IteratorOK
  <2>2. IteratorOK(new, iter, Names)
    BY <1>1, <1>3, <1>4, <1>6, <2>1 DEF IteratorOK
  <2>3. /\ Ahead(stream, iter) \subseteq Ahead(new, iter)
        /\ Ahead(new, iter) \subseteq Ahead(stream, iter) \union {name}
    BY <1>1, <1>3, <1>4 DEF Ahead
  <2>4. Outputs(new) \intersect {iter.at} = Outputs(stream) \intersect {iter.at}
    BY <1>4, <1>6
  <2> QED
    BY <2>2, <2>3, <2>4 DEF Owed
<1> QED
  BY <1>2, <1>4, <1>5, <1>6 DEF new

(* Adding an output: the iterations under way may come upon it.  They lose *)
(* something that they owe only if there was no room.                      *)
LEMMA AddOutput ==
  ASSUME NEW Names, NEW stream, StreamOK(stream, Names), NEW room \in Rooms,
         NEW name \in Names, name \notin Outputs(stream)
  PROVE  /\ StreamOK(add_output(stream, name, room), Names)
         /\ Outputs(add_output(stream, name, room)) = Outputs(stream) \union {name}
         /\ stream.room \in Nat /\ add_output(stream, name, room).room \in Nat
         /\ stream.room > 0 => add_output(stream, name, room).room = stream.room - 1
         /\ \A iter : IteratorOK(stream, iter, Names) /\ iter.at # name =>
              /\ IteratorOK(add_output(stream, name, room), iter, Names)
              /\ iter.on /\ stream.room > 0 =>
                   Owed(stream, iter) \subseteq Owed(add_output(stream, name, room), iter)
              /\ Owed(add_output(stream, name, room), iter)
                   \subseteq Owed(stream, iter) \union {name}
              /\ ~iter.on => Owed(add_output(stream, name, room), iter) = {}
<1> DEFINE new == add_output(stream, name, room)
           anew == Compacted(stream, room)
<1>1. room \in Nat /\ room > 0
  BY StreamAssumption
<1>2. stream.room \in Nat
  BY DEF StreamOK
<1>3. CASE stream.room > 0
  <2>1. new = Appended(stream, name)
    BY <1>3 DEF add_output
  <2>2. new.room \in Nat
    BY <1>2, <1>3, <2>1, AppendOutput
  <2> HIDE DEF new
  <2> QED
    BY <1>2, <1>3, <2>1, <2>2, AppendOutput DEF new
<1>4. CASE ~(stream.room > 0)
  <2>1. new = Appended(anew, name)
    BY <1>4 DEF add_output
  <2>2. /\ StreamOK(anew, Names) /\ Outputs(anew) = Outputs(stream)
        /\ anew.room = room
        /\ \A iter : IteratorOK(stream, iter, Names) =>
             /\ IteratorOK(anew, iter, Names)
             /\ Owed(anew, iter) \subseteq Owed(stream, iter)
    BY <1>1, MadeAnew
  <2> HIDE DEF new, anew
  <2>3. /\ StreamOK(new, Names) /\ Outputs(new) = Outputs(stream) \union {name}
        /\ new.room = room - 1
        /\ \A iter : IteratorOK(anew, iter, Names) /\ iter.at # name =>
             /\ IteratorOK(new, iter, Names)
             /\ Owed(new, iter) \subseteq Owed(anew, iter) \union {name}
             /\ ~iter.on => Owed(new, iter) = {}
    BY <1>1, <2>1, <2>2, AppendOutput
  <2>4. new.room \in Nat
    BY <1>1, <2>3
  <2>5. \A iter : IteratorOK(stream, iter, Names) /\ iter.at # name =>
          /\ IteratorOK(new, iter, Names)
          /\ Owed(new, iter) \subseteq Owed(stream, iter) \union {name}
          /\ ~iter.on => Owed(new, iter) = {}
    BY <2>2, <2>3
  <2> QED
    BY <1>2, <1>4, <2>3, <2>4, <2>5 DEF new
<1> QED
  BY <1>3, <1>4

(* Removing an output takes it from what the iterations under way owe, and *)
(* nothing else.                                                           *)
LEMMA RemoveOutput ==
  ASSUME NEW Names, NEW stream, StreamOK(stream, Names), NEW name \in Names
  PROVE  /\ StreamOK(remove_output(stream, name), Names)
         /\ Outputs(remove_output(stream, name)) = Outputs(stream) \ {name}
         /\ remove_output(stream, name).room = stream.room
         /\ \A iter : IteratorOK(stream, iter, Names) =>
              /\ IteratorOK(remove_output(stream, name), iter, Names)
              /\ Owed(remove_output(stream, name), iter) = Owed(stream, iter) \ {name}
<1> DEFINE new == remove_output(stream, name)
<1>1. /\ stream.place \in [Names -> Nat] /\ stream.entries \in Nat
      /\ \A n \in Names : stream.place[n] <= stream.entries
  BY DEF StreamOK
<1>2. /\ new.place = [stream.place EXCEPT ![name] = 0]
      /\ new.entries = stream.entries /\ new.room = stream.room
      /\ new \in [place : [Names -> Nat], entries : Nat, room : Nat]
  BY DEF remove_output, StreamOK
<1> HIDE DEF new
<1>3. /\ new.place \in [Names -> Nat]
      /\ \A n \in Names : n # name => new.place[n] = stream.place[n]
      /\ new.place[name] = 0
  BY <1>1, <1>2
<1>4. Outputs(new) = Outputs(stream) \ {name}
  BY <1>1, <1>3 DEF Outputs
<1>5. StreamOK(new, Names)
  <2>1. IsFiniteSet(Outputs(new))
    BY <1>4, FS_RemoveElement DEF StreamOK
  <2>2. \A n \in Names : new.place[n] <= new.entries
    BY <1>1, <1>2, <1>3
  <2>3. \A m, n \in Outputs(new) : new.place[m] = new.place[n] => m = n
    <3>1. \A n \in Outputs(new) : /\ n \in Outputs(stream)
                                  /\ new.place[n] = stream.place[n]
      BY <1>1, <1>3, <1>4 DEF Outputs
    <3> QED
      BY <3>1 DEF StreamOK
  <2> QED
    BY <1>2, <2>1, <2>2, <2>3 DEF StreamOK
<1>6. ASSUME NEW iter, IteratorOK(stream, iter, Names)
      PROVE  /\ IteratorOK(new, iter, Names)
             /\ Owed(new, iter) = Owed(stream, iter) \ {name}
  <2>1. iter \in Iterator(Names)
    BY <1>6 DEF IteratorOK
  <2>2. \A n \in Outputs(new) : n \in Names /\ n # name /\ n \in Outputs(stream)
    BY <1>1, <1>4 DEF Outputs
  <2>3. IteratorOK(new, iter, Names)
    BY <1>3, <1>6, <2>1, <2>2 DEF IteratorOK
  <2>4. Ahead(new, iter) = Ahead(stream, iter) \ {name}
    BY <1>3, <1>4, <2>2 DEF Ahead
  <2> QED
    BY <1>4, <2>3, <2>4 DEF Owed
<1> QED
  BY <1>2, <1>4, <1>5, <1>6 DEF new

-----------------------------------------------------------------------------
(* An iteration begins owing every output there is. *)
LEMMA Begins ==
  ASSUME NEW Names, NoOutput \notin Names, NEW stream, StreamOK(stream, Names)
  PROVE  /\ IteratorOK(stream, Iterate(stream), Names)
         /\ Iterate(stream).on
         /\ Owed(stream, Iterate(stream)) = Outputs(stream)
<1>1. /\ stream.place \in [Names -> Nat]
      /\ Cardinality(Outputs(stream)) \in Nat
  BY FS_CardinalityType DEF StreamOK
<1>2. Iterate(stream) \in Iterator(Names)
  BY <1>1 DEF Iterate, Iterator
<1>3. Outputs(stream) \subseteq Names
  BY <1>1 DEF Outputs
<1>4. IteratorOK(stream, Iterate(stream), Names)
  BY <1>2, <1>3 DEF IteratorOK, Iterate
<1>5. Owed(stream, Iterate(stream)) = Outputs(stream)
  BY <1>1, <1>3 DEF Owed, Ahead, Outputs, Iterate
<1> QED
  BY <1>4, <1>5 DEF Iterate

(* Going on to the next entry passes over nothing that is owed. *)
LEMMA AdvancePassesNothing ==
  ASSUME NEW Names, NoOutput \notin Names, NEW stream, StreamOK(stream, Names),
         NEW iter, IteratorOK(stream, iter, Names),
         iter.at = NoOutput, Ahead(stream, iter) # {}
  PROVE  /\ IteratorOK(stream, Advance(stream, iter), Names)
         /\ Advance(stream, iter).on = iter.on
         /\ Advance(stream, iter).at \in Outputs(stream)
         /\ Owed(stream, Advance(stream, iter)) = Owed(stream, iter)
<1> DEFINE n == NextEntry(stream, iter)
           new == Advance(stream, iter)
<1>1. /\ n \in Ahead(stream, iter)
      /\ \A m \in Ahead(stream, iter) : stream.place[n] <= stream.place[m]
  BY NextEntryIsFirst
<1>2. /\ stream.place \in [Names -> Nat] /\ Outputs(stream) \subseteq Names
      /\ iter \in Iterator(Names) /\ iter.pos \in Nat /\ iter.left \in Int
  BY DEF StreamOK, Outputs, IteratorOK, Iterator
<1>3. n \in Outputs(stream) /\ n \in Names /\ stream.place[n] \in Nat
      /\ stream.place[n] > iter.pos
  BY <1>1, <1>2 DEF Ahead
<1>4. new = [iter EXCEPT !.pos = stream.place[n], !.left = @ - 1, !.at = n]
  BY DEF Advance
<1> HIDE DEF n, new
<1>5. /\ new \in Iterator(Names) /\ new.pos = stream.place[n] /\ new.at = n
      /\ new.on = iter.on
  <2>1. iter.left - 1 \in Int
    BY <1>2
  <2>2. iter \in [on : BOOLEAN, pos : Nat, size : Nat, left : Int,
                 at : Names \union {NoOutput}]
    BY <1>2 DEF Iterator
  <2>3. new \in [on : BOOLEAN, pos : Nat, size : Nat, left : Int,
                at : Names \union {NoOutput}]
    BY <1>3, <1>4, <2>1, <2>2
  <2> QED
    BY <1>4, <2>2, <2>3 DEF Iterator
<1>6. IteratorOK(stream, new, Names)
  BY <1>3, <1>5 DEF IteratorOK
<1>7. Owed(stream, new) = Owed(stream, iter)
  <2>1. Outputs(stream) \intersect {iter.at} = {}
    BY <1>2
  <2>2. Ahead(stream, iter) = Ahead(stream, new) \union {n}
    <3>1. \A m \in Ahead(stream, iter) : stream.place[m] # stream.place[n] \/ m = n
      BY <1>3 DEF Ahead, StreamOK
    <3> QED
      BY <1>1, <1>2, <1>3, <1>5, <3>1 DEF Ahead
  <2>3. Outputs(stream) \intersect {new.at} = {n}
    BY <1>3, <1>5
  <2> QED
    BY <1>5, <2>1, <2>2, <2>3 DEF Owed
<1> QED
  BY <1>3, <1>5, <1>6, <1>7 DEF new

(* The write to the entry it is at is what the iteration owed it. *)
LEMMA WriteReaches ==
  ASSUME NEW Names, NoOutput \notin Names, NEW stream, StreamOK(stream, Names),
         NEW iter, IteratorOK(stream, iter, Names)
  PROVE  LET new == [iter EXCEPT !.at = NoOutput]
         IN  /\ IteratorOK(stream, new, Names)
             /\ new.on = iter.on
             /\ Owed(stream, new) = Owed(stream, iter) \ {iter.at}
<1> DEFINE new == [iter EXCEPT !.at = NoOutput]
<1>1. /\ stream.place \in [Names -> Nat] /\ Outputs(stream) \subseteq Names
      /\ iter \in Iterator(Names) /\ iter.pos \in Nat
  BY DEF StreamOK, Outputs, IteratorOK, Iterator
<1>2. /\ new \in Iterator(Names) /\ new.pos = iter.pos /\ new.at = NoOutput
      /\ new.on = iter.on
  BY <1>1 DEF Iterator
<1> HIDE DEF new
<1>3. Outputs(stream) \intersect {new.at} = {}
  BY <1>1, <1>2
<1>4. IteratorOK(stream, new, Names)
  BY <1>2, <1>3 DEF IteratorOK
<1>5. Ahead(stream, new) = Ahead(stream, iter)
  BY <1>2 DEF Ahead
<1>6. iter.at \notin Ahead(stream, iter)
  BY <1>1 DEF IteratorOK, Ahead
<1>7. Owed(stream, new) = Owed(stream, iter) \ {iter.at}
  BY <1>2, <1>3, <1>5, <1>6 DEF Owed
<1> QED
  BY <1>2, <1>4, <1>7 DEF new

(* An iteration that finds nothing ahead owes nothing. *)
LEMMA EndOwesNothing ==
  ASSUME NEW Names, NoOutput \notin Names, NEW stream, StreamOK(stream, Names),
         NEW iter, iter.at = NoOutput, Ahead(stream, iter) = {}
  PROVE  Owed(stream, iter) = {}
<1>1. Outputs(stream) \intersect {iter.at} = {}
  BY DEF StreamOK, Outputs
<1> QED
  BY <1>1 DEF Owed

-----------------------------------------------------------------------------
Publishers == TcpClients \union {Loop}

Writing == {"write_text", "write_binary"}

(* Both streams and every iteration under way in them are well-formed. *)
StreamsOK ==
  /\ StreamOK(telemetry_stream, WsClients)
  /\ StreamOK(command_stream, TcpClients)
  /\ \A c \in TcpClients : IteratorOK(telemetry_stream, it[c], WsClients)
  /\ IteratorOK(command_stream, it[Loop], TcpClients)

(* Whoever iterates is in a write. *)
Working ==
  /\ \A c \in TcpClients : it[c].on => tcp[c] \in Writing
  /\ it[Loop].on => speaker \in WsClients /\ ws[speaker] = "write"

(* The acceptor is gone before the connections are waited for. *)
Closing ==
  main \in {"close", "stop_ws", "spin", "join_ws", "done"} => acceptor = "ended"

(* No command is being written to a client that has yet to register. *)
NotMet == \A c \in TcpClients : tcp[c] = "new" => it[Loop].at # c

IInv ==
  /\ TypeOK /\ StreamsOK /\ Working /\ NotMet
  /\ OutputsOwned /\ Closing /\ StoppedIsStopped

-----------------------------------------------------------------------------
LEMMA InitInv == Init => IInv
<1> SUFFICES ASSUME Init PROVE IInv
  OBVIOUS
<1> USE DaemonAssumption
<1>1. /\ StreamOK(telemetry_stream, WsClients)
      /\ StreamOK(command_stream, TcpClients)
      /\ Outputs(telemetry_stream) = {} /\ Outputs(command_stream) = {}
  BY NewStreamOK DEF Init
<1>2. /\ it \in [Publishers -> {NoIterator}]
      /\ \A p \in Publishers : it[p] = NoIterator
  BY DEF Init, Publishers
<1>3. StreamsOK
  <2>1. IteratorOK(telemetry_stream, NoIterator, WsClients)
    BY <1>1, NoIteratorOK
  <2>2. IteratorOK(command_stream, NoIterator, TcpClients)
    BY <1>1, NoIteratorOK
  <2> QED
    BY <1>1, <1>2, <2>1, <2>2 DEF StreamsOK, Publishers
<1>4. TypeOK
  <2>1. NoIterator \in Iterator(TcpClients)
    BY DEF NoIterator, Iterator
  <2> QED
    BY <1>1, <1>2, <2>1 DEF Init, TypeOK, StreamOK, Publishers
<1>5. Working
  BY <1>2 DEF Working, Publishers, NoIterator
<1>6. OutputsOwned
  BY <1>1 DEF Init, OutputsOwned
<1>7. Closing /\ StoppedIsStopped /\ NotMet
  BY DEF Init, Closing, StoppedIsStopped, NotMet
<1> QED
  BY <1>3, <1>4, <1>5, <1>6, <1>7 DEF IInv

-----------------------------------------------------------------------------
(* A step that leaves clients, iterators and streams alone. *)
LEMMA QuietKeeps ==
  ASSUME IInv, UNCHANGED <<clients, it, streams>>
  PROVE  StreamsOK' /\ Working' /\ NotMet' /\ OutputsOwned'
BY DEF IInv, clients, streams, StreamsOK, Working, NotMet, OutputsOwned

LEMMA MainKeeps ==
  ASSUME IInv, Main \/ Interrupt
  PROVE  IInv'
<1> USE DEF IInv
<1>1. UNCHANGED <<clients, it, streams>>
  BY DEF Main, Interrupt, Stopping, StartData, StartWs, RaiseFlag, Shutdown,
         ShutdownDone, ServerClose, QueueStop, Spin, JoinWs, MainStep
<1>2. TypeOK'
  <2>1. /\ main' \in {"start_data", "start_ws", "sleep", "stop_data", "shutdown",
                      "shutdown_wait", "close", "stop_ws", "spin", "join_ws", "done"}
        /\ acceptor' \in {acceptor, "ready"} /\ loop' \in {loop, "ready"}
    BY DEF threads, Main, Interrupt, Stopping, StartData, StartWs, RaiseFlag,
           Shutdown, ShutdownDone, ServerClose, QueueStop, Spin, JoinWs, MainStep
  <2>2. /\ telemetry_shutdown_request' \in {telemetry_shutdown_request, TRUE}
        /\ shutdown_asked' \in {shutdown_asked, TRUE}
        /\ stop_queued' \in {stop_queued, TRUE}
    BY DEF Main, Interrupt, Stopping, StartData, StartWs, RaiseFlag,
           Shutdown, ShutdownDone, ServerClose, QueueStop, Spin, JoinWs
  <2> QED
    BY <1>1, <2>1, <2>2 DEF TypeOK, clients, streams
<1>3. Closing'
  BY DEF Closing, threads,
         Main, Interrupt, Stopping, StartData, StartWs, RaiseFlag, Shutdown,
         ShutdownDone, ServerClose, QueueStop, Spin, JoinWs, MainStep
<1>4. StoppedIsStopped'
  <2>1. CASE ServerClose
    <3>1. \A c \in TcpClients : ~HandlerRuns(c) /\ ~it[c].on
      BY <2>1 DEF ServerClose, ServerClosed, Working, HandlerRuns, Writing
    <3> QED
      BY <2>1, <3>1 DEF ServerClose, MainStep, Closing, StoppedIsStopped,
                        HandlerRuns, clients, threads
  <2>2. CASE ~ServerClose
    BY <1>1, <2>2 DEF StoppedIsStopped, HandlerRuns, clients, threads,
         Main, Interrupt, Stopping, StartData, StartWs, RaiseFlag, Shutdown,
         ShutdownDone, QueueStop, Spin, JoinWs, MainStep
  <2> QED
    BY <2>1, <2>2
<1> QED
  BY <1>1, <1>2, <1>3, <1>4, QuietKeeps

(* The acceptor's and the loop's own steps. *)
LEMMA ThreadKeeps ==
  ASSUME IInv, Acceptor \/ LoopThread
  PROVE  IInv'
<1> USE DEF IInv
<1>1. /\ UNCHANGED <<clients, it, streams>>
      /\ UNCHANGED <<main, telemetry_shutdown_request, shutdown_asked>>
      /\ stop_queued' \in {stop_queued, FALSE}
      /\ acceptor' = acceptor \/ acceptor # "ended"
      /\ acceptor' \in {acceptor, "serving", "ended"}
      /\ loop' \in {loop, "setup", "listening", "between", "running", "ended"}
  BY DEF mainVars, Acceptor, Serve, EndServe, LoopThread, LoopSetup, LoopListen,
         LoopReturns, LoopFails, LoopRun, LoopStop, LoopStep
<1>2. TypeOK'
  <2>1. stop_queued' \in BOOLEAN
    BY <1>1 DEF TypeOK
  <2>2. /\ acceptor' \in {"new", "ready", "serving", "ended"}
        /\ loop' \in {"new", "ready", "setup", "listening", "between", "running", "ended"}
    BY <1>1 DEF TypeOK
  <2> QED
    BY <1>1, <2>1, <2>2 DEF TypeOK, clients, streams
<1>3. Closing' /\ StoppedIsStopped'
  BY <1>1 DEF Closing, StoppedIsStopped, HandlerRuns, clients
<1> QED
  BY <1>1, <1>2, <1>3, QuietKeeps

-----------------------------------------------------------------------------
(* A step of a TCP client that neither leaves nor enters a write.  Whether *)
(* its output is registered must not change by it, unless the stream does. *)
LEMMA TcpMoves ==
  ASSUME IInv, NEW c \in TcpClients, NEW to,
         tcp' = [tcp EXCEPT ![c] = to],
         tcp[c] \notin Writing,
         to \in {"absent", "new", "poll", "data", "leave", "reset"},
         tcp[c] = "absent" \/ HandlerRuns(c),
         acceptor # "ended" \/ HandlerRuns(c),
         to = "new" => it[Loop].at # c,
         UNCHANGED <<mainVars, threads, ws, speaker, it>>
  PROVE  /\ UNCHANGED streams => TypeOK'
         /\ Working' /\ NotMet' /\ Closing' /\ StoppedIsStopped'
<1> USE DEF IInv
<1>1. /\ tcp \in [TcpClients -> {"absent", "new", "poll", "data", "write_text",
                             "write_binary", "leave",
                             "reset", "raised"}]
      /\ \A d \in TcpClients : tcp'[d] = IF d = c THEN to ELSE tcp[d]
  BY DEF TypeOK
<1>2. UNCHANGED streams => TypeOK'
  BY DEF TypeOK, mainVars, threads, streams
<1>3. Working'
  BY <1>1 DEF Working
<1>4. Closing'
  BY DEF Closing, mainVars, threads
<1>5. StoppedIsStopped'
  BY <1>1 DEF StoppedIsStopped, mainVars, threads, HandlerRuns
<1>6. NotMet'
  BY <1>1 DEF NotMet
<1> QED
  BY <1>2, <1>3, <1>4, <1>5, <1>6

(* Those of them that leave the streams alone. *)
LEMMA TcpQuietKeeps ==
  ASSUME IInv, NEW c \in TcpClients,
         Accept(c) \/ Poll(c) \/ Read(c) \/ Quit(c)
  PROVE  IInv'
<1> USE DEF IInv
<1>1. PICK to \in {"new", "poll", "data", "leave", "reset"} :
        /\ tcp' = [tcp EXCEPT ![c] = to]
        /\ tcp[c] \notin Writing
        /\ tcp[c] = "absent" \/ HandlerRuns(c)
        /\ acceptor # "ended" \/ HandlerRuns(c)
        /\ to = "new" => it[Loop].at # c
        /\ tcp[c] \in {"absent", "new"} <=> to \in {"absent", "new"}
        /\ UNCHANGED <<mainVars, threads, ws, speaker, it, streams>>
  BY DEF Accept, Poll, Read, Quit, TcpStep, Writing, HandlerRuns
<1>2. TypeOK' /\ Working' /\ NotMet' /\ Closing' /\ StoppedIsStopped'
  BY <1>1, TcpMoves
<1>3. StreamsOK'
  BY <1>1 DEF StreamsOK, streams
<1>4. OutputsOwned'
  BY <1>1 DEF OutputsOwned, TypeOK, streams
<1> QED
  BY <1>2, <1>3, <1>4

LEMMA RegisterKeeps ==
  ASSUME IInv, NEW c \in TcpClients, Register(c)
  PROVE  IInv'
<1> USE DEF IInv
<1>1. /\ tcp' = [tcp EXCEPT ![c] = "poll"] /\ tcp[c] = "new"
      /\ HandlerRuns(c)
      /\ UNCHANGED <<mainVars, threads, ws, speaker, it, telemetry_stream>>
      /\ c \notin Outputs(command_stream) /\ it[Loop].at # c
  BY DEF Register, TcpStep, HandlerRuns, OutputsOwned, NotMet
<1>2. Working' /\ NotMet' /\ Closing' /\ StoppedIsStopped'
  BY <1>1, TcpMoves DEF Writing
<1>3. /\ StreamOK(command_stream', TcpClients)
      /\ Outputs(command_stream') = Outputs(command_stream) \union {c}
      /\ IteratorOK(command_stream', it[Loop], TcpClients)
  <2>1. PICK room \in Rooms : command_stream' = add_output(command_stream, c, room)
    BY DEF Register
  <2> QED
    BY <1>1, <2>1, AddOutput DEF StreamsOK
<1>4. StreamsOK'
  BY <1>1, <1>3 DEF StreamsOK
<1>5. TypeOK'
  BY <1>1, <1>3 DEF TypeOK, mainVars, threads, StreamOK
<1>6. OutputsOwned'
  BY <1>1, <1>3 DEF OutputsOwned, TypeOK
<1> QED
  BY <1>2, <1>4, <1>5, <1>6

LEMMA UnregisterKeeps ==
  ASSUME IInv, NEW c \in TcpClients, Unregister(c)
  PROVE  IInv'
<1> USE DEF IInv
<1>1. /\ tcp' = [tcp EXCEPT ![c] = "absent"] /\ tcp[c] = "leave"
      /\ HandlerRuns(c)
      /\ UNCHANGED <<mainVars, threads, ws, speaker, it, telemetry_stream>>
      /\ command_stream' = remove_output(command_stream, c)
  BY DEF Unregister, TcpStep, HandlerRuns
<1>2. Working' /\ NotMet' /\ Closing' /\ StoppedIsStopped'
  BY <1>1, TcpMoves DEF Writing
<1>3. /\ StreamOK(command_stream', TcpClients)
      /\ Outputs(command_stream') = Outputs(command_stream) \ {c}
      /\ IteratorOK(command_stream', it[Loop], TcpClients)
  BY <1>1, RemoveOutput DEF StreamsOK
<1>4. StreamsOK'
  BY <1>1, <1>3 DEF StreamsOK
<1>5. TypeOK'
  BY <1>1, <1>3 DEF TypeOK, mainVars, threads, StreamOK
<1>6. OutputsOwned'
  BY <1>1, <1>3 DEF OutputsOwned, TypeOK
<1> QED
  BY <1>2, <1>4, <1>5, <1>6

LEMMA WsConnectKeeps ==
  ASSUME IInv, NEW w \in WsClients, WsConnect(w)
  PROVE  IInv'
<1> USE DEF IInv
<1>1. /\ ws' = [ws EXCEPT ![w] = "open"] /\ ws[w] = "absent" /\ ~it[Loop].on
      /\ UNCHANGED <<mainVars, threads, tcp, speaker, it, command_stream>>
      /\ w \notin Outputs(telemetry_stream) /\ \A c \in TcpClients : it[c].at # w
  BY DEF WsConnect, LoopIdle, OutputsOwned
<1>2. /\ StreamOK(telemetry_stream', WsClients)
      /\ Outputs(telemetry_stream') = Outputs(telemetry_stream) \union {w}
      /\ \A c \in TcpClients : IteratorOK(telemetry_stream', it[c], WsClients)
  <2>1. PICK room \in Rooms : telemetry_stream' = add_output(telemetry_stream, w, room)
    BY DEF WsConnect
  <2> QED
    BY <1>1, <2>1, AddOutput DEF StreamsOK
<1>3. StreamsOK' /\ Working' /\ NotMet'
  BY <1>1, <1>2 DEF StreamsOK, Working, NotMet
<1>4. TypeOK'
  BY <1>1, <1>2 DEF TypeOK, mainVars, threads, StreamOK
<1>5. OutputsOwned'
  BY <1>1, <1>2 DEF OutputsOwned, TypeOK
<1>6. Closing' /\ StoppedIsStopped'
  BY <1>1 DEF Closing, StoppedIsStopped, HandlerRuns, mainVars, threads
<1> QED
  BY <1>3, <1>4, <1>5, <1>6

LEMMA ConnectionClosedKeeps ==
  ASSUME IInv, NEW w \in WsClients, ConnectionClosed(w)
  PROVE  IInv'
<1> USE DEF IInv
<1>1. /\ ws' = [ws EXCEPT ![w] = "absent"] /\ ws[w] = "open" /\ ~it[Loop].on
      /\ UNCHANGED <<mainVars, threads, tcp, speaker, it, command_stream>>
      /\ telemetry_stream' = remove_output(telemetry_stream, w)
  BY DEF ConnectionClosed, LoopIdle
<1>2. /\ StreamOK(telemetry_stream', WsClients)
      /\ Outputs(telemetry_stream') = Outputs(telemetry_stream) \ {w}
      /\ \A c \in TcpClients : IteratorOK(telemetry_stream', it[c], WsClients)
  BY <1>1, RemoveOutput DEF StreamsOK
<1>3. StreamsOK' /\ Working' /\ NotMet'
  BY <1>1, <1>2 DEF StreamsOK, Working, NotMet
<1>4. TypeOK'
  BY <1>1, <1>2 DEF TypeOK, mainVars, threads, StreamOK
<1>5. OutputsOwned'
  BY <1>1, <1>2 DEF OutputsOwned, TypeOK
<1>6. Closing' /\ StoppedIsStopped'
  BY <1>1 DEF Closing, StoppedIsStopped, HandlerRuns, mainVars, threads
<1> QED
  BY <1>3, <1>4, <1>5, <1>6

LEMMA WsInvalidKeeps ==
  ASSUME IInv, NEW w \in WsClients, WsInvalid(w)
  PROVE  IInv'
<1> USE DEF IInv
<1>1. /\ ws' = [ws EXCEPT ![w] = "invalid"] /\ ws[w] = "open" /\ ~it[Loop].on
      /\ UNCHANGED <<mainVars, threads, tcp, speaker, it, streams>>
  BY DEF WsInvalid, LoopIdle
<1>2. StreamsOK' /\ Working' /\ NotMet'
  BY <1>1 DEF StreamsOK, Working, NotMet, streams
<1>3. TypeOK' /\ OutputsOwned'
  BY <1>1 DEF TypeOK, OutputsOwned, mainVars, threads, streams
<1>4. Closing' /\ StoppedIsStopped'
  BY <1>1 DEF Closing, StoppedIsStopped, HandlerRuns, mainVars, threads
<1> QED
  BY <1>2, <1>3, <1>4

-----------------------------------------------------------------------------
(* The publishers' iterators, one at a time. *)
LEMMA IteratorStep ==
  ASSUME IInv, NEW p \in Publishers, NEW new, it' = [it EXCEPT ![p] = new]
  PROVE  /\ \A q \in Publishers : it'[q] = IF q = p THEN new ELSE it[q]
         /\ new \in Iterator(TcpClients) \union Iterator(WsClients) =>
              it' \in [Publishers ->
                          Iterator(TcpClients) \union Iterator(WsClients)]
BY DEF IInv, TypeOK, Publishers

(* What a publisher's stream is made of. *)
Names(p) == IF p = Loop THEN TcpClients ELSE WsClients

LEMMA PublisherFacts ==
  ASSUME IInv, NEW p \in Publishers
  PROVE  /\ NoOutput \notin Names(p)
         /\ StreamOK(StreamOf(p), Names(p))
         /\ IteratorOK(StreamOf(p), it[p], Names(p))
BY DaemonAssumption DEF IInv, StreamsOK, StreamOf, Names, Publishers

(* An iterator that stays well-formed keeps both streams so. *)
LEMMA IteratorKeeps ==
  ASSUME IInv, NEW p \in Publishers, NEW new, it' = [it EXCEPT ![p] = new],
         IteratorOK(StreamOf(p), new, Names(p)),
         UNCHANGED streams
  PROVE  /\ StreamsOK'
         /\ it' \in [Publishers -> Iterator(TcpClients) \union Iterator(WsClients)]
<1>1. new \in Iterator(TcpClients) \union Iterator(WsClients)
  BY DEF IteratorOK, Names
<1>2. /\ \A q \in Publishers : it'[q] = IF q = p THEN new ELSE it[q]
      /\ it' \in [Publishers -> Iterator(TcpClients) \union Iterator(WsClients)]
  BY <1>1, IteratorStep
<1>3. Loop \notin TcpClients
  BY DaemonAssumption
<1>4. CASE p = Loop
  BY <1>2, <1>3, <1>4 DEF IInv, StreamsOK, streams, StreamOf, Names, Publishers
<1>5. CASE p # Loop
  BY <1>2, <1>3, <1>5 DEF IInv, StreamsOK, streams, StreamOf, Names, Publishers
<1> QED
  BY <1>2, <1>4, <1>5

LEMMA TcpDataKeeps ==
  ASSUME IInv, NEW c \in TcpClients, TcpDataHandler(c)
  PROVE  IInv'
<1> USE DEF IInv
<1>1. PICK to \in Writing :
        /\ tcp' = [tcp EXCEPT ![c] = to] /\ tcp[c] = "data"
        /\ UNCHANGED <<mainVars, threads, ws, speaker, streams>>
        /\ it' = [it EXCEPT ![c] = Iterate(telemetry_stream)]
  BY DEF TcpDataHandler, TcpStep, Writing
<1>2. c \in Publishers /\ c # Loop
  BY DaemonAssumption DEF Publishers
<1>3. IteratorOK(StreamOf(c), Iterate(telemetry_stream), Names(c))
  BY <1>2, PublisherFacts, Begins DEF StreamOf, Names
<1>4. /\ StreamsOK'
      /\ it' \in [Publishers -> Iterator(TcpClients) \union Iterator(WsClients)]
  BY <1>1, <1>2, <1>3, IteratorKeeps
<1>5. \A q \in Publishers :
        it'[q] = IF q = c THEN Iterate(telemetry_stream) ELSE it[q]
  BY <1>1, <1>2, IteratorStep
<1>6. TypeOK'
  BY <1>1, <1>4 DEF TypeOK, mainVars, threads, streams, Publishers, Writing
<1>7. Working' /\ NotMet'
  BY <1>1, <1>2, <1>5 DEF Working, NotMet, TypeOK, Publishers, Writing
<1>8. OutputsOwned'
  BY <1>1 DEF OutputsOwned, TypeOK, streams, Writing
<1>9. Closing' /\ StoppedIsStopped'
  <2>1. HandlerRuns(c)
    BY <1>1 DEF HandlerRuns
  <2> QED
    BY <1>1, <2>1 DEF Closing, StoppedIsStopped, mainVars, threads
<1> QED
  BY <1>4, <1>6, <1>7, <1>8, <1>9

LEMMA WsMessageKeeps ==
  ASSUME IInv, NEW w \in WsClients, WsMessage(w)
  PROVE  IInv'
<1> USE DEF IInv
<1>1. /\ ws' = [ws EXCEPT ![w] = "write"] /\ ws[w] = "open" /\ speaker' = w
      /\ UNCHANGED <<mainVars, threads, tcp, streams>>
      /\ it' = [it EXCEPT ![Loop] = Iterate(command_stream)]
  BY DEF WsMessage
<1>2. Loop \in Publishers /\ Loop \notin TcpClients
  BY DaemonAssumption DEF Publishers
<1>3. IteratorOK(StreamOf(Loop), Iterate(command_stream), Names(Loop))
  BY <1>2, PublisherFacts, Begins DEF StreamOf, Names
<1>4. /\ StreamsOK'
      /\ it' \in [Publishers -> Iterator(TcpClients) \union Iterator(WsClients)]
  BY <1>1, <1>2, <1>3, IteratorKeeps
<1>5. /\ \A c \in TcpClients : it'[c] = it[c]
      /\ it'[Loop].at = NoOutput
  <2>1. \A q \in Publishers :
          it'[q] = IF q = Loop THEN Iterate(command_stream) ELSE it[q]
    BY <1>1, <1>2, IteratorStep
  <2> QED
    BY <1>2, <2>1 DEF Publishers, Iterate
<1>6. TypeOK'
  BY <1>1, <1>4 DEF TypeOK, mainVars, threads, streams, Publishers
<1>7. Working' /\ NotMet'
  BY <1>1, <1>5, DaemonAssumption DEF Working, NotMet, TypeOK
<1>8. OutputsOwned'
  BY <1>1 DEF OutputsOwned, TypeOK, streams
<1>9. Closing' /\ StoppedIsStopped'
  BY <1>1, <1>5 DEF Closing, StoppedIsStopped, HandlerRuns, mainVars, threads
<1> QED
  BY <1>4, <1>6, <1>7, <1>8, <1>9

-----------------------------------------------------------------------------
(* The end of a write, one way or the other. *)
LEMMA BackKeeps ==
  ASSUME IInv, NEW p \in Publishers, NEW raised \in BOOLEAN, it[p].on, Back(p, raised)
  PROVE  IInv'
<1> USE DEF IInv
<1>1. /\ it' = [it EXCEPT ![p] = NoIterator]
      /\ UNCHANGED <<mainVars, threads, speaker, streams>>
  BY DEF Back
<1>2. IteratorOK(StreamOf(p), NoIterator, Names(p))
  BY PublisherFacts, NoIteratorOK
<1>3. /\ StreamsOK'
      /\ it' \in [Publishers -> Iterator(TcpClients) \union Iterator(WsClients)]
  BY <1>1, <1>2, IteratorKeeps
<1>4. /\ \A q \in Publishers : it'[q] = IF q = p THEN NoIterator ELSE it[q]
      /\ ~NoIterator.on /\ NoIterator.at = NoOutput
  BY <1>1, IteratorStep DEF NoIterator
<1>5. Closing'
  BY <1>1 DEF Closing, mainVars, threads
<1>6. CASE p = Loop
  <2>1. PICK to \in {"open", "raised"} :
          tcp' = tcp /\ ws' = [ws EXCEPT ![speaker] = to]
    BY <1>6 DEF Back
  <2>2. speaker \in WsClients /\ ws[speaker] = "write"
    BY <1>6 DEF Working
  <2>3. TypeOK'
    BY <1>1, <1>3, <2>1, <2>2 DEF TypeOK, mainVars, threads, streams, Publishers
  <2>4. Working' /\ NotMet'
    BY <1>4, <1>6, <2>1, DaemonAssumption DEF Working, NotMet, Publishers
  <2>5. OutputsOwned'
    BY <1>1, <2>1, <2>2 DEF OutputsOwned, TypeOK, streams
  <2>6. StoppedIsStopped'
    BY <1>1, <1>4, <2>1 DEF StoppedIsStopped, HandlerRuns, mainVars, threads, Publishers
  <2> QED
    BY <1>3, <1>5, <2>3, <2>4, <2>5, <2>6
<1>7. CASE p # Loop
  <2>1. PICK to \in {"poll", "raised"} :
          ws' = ws /\ tcp' = [tcp EXCEPT ![p] = to]
    BY <1>7 DEF Back
  <2>2. p \in TcpClients /\ tcp[p] \in Writing
    BY <1>7 DEF Working, Publishers
  <2>3. TypeOK'
    BY <1>1, <1>3, <2>1, <2>2 DEF TypeOK, mainVars, threads, streams, Publishers
  <2>4. Working' /\ NotMet'
    BY <1>1, <1>4, <1>7, <2>1, <2>2 DEF Working, NotMet, Publishers, TypeOK
  <2>5. OutputsOwned'
    BY <1>1, <2>1, <2>2 DEF OutputsOwned, TypeOK, streams, Writing
  <2>6. StoppedIsStopped'
    BY <1>1, <2>2 DEF StoppedIsStopped, mainVars, threads
  <2> QED
    BY <1>3, <1>5, <2>3, <2>4, <2>5, <2>6
<1> QED
  BY <1>6, <1>7

(* A write under way goes on. *)
LEMMA GoesOnKeeps ==
  ASSUME IInv, NEW p \in Publishers, NEW new, it' = [it EXCEPT ![p] = new],
         IteratorOK(StreamOf(p), new, Names(p)), new.on = it[p].on,
         new.at \in Outputs(StreamOf(p)) \union {NoOutput},
         UNCHANGED <<mainVars, threads, clients, streams>>
  PROVE  IInv'
<1> USE DEF IInv
<1>1. /\ StreamsOK'
      /\ it' \in [Publishers -> Iterator(TcpClients) \union Iterator(WsClients)]
  BY IteratorKeeps
<1>2. /\ \A q \in Publishers : it'[q].on = it[q].on
      /\ it'[Loop].at \in Outputs(command_stream) \union {NoOutput, it[Loop].at}
  <2>1. \A q \in Publishers : it'[q] = IF q = p THEN new ELSE it[q]
    BY IteratorStep
  <2> QED
    BY <2>1 DEF Publishers, StreamOf
<1>3. TypeOK'
  BY <1>1 DEF TypeOK, mainVars, threads, clients, streams, Publishers
<1>4. Working' /\ NotMet'
  BY <1>2, DaemonAssumption DEF Working, NotMet, OutputsOwned, clients, Publishers
<1>5. OutputsOwned' /\ Closing'
  BY DEF OutputsOwned, Closing, clients, streams, mainVars, threads
<1>6. StoppedIsStopped'
  BY <1>2 DEF StoppedIsStopped, HandlerRuns, mainVars, threads, clients, Publishers
<1> QED
  BY <1>1, <1>3, <1>4, <1>5, <1>6

(* The steps of a write: it ends, it goes on to the next entry, or it has  *)
(* written to the entry it is at.                                          *)
LEMMA WriteSteps ==
  ASSUME IInv, NEW p \in Publishers, write(p)
  PROVE  /\ it[p].on
         /\ \/ Back(p, TRUE)
            \/ /\ it[p].at = NoOutput /\ Ahead(StreamOf(p), it[p]) = {}
               /\ Back(p, FALSE)
            \/ /\ it[p].at = NoOutput /\ Ahead(StreamOf(p), it[p]) # {}
               /\ it' = [it EXCEPT ![p] = Advance(StreamOf(p), it[p])]
               /\ UNCHANGED <<mainVars, threads, clients, streams>>
            \/ /\ it' = [it EXCEPT ![p] = [it[p] EXCEPT !.at = NoOutput]]
               /\ UNCHANGED <<mainVars, threads, clients, streams>>
BY DEF write, WriteNext, WriteOut, InIteration

LEMMA WriteKeeps ==
  ASSUME IInv, NEW p \in Publishers, write(p)
  PROVE  IInv'
<1>1. CASE Back(p, TRUE) \/ Back(p, FALSE)
  BY <1>1, WriteSteps, BackKeeps
<1>2. CASE /\ it[p].at = NoOutput /\ Ahead(StreamOf(p), it[p]) # {}
           /\ it' = [it EXCEPT ![p] = Advance(StreamOf(p), it[p])]
           /\ UNCHANGED <<mainVars, threads, clients, streams>>
  <2>1. /\ IteratorOK(StreamOf(p), Advance(StreamOf(p), it[p]), Names(p))
        /\ Advance(StreamOf(p), it[p]).on = it[p].on
        /\ Advance(StreamOf(p), it[p]).at \in Outputs(StreamOf(p))
    BY <1>2, PublisherFacts, AdvancePassesNothing
  <2> QED
    BY <1>2, <2>1, GoesOnKeeps
<1>3. CASE /\ it' = [it EXCEPT ![p] = [it[p] EXCEPT !.at = NoOutput]]
           /\ UNCHANGED <<mainVars, threads, clients, streams>>
  <2> DEFINE new == [it[p] EXCEPT !.at = NoOutput]
  <2>1. /\ IteratorOK(StreamOf(p), new, Names(p)) /\ new.on = it[p].on
        /\ new.at = NoOutput
    BY PublisherFacts, WriteReaches DEF IteratorOK, Iterator
  <2> HIDE DEF new
  <2>2. it' = [it EXCEPT ![p] = new]
    BY <1>3 DEF new
  <2> QED
    BY <1>3, <2>1, <2>2, GoesOnKeeps
<1> QED
  BY <1>1, <1>2, <1>3, WriteSteps

-----------------------------------------------------------------------------
LEMMA NextInv == IInv /\ [Next]_daemonVars => IInv'
<1> SUFFICES ASSUME IInv, [Next]_daemonVars PROVE IInv'
  OBVIOUS
<1>1. CASE Main \/ Interrupt
  BY <1>1, MainKeeps
<1>2. CASE Acceptor \/ LoopThread
  BY <1>2, ThreadKeeps
<1>3. CASE write(Loop)
  BY <1>3, WriteKeeps DEF Publishers
<1>4. ASSUME NEW c \in TcpClients, Accept(c) \/ Read(c) \/ Handle(c)
      PROVE  IInv'
  <2>1. CASE Accept(c) \/ Poll(c) \/ Read(c) \/ Quit(c)
    BY <2>1, TcpQuietKeeps
  <2>2. CASE Register(c)
    BY <2>2, RegisterKeeps
  <2>3. CASE TcpDataHandler(c)
    BY <2>3, TcpDataKeeps
  <2>4. CASE write(c)
    BY <2>4, WriteKeeps DEF Publishers
  <2>5. CASE Unregister(c)
    BY <2>5, UnregisterKeeps
  <2> QED
    BY <1>4, <2>1, <2>2, <2>3, <2>4, <2>5 DEF Handle
<1>5. ASSUME NEW w \in WsClients,
             WsConnect(w) \/ WsMessage(w) \/ WsInvalid(w) \/ ConnectionClosed(w)
      PROVE  IInv'
  BY <1>5, WsConnectKeeps, WsMessageKeeps, WsInvalidKeeps, ConnectionClosedKeeps
<1>6. CASE UNCHANGED daemonVars
  BY <1>6, QuietKeeps DEF IInv, daemonVars, mainVars, threads, clients, streams,
     TypeOK, Closing, StoppedIsStopped, HandlerRuns
<1> QED
  BY <1>1, <1>2, <1>3, <1>4, <1>5, <1>6 DEF Next

THEOREM Invariance == Spec => []IInv
BY InitInv, NextInv, PTL DEF Spec

(* Every variable of the daemon keeps its type. *)
THEOREM TypeCorrect == Spec => []TypeOK
<1>1. IInv => TypeOK
  BY DEF IInv
<1> QED
  BY <1>1, Invariance, PTL

(* A stream's outputs are those of the handlers at work in it and of the   *)
(* handlers that died of an exception, for every number of clients.        *)
THEOREM OutputsOwnedAlways == Spec => []OutputsOwned
<1>1. IInv => OutputsOwned
  BY DEF IInv
<1> QED
  BY <1>1, Invariance, PTL

(* Nothing of the data service runs once Daemon.stop has returned, however *)
(* many clients it had.                                                    *)
THEOREM StoppedIsStoppedAlways == Spec => []StoppedIsStopped
<1>1. IInv => StoppedIsStopped
  BY DEF IInv
<1> QED
  BY <1>1, Invariance, PTL

-----------------------------------------------------------------------------
(* The steps of a write as a hub sees them: it fails, it ends owing        *)
(* nothing, or what it owes shrinks by at most one entry.                  *)
Owes(p) == Owed(StreamOf(p), it[p])

LEMMA WriteOwes ==
  ASSUME IInv, NEW p \in Publishers, write(p)
  PROVE  /\ it[p].on
         /\ UNCHANGED streams
         /\ \A q \in Publishers : q # p => it'[q] = it[q]
         /\ \/ /\ Back(p, TRUE) /\ Owes(p)' = {} /\ ~it'[p].on
            \/ /\ Back(p, FALSE) /\ Owes(p) = {} /\ Owes(p)' = {} /\ ~it'[p].on
            \/ /\ UNCHANGED clients /\ it'[p].on
               /\ \/ Owes(p)' = Owes(p)
                  \/ \E s \in Owes(p) : Owes(p)' = Owes(p) \ {s}
<1> DEFINE next == Advance(StreamOf(p), it[p])
           done == [it[p] EXCEPT !.at = NoOutput]
<1>1. /\ NoOutput \notin Names(p)
      /\ StreamOK(StreamOf(p), Names(p))
      /\ IteratorOK(StreamOf(p), it[p], Names(p))
  BY PublisherFacts
<1>2. Owed(StreamOf(p), NoIterator) = {} /\ ~NoIterator.on
  BY <1>1, NoIteratorOK DEF NoIterator
<1>3. it[p].on
  BY WriteSteps
<1>4. ASSUME NEW raised \in BOOLEAN, Back(p, raised)
      PROVE  /\ UNCHANGED streams
             /\ \A q \in Publishers : q # p => it'[q] = it[q]
             /\ Owes(p)' = {} /\ ~it'[p].on
  <2>1. it' = [it EXCEPT ![p] = NoIterator] /\ UNCHANGED streams
    BY <1>4 DEF Back
  <2>2. \A q \in Publishers : it'[q] = IF q = p THEN NoIterator ELSE it[q]
    BY <2>1, IteratorStep
  <2> QED
    BY <1>2, <2>1, <2>2 DEF Owes, StreamOf, streams
<1>5. ASSUME it[p].at = NoOutput, Ahead(StreamOf(p), it[p]) = {}
      PROVE  Owes(p) = {}
  BY <1>1, <1>5, EndOwesNothing DEF Owes
<1>6. ASSUME NEW new, it' = [it EXCEPT ![p] = new], new.on = it[p].on,
             UNCHANGED <<mainVars, threads, clients, streams>>
      PROVE  /\ UNCHANGED streams /\ UNCHANGED clients
             /\ \A q \in Publishers : q # p => it'[q] = it[q]
             /\ Owes(p)' = Owed(StreamOf(p), new) /\ it'[p].on
  <2>1. \A q \in Publishers : it'[q] = IF q = p THEN new ELSE it[q]
    BY <1>6, IteratorStep
  <2> QED
    BY <1>3, <1>6, <2>1 DEF Owes, StreamOf, streams
<1>7. CASE /\ it[p].at = NoOutput /\ Ahead(StreamOf(p), it[p]) # {}
           /\ it' = [it EXCEPT ![p] = next]
           /\ UNCHANGED <<mainVars, threads, clients, streams>>
  <2>1. next.on = it[p].on /\ Owed(StreamOf(p), next) = Owes(p)
    BY <1>1, <1>7, AdvancePassesNothing DEF Owes
  <2> HIDE DEF next
  <2> QED
    BY <1>3, <1>6, <1>7, <2>1
<1>8. CASE /\ it' = [it EXCEPT ![p] = done]
           /\ UNCHANGED <<mainVars, threads, clients, streams>>
  <2>1. done.on = it[p].on /\ Owed(StreamOf(p), done) = Owes(p) \ {it[p].at}
    BY <1>1, WriteReaches DEF Owes
  <2> HIDE DEF done
  <2>2. \/ Owes(p) \ {it[p].at} = Owes(p)
        \/ it[p].at \in Owes(p)
    OBVIOUS
  <2> QED
    BY <1>3, <1>6, <1>8, <2>1, <2>2
<1> HIDE DEF next, done
<1> QED
  BY <1>3, <1>4, <1>5, <1>7, <1>8, WriteSteps DEF next, done

(* The mapped variables of the telemetry hub. *)
telemetryStatus == [c \in TcpClients |-> IF it[c].on THEN "busy"
                                         ELSE IF tcp[c] = "raised" THEN "failed"
                                         ELSE "ended"]
telemetryOwed   == [c \in TcpClients |-> Owed(telemetry_stream, it[c])]

LEMMA TelemetryMapping ==
  /\ TelemetryHub!Init <=> /\ Outputs(telemetry_stream) = {}
                          /\ telemetry_stream.room = ROOM
                          /\ telemetryStatus = [p \in TcpClients |-> "ended"]
                          /\ telemetryOwed = [p \in TcpClients |-> {}]
  /\ TelemetryHub!hubVars = <<Outputs(telemetry_stream), telemetry_stream.room,
                              telemetryStatus, telemetryOwed>>
BY DEF TelemetryHub!Init, TelemetryHub!hubVars, telemetryStatus, telemetryOwed

(* A step that leaves the telemetry stream alone, and every publisher's    *)
(* iterator and failure, is no step of its hub.                            *)
LEMMA TelemetryStutters ==
  ASSUME UNCHANGED telemetry_stream,
         \A c \in TcpClients : /\ it'[c] = it[c]
                               /\ (tcp'[c] = "raised") <=> (tcp[c] = "raised")
  PROVE  UNCHANGED TelemetryHub!hubVars
<1>1. telemetryStatus' = telemetryStatus /\ telemetryOwed' = telemetryOwed
  BY DEF telemetryStatus, telemetryOwed
<1> QED
  BY <1>1 DEF TelemetryHub!hubVars, telemetryStatus, telemetryOwed

LEMMA TelemetryWrites ==
  ASSUME IInv, NEW c \in TcpClients, write(c)
  PROVE  TelemetryHub!Next \/ UNCHANGED TelemetryHub!hubVars
<1>1. /\ c \in Publishers /\ c # Loop /\ Loop \notin TcpClients
      /\ TcpClients \subseteq Publishers
  BY DaemonAssumption DEF Publishers
<1>2. /\ it[c].on /\ UNCHANGED streams
      /\ \A d \in TcpClients : d # c => it'[d] = it[d]
      /\ Owes(c) = telemetryOwed[c]
      /\ Owes(c)' = telemetryOwed'[c]
  BY <1>1, WriteOwes DEF Owes, StreamOf, telemetryOwed
<1>3. \A d \in TcpClients : d # c => telemetryOwed'[d] = telemetryOwed[d]
  BY <1>2 DEF telemetryOwed, streams
<1>4. telemetryOwed' = [telemetryOwed EXCEPT ![c] = Owes(c)']
  BY <1>2, <1>3 DEF telemetryOwed
<1>5. telemetryStatus[c] = "busy"
  BY <1>2 DEF telemetryStatus
<1>6. telemetry_stream' = telemetry_stream
  BY <1>2 DEF streams
<1>7. ASSUME NEW raised \in BOOLEAN, Back(c, raised), ~it'[c].on
      PROVE  telemetryStatus' = [telemetryStatus EXCEPT
                                   ![c] = IF raised THEN "failed" ELSE "ended"]
  <2>1. tcp' = [tcp EXCEPT ![c] = IF raised THEN "raised" ELSE "poll"]
    BY <1>1, <1>7 DEF Back
  <2>2. \A d \in TcpClients : tcp'[d] = IF d # c THEN tcp[d]
                                        ELSE IF raised THEN "raised" ELSE "poll"
    BY <2>1 DEF IInv, TypeOK
  <2>3. \A d \in TcpClients : telemetryStatus'[d] =
          IF d # c THEN telemetryStatus[d]
          ELSE IF raised THEN "failed" ELSE "ended"
    BY <1>2, <1>7, <2>2 DEF telemetryStatus
  <2> QED
    BY <2>3 DEF telemetryStatus
<1>8. CASE Back(c, TRUE) /\ Owes(c)' = {} /\ ~it'[c].on
  <2>1. telemetryStatus' = [telemetryStatus EXCEPT ![c] = "failed"]
    BY <1>7, <1>8
  <2>2. TelemetryHub!Fail(c)
    BY <1>4, <1>5, <1>6, <1>8, <2>1
       DEF TelemetryHub!Fail, telemetryStatus, telemetryOwed
  <2> QED
    BY <2>2 DEF TelemetryHub!Next
<1>9. CASE Back(c, FALSE) /\ Owes(c) = {} /\ Owes(c)' = {} /\ ~it'[c].on
  <2>1. telemetryStatus' = [telemetryStatus EXCEPT ![c] = "ended"]
    BY <1>7, <1>9
  <2>2. telemetryOwed' = telemetryOwed /\ telemetryOwed[c] = {}
    BY <1>2, <1>4, <1>9 DEF telemetryOwed
  <2>3. TelemetryHub!End(c)
    BY <1>5, <1>6, <2>1, <2>2 DEF TelemetryHub!End, telemetryStatus, telemetryOwed
  <2> QED
    BY <2>3 DEF TelemetryHub!Next
<1>10. CASE UNCHANGED clients /\ it'[c].on
  <2>1. telemetryStatus' = telemetryStatus
    <3>1. \A d \in TcpClients : it'[d].on <=> it[d].on
      BY <1>2, <1>10
    <3> QED
      BY <1>10, <3>1 DEF telemetryStatus, clients
  <2>2. CASE Owes(c)' = Owes(c)
    <3>1. telemetryOwed' = telemetryOwed
      BY <1>2, <1>4, <2>2 DEF telemetryOwed
    <3> QED
      BY <1>6, <2>1, <3>1, TelemetryMapping
         DEF TelemetryHub!hubVars, telemetryStatus, telemetryOwed
  <2>3. ASSUME NEW s \in Owes(c), Owes(c)' = Owes(c) \ {s}
        PROVE  TelemetryHub!Next
    <3>1. s \in WsClients
      <4>1. Owes(c) \subseteq Outputs(telemetry_stream)
        BY <1>1 DEF Owes, Owed, Ahead, StreamOf
      <4>2. Outputs(telemetry_stream) \subseteq WsClients
        BY DEF IInv, OutputsOwned
      <4> QED
        BY <2>3, <4>1, <4>2
    <3>2. telemetryOwed' = [telemetryOwed EXCEPT ![c] = @ \ {s}]
      BY <1>2, <1>4, <2>3 DEF telemetryOwed
    <3>3. TelemetryHub!Reach(c, s)
      BY <1>2, <1>6, <2>1, <2>3, <3>2
         DEF TelemetryHub!Reach, telemetryStatus, telemetryOwed
    <3> QED
      BY <3>1, <3>3 DEF TelemetryHub!Next
  <2>4. Owes(c)' = Owes(c) \/ \E s \in Owes(c) : Owes(c)' = Owes(c) \ {s}
    BY <1>1, <1>10, WriteOwes
  <2> QED
    BY <2>2, <2>3, <2>4
<1> QED
  BY <1>1, <1>8, <1>9, <1>10, WriteOwes

LEMMA TelemetryJoins ==
  ASSUME IInv, NEW w \in WsClients, WsConnect(w) \/ ConnectionClosed(w)
  PROVE  TelemetryHub!Next
<1> USE DEF IInv
<1>1. UNCHANGED <<tcp, it>>
  BY DEF WsConnect, ConnectionClosed
<1>2. telemetryStatus' = telemetryStatus
  BY <1>1 DEF telemetryStatus
<1>3. CASE WsConnect(w)
  <2>1. PICK room \in Rooms : telemetry_stream' = add_output(telemetry_stream, w, room)
    BY <1>3 DEF WsConnect
  <2>2. w \notin Outputs(telemetry_stream) /\ \A c \in TcpClients : it[c].at # w
    BY <1>3 DEF WsConnect, OutputsOwned
  <2>3. /\ Outputs(telemetry_stream') = Outputs(telemetry_stream) \union {w}
        /\ telemetry_stream.room \in Nat /\ telemetry_stream'.room \in Nat
        /\ telemetry_stream.room > 0
             => telemetry_stream'.room = telemetry_stream.room - 1
        /\ \A c \in TcpClients :
             /\ it[c].on /\ telemetry_stream.room > 0 =>
                  Owed(telemetry_stream, it[c]) \subseteq Owed(telemetry_stream', it[c])
             /\ Owed(telemetry_stream', it[c])
                  \subseteq Owed(telemetry_stream, it[c]) \union {w}
             /\ ~it[c].on => Owed(telemetry_stream', it[c]) = {}
    BY <2>1, <2>2, AddOutput DEF StreamsOK
  <2>4. /\ telemetryOwed' \in [TcpClients -> SUBSET Outputs(telemetry_stream')]
        /\ \A c \in TcpClients :
             IF telemetryStatus[c] = "busy"
             THEN /\ telemetry_stream.room > 0 => telemetryOwed[c] \subseteq telemetryOwed'[c]
                  /\ telemetryOwed'[c] \subseteq telemetryOwed[c] \union {w}
             ELSE telemetryOwed'[c] = {}
    <3>1. \A c \in TcpClients : telemetryOwed'[c] = Owed(telemetry_stream', it[c])
      BY <1>1 DEF telemetryOwed
    <3>2. \A c \in TcpClients :
            Owed(telemetry_stream', it[c]) \subseteq Outputs(telemetry_stream')
      BY DEF Owed, Ahead
    <3>3. telemetryOwed' \in [TcpClients -> SUBSET Outputs(telemetry_stream')]
      BY <3>1, <3>2 DEF telemetryOwed
    <3>4. \A c \in TcpClients : telemetryStatus[c] = "busy" <=> it[c].on
      BY DEF telemetryStatus
    <3>5. \A c \in TcpClients : telemetryOwed[c] = Owed(telemetry_stream, it[c])
      BY DEF telemetryOwed
    <3> QED
      BY <2>3, <3>1, <3>3, <3>4, <3>5
  <2>5. CASE telemetry_stream.room > 0
    <3>1. TelemetryHub!Join(w)
      BY <1>2, <2>3, <2>4, <2>5 DEF TelemetryHub!Join, telemetryStatus, telemetryOwed
    <3> QED
      BY <3>1 DEF TelemetryHub!Next
  <2>6. CASE telemetry_stream.room = 0
    <3>1. TelemetryHub!JoinFull(w)
      BY <1>2, <2>3, <2>4, <2>6 DEF TelemetryHub!JoinFull, telemetryStatus, telemetryOwed
    <3> QED
      BY <3>1 DEF TelemetryHub!Next
  <2> QED
    BY <2>3, <2>5, <2>6
<1>4. CASE ConnectionClosed(w)
  <2>1. /\ Outputs(telemetry_stream') = Outputs(telemetry_stream) \ {w}
        /\ telemetry_stream'.room = telemetry_stream.room
        /\ \A c \in TcpClients :
             Owed(telemetry_stream', it[c]) = Owed(telemetry_stream, it[c]) \ {w}
    BY <1>4, RemoveOutput DEF ConnectionClosed, StreamsOK
  <2>2. telemetryOwed' = [c \in TcpClients |-> telemetryOwed[c] \ {w}]
    BY <1>1, <2>1 DEF telemetryOwed
  <2>3. TelemetryHub!Leave(w)
    BY <1>2, <2>1, <2>2 DEF TelemetryHub!Leave, telemetryStatus, telemetryOwed
  <2> QED
    BY <2>3 DEF TelemetryHub!Next
<1> QED
  BY <1>3, <1>4

LEMMA TelemetryBegins ==
  ASSUME IInv, NEW c \in TcpClients, TcpDataHandler(c)
  PROVE  TelemetryHub!Next
<1>1. /\ tcp[c] = "data" /\ UNCHANGED streams
      /\ it' = [it EXCEPT ![c] = Iterate(telemetry_stream)]
      /\ \A d \in TcpClients : d # c => tcp'[d] = tcp[d]
  BY DEF TcpDataHandler, TcpStep, IInv, TypeOK
<1>2. \A d \in TcpClients :
        it'[d] = IF d = c THEN Iterate(telemetry_stream) ELSE it[d]
  <2>1. c \in Publishers /\ TcpClients \subseteq Publishers
    BY DEF Publishers
  <2>2. it' = [it EXCEPT ![c] = Iterate(telemetry_stream)]
    BY <1>1
  <2> QED
    BY <2>1, <2>2, IteratorStep
<1>3. /\ Iterate(telemetry_stream).on
      /\ Owed(telemetry_stream, Iterate(telemetry_stream)) = Outputs(telemetry_stream)
  BY DaemonAssumption, Begins DEF IInv, StreamsOK
<1>4. telemetryStatus[c] # "busy"
  BY <1>1 DEF telemetryStatus, IInv, Working, Writing
<1>5. telemetryStatus' = [telemetryStatus EXCEPT ![c] = "busy"]
  BY <1>1, <1>2, <1>3 DEF telemetryStatus
<1>6. telemetryOwed' = [telemetryOwed EXCEPT ![c] = Outputs(telemetry_stream)]
  <2>1. telemetry_stream' = telemetry_stream
    BY <1>1 DEF streams
  <2>2. \A d \in TcpClients :
          telemetryOwed'[d] = IF d = c THEN Outputs(telemetry_stream)
                              ELSE telemetryOwed[d]
    BY <1>2, <1>3, <2>1 DEF telemetryOwed
  <2> QED
    BY <2>2 DEF telemetryOwed
<1>7. TelemetryHub!Begin(c)
  BY <1>1, <1>4, <1>5, <1>6
     DEF TelemetryHub!Begin, telemetryStatus, telemetryOwed, streams
<1> QED
  BY <1>7 DEF TelemetryHub!Next

LEMMA TelemetryStep ==
  IInv /\ [Next]_daemonVars => [TelemetryHub!Next]_(TelemetryHub!hubVars)
<1> SUFFICES ASSUME IInv, [Next]_daemonVars
             PROVE  TelemetryHub!Next \/ UNCHANGED TelemetryHub!hubVars
  OBVIOUS
<1>1. CASE \/ UNCHANGED <<clients, it, streams>>
           \/ \E w \in WsClients : WsMessage(w) \/ WsInvalid(w)
           \/ write(Loop)
  <2>1. UNCHANGED streams /\ \A c \in TcpClients : it'[c] = it[c]
    <3>1. CASE UNCHANGED <<clients, it, streams>>
      BY <3>1
    <3>2. CASE \E w \in WsClients : WsMessage(w)
      <4>1. it' = [it EXCEPT ![Loop] = Iterate(command_stream)] /\ UNCHANGED streams
        BY <3>2 DEF WsMessage
      <4> QED
        BY <4>1, IteratorStep, DaemonAssumption DEF Publishers
    <3>3. CASE write(Loop)
      BY <3>3, WriteOwes, DaemonAssumption DEF Publishers
    <3>4. CASE \E w \in WsClients : WsInvalid(w)
      BY <3>4 DEF WsInvalid
    <3> QED
      BY <1>1, <3>1, <3>2, <3>3, <3>4
  <2>2. UNCHANGED tcp
    BY <1>1 DEF clients, WsMessage, WsInvalid, write, WriteNext, WriteOut, Back
  <2> QED
    BY <2>1, <2>2, TelemetryStutters DEF streams
<1>2. ASSUME NEW c \in TcpClients,
             \/ Accept(c) \/ Poll(c) \/ Read(c) \/ Quit(c)
             \/ Register(c) \/ Unregister(c)
      PROVE  UNCHANGED TelemetryHub!hubVars
  <2>1. UNCHANGED <<it, telemetry_stream>>
    BY <1>2 DEF Accept, Poll, Read, Quit, Register, Unregister, streams
  <2>2. PICK to \in {"absent", "new", "poll", "data", "leave", "reset"} :
          tcp' = [tcp EXCEPT ![c] = to] /\ tcp[c] # "raised"
    BY <1>2 DEF Accept, Poll, Read, Quit, Register, Unregister, TcpStep
  <2>3. \A d \in TcpClients : (tcp'[d] = "raised") <=> (tcp[d] = "raised")
    BY <2>2 DEF IInv, TypeOK
  <2> QED
    BY <2>1, <2>3, TelemetryStutters
<1>3. CASE Main \/ Interrupt \/ Acceptor \/ LoopThread \/ UNCHANGED daemonVars
  <2>1. UNCHANGED <<clients, it, streams>>
    BY <1>3 DEF daemonVars, Main, Interrupt, Stopping, StartData, StartWs, RaiseFlag,
       Shutdown, ShutdownDone, ServerClose, QueueStop, Spin, JoinWs, MainStep,
       Acceptor, Serve, EndServe, LoopThread, LoopSetup, LoopListen, LoopReturns,
       LoopFails, LoopRun, LoopStop, LoopStep
  <2> QED
    BY <1>1, <2>1
<1> QED
  BY <1>1, <1>2, <1>3, TelemetryWrites, TelemetryJoins, TelemetryBegins DEF Next, Handle

(* The telemetry stream is a hub for every finite set of clients that come *)
(* and go for ever: a write that returns has reached every WebSocket       *)
(* client that was there throughout, unless meanwhile one connected for    *)
(* whom the dict had no room left and its table was made anew.             *)
THEOREM TelemetryIsHubAlways == Spec => TelemetryIsHub
<1>1. Init => TelemetryHub!Init
  <2> SUFFICES ASSUME Init PROVE TelemetryHub!Init
    OBVIOUS
  <2>1. /\ StreamOK(telemetry_stream, WsClients) /\ Outputs(telemetry_stream) = {}
        /\ telemetry_stream.room = ROOM
    BY NewStreamOK DEF Init, NewStream
  <2>2. Owed(telemetry_stream, NoIterator) = {}
    BY <2>1, NoIteratorOK, DaemonAssumption
  <2>3. \A c \in TcpClients : it[c] = NoIterator /\ tcp[c] = "absent"
    BY DEF Init
  <2>4. telemetryOwed = [p \in TcpClients |-> {}]
    BY <2>2, <2>3 DEF telemetryOwed
  <2>5. telemetryStatus = [p \in TcpClients |-> "ended"]
    BY <2>3 DEF telemetryStatus, NoIterator
  <2> QED
    BY <2>1, <2>4, <2>5, TelemetryMapping
<1> QED
  BY <1>1, Invariance, TelemetryStep, PTL
     DEF Spec, TelemetryIsHub, TelemetryHub!Spec

-----------------------------------------------------------------------------
(* The command stream, by the same argument.  Its one publisher is the     *)
(* event loop, and what it says of its last write is in the handler of the *)
(* client whose message it was.                                            *)
commandStatus == [p \in {Loop} |-> IF it[p].on THEN "busy"
                                   ELSE IF speaker # NoOutput /\ ws[speaker] = "raised"
                                   THEN "failed" ELSE "ended"]
commandOwed   == [p \in {Loop} |-> Owed(command_stream, it[p])]

LEMMA CommandMapping ==
  /\ CommandHub!Init <=> /\ Outputs(command_stream) = {}
                        /\ command_stream.room = ROOM
                        /\ commandStatus = [p \in {Loop} |-> "ended"]
                        /\ commandOwed = [p \in {Loop} |-> {}]
  /\ CommandHub!hubVars = <<Outputs(command_stream), command_stream.room,
                            commandStatus, commandOwed>>
BY DEF CommandHub!Init, CommandHub!hubVars, commandStatus, commandOwed

LEMMA CommandStutters ==
  ASSUME UNCHANGED <<command_stream, speaker>>, it'[Loop] = it[Loop],
         speaker # NoOutput => ((ws'[speaker] = "raised") <=> (ws[speaker] = "raised"))
  PROVE  UNCHANGED CommandHub!hubVars
<1>1. commandOwed' = commandOwed
  BY DEF commandOwed
<1>2. commandStatus' = commandStatus
  BY DEF commandStatus
<1> QED
  BY <1>1, <1>2 DEF CommandHub!hubVars, commandStatus, commandOwed

LEMMA CommandWrites ==
  ASSUME IInv, write(Loop)
  PROVE  CommandHub!Next \/ UNCHANGED CommandHub!hubVars
<1>1. Loop \in Publishers /\ Loop \notin TcpClients
  BY DaemonAssumption DEF Publishers
<1>2. /\ it[Loop].on /\ UNCHANGED streams
      /\ Owes(Loop) = commandOwed[Loop]
      /\ Owes(Loop)' = commandOwed'[Loop]
  BY <1>1, WriteOwes DEF Owes, StreamOf, commandOwed
<1>3. commandOwed' = [commandOwed EXCEPT ![Loop] = Owes(Loop)']
  BY <1>2 DEF commandOwed
<1>4. commandStatus[Loop] = "busy"
  BY <1>2 DEF commandStatus
<1>5. command_stream' = command_stream
  BY <1>2 DEF streams
<1>6. speaker \in WsClients /\ speaker # NoOutput
  BY <1>2, DaemonAssumption DEF IInv, Working
<1>7. ASSUME NEW raised \in BOOLEAN, Back(Loop, raised), ~it'[Loop].on
      PROVE  commandStatus' = [commandStatus EXCEPT
                                 ![Loop] = IF raised THEN "failed" ELSE "ended"]
  <2>1. /\ ws' = [ws EXCEPT ![speaker] = IF raised THEN "raised" ELSE "open"]
        /\ speaker' = speaker
    BY <1>7 DEF Back
  <2>2. ws'[speaker] = IF raised THEN "raised" ELSE "open"
    BY <1>6, <2>1 DEF IInv, TypeOK
  <2>3. commandStatus'[Loop] = IF raised THEN "failed" ELSE "ended"
    BY <1>6, <1>7, <2>1, <2>2 DEF commandStatus
  <2> QED
    BY <2>3 DEF commandStatus
<1>8. CASE Back(Loop, TRUE) /\ Owes(Loop)' = {} /\ ~it'[Loop].on
  <2>1. commandStatus' = [commandStatus EXCEPT ![Loop] = "failed"]
    BY <1>7, <1>8
  <2>2. CommandHub!Fail(Loop)
    BY <1>3, <1>4, <1>5, <1>8, <2>1 DEF CommandHub!Fail, commandStatus, commandOwed
  <2> QED
    BY <2>2 DEF CommandHub!Next
<1>9. CASE /\ Back(Loop, FALSE) /\ Owes(Loop) = {} /\ Owes(Loop)' = {}
           /\ ~it'[Loop].on
  <2>1. commandStatus' = [commandStatus EXCEPT ![Loop] = "ended"]
    BY <1>7, <1>9
  <2>2. commandOwed' = commandOwed /\ commandOwed[Loop] = {}
    BY <1>2, <1>3, <1>9 DEF commandOwed
  <2>3. CommandHub!End(Loop)
    BY <1>4, <1>5, <2>1, <2>2 DEF CommandHub!End, commandStatus, commandOwed
  <2> QED
    BY <2>3 DEF CommandHub!Next
<1>10. CASE UNCHANGED clients /\ it'[Loop].on
  <2>1. commandStatus' = commandStatus
    BY <1>2, <1>10 DEF commandStatus, clients
  <2>2. CASE Owes(Loop)' = Owes(Loop)
    <3>1. commandOwed' = commandOwed
      BY <1>2, <1>3, <2>2 DEF commandOwed
    <3> QED
      BY <1>5, <2>1, <3>1, CommandMapping
         DEF CommandHub!hubVars, commandStatus, commandOwed
  <2>3. ASSUME NEW s \in Owes(Loop), Owes(Loop)' = Owes(Loop) \ {s}
        PROVE  CommandHub!Next
    <3>1. s \in TcpClients
      <4>1. Owes(Loop) \subseteq Outputs(command_stream)
        BY DEF Owes, Owed, Ahead, StreamOf
      <4>2. Outputs(command_stream) \subseteq TcpClients
        BY DEF IInv, OutputsOwned
      <4> QED
        BY <2>3, <4>1, <4>2
    <3>2. commandOwed' = [commandOwed EXCEPT ![Loop] = @ \ {s}]
      BY <1>2, <1>3, <2>3 DEF commandOwed
    <3>3. CommandHub!Reach(Loop, s)
      BY <1>2, <1>5, <2>1, <2>3, <3>2 DEF CommandHub!Reach, commandStatus, commandOwed
    <3> QED
      BY <3>1, <3>3 DEF CommandHub!Next
  <2>4. \/ Owes(Loop)' = Owes(Loop)
        \/ \E s \in Owes(Loop) : Owes(Loop)' = Owes(Loop) \ {s}
    BY <1>1, <1>10, WriteOwes
  <2> QED
    BY <2>2, <2>3, <2>4
<1> QED
  BY <1>1, <1>8, <1>9, <1>10, WriteOwes

LEMMA CommandJoins ==
  ASSUME IInv, NEW c \in TcpClients, Register(c) \/ Unregister(c)
  PROVE  CommandHub!Next
<1> USE DEF IInv
<1>1. UNCHANGED <<ws, speaker, it>>
  BY DEF Register, Unregister, TcpStep
<1>2. commandStatus' = commandStatus
  BY <1>1 DEF commandStatus
<1>3. CASE Register(c)
  <2>1. PICK room \in Rooms : command_stream' = add_output(command_stream, c, room)
    BY <1>3 DEF Register
  <2>2. c \notin Outputs(command_stream) /\ it[Loop].at # c
    BY <1>3 DEF Register, TcpStep, OutputsOwned, NotMet
  <2>3. /\ Outputs(command_stream') = Outputs(command_stream) \union {c}
        /\ command_stream.room \in Nat /\ command_stream'.room \in Nat
        /\ command_stream.room > 0 => command_stream'.room = command_stream.room - 1
        /\ it[Loop].on /\ command_stream.room > 0 =>
             Owed(command_stream, it[Loop]) \subseteq Owed(command_stream', it[Loop])
        /\ Owed(command_stream', it[Loop])
             \subseteq Owed(command_stream, it[Loop]) \union {c}
        /\ ~it[Loop].on => Owed(command_stream', it[Loop]) = {}
    BY <2>1, <2>2, AddOutput DEF StreamsOK
  <2>4. /\ commandOwed' \in [{Loop} -> SUBSET Outputs(command_stream')]
        /\ \A p \in {Loop} :
             IF commandStatus[p] = "busy"
             THEN /\ command_stream.room > 0 => commandOwed[p] \subseteq commandOwed'[p]
                  /\ commandOwed'[p] \subseteq commandOwed[p] \union {c}
             ELSE commandOwed'[p] = {}
    <3>1. commandOwed'[Loop] = Owed(command_stream', it[Loop])
      BY <1>1 DEF commandOwed
    <3>2. Owed(command_stream', it[Loop]) \subseteq Outputs(command_stream')
      BY DEF Owed, Ahead
    <3>3. commandOwed' \in [{Loop} -> SUBSET Outputs(command_stream')]
      BY <3>1, <3>2 DEF commandOwed
    <3>4. commandStatus[Loop] = "busy" <=> it[Loop].on
      BY DEF commandStatus
    <3>5. commandOwed[Loop] = Owed(command_stream, it[Loop])
      BY DEF commandOwed
    <3> QED
      BY <2>3, <3>1, <3>3, <3>4, <3>5
  <2>5. CASE command_stream.room > 0
    <3>1. CommandHub!Join(c)
      BY <1>2, <2>3, <2>4, <2>5 DEF CommandHub!Join, commandStatus, commandOwed
    <3> QED
      BY <3>1 DEF CommandHub!Next
  <2>6. CASE command_stream.room = 0
    <3>1. CommandHub!JoinFull(c)
      BY <1>2, <2>3, <2>4, <2>6 DEF CommandHub!JoinFull, commandStatus, commandOwed
    <3> QED
      BY <3>1 DEF CommandHub!Next
  <2> QED
    BY <2>3, <2>5, <2>6
<1>4. CASE Unregister(c)
  <2>1. /\ Outputs(command_stream') = Outputs(command_stream) \ {c}
        /\ command_stream'.room = command_stream.room
        /\ Owed(command_stream', it[Loop]) = Owed(command_stream, it[Loop]) \ {c}
    BY <1>4, RemoveOutput DEF Unregister, StreamsOK
  <2>2. commandOwed' = [p \in {Loop} |-> commandOwed[p] \ {c}]
    BY <1>1, <2>1 DEF commandOwed
  <2>3. CommandHub!Leave(c)
    BY <1>2, <2>1, <2>2 DEF CommandHub!Leave, commandStatus, commandOwed
  <2> QED
    BY <2>3 DEF CommandHub!Next
<1> QED
  BY <1>3, <1>4

LEMMA CommandBegins ==
  ASSUME IInv, NEW w \in WsClients, WsMessage(w)
  PROVE  CommandHub!Next
<1>1. /\ ~it[Loop].on /\ UNCHANGED streams
      /\ it' = [it EXCEPT ![Loop] = Iterate(command_stream)]
  BY DEF WsMessage, LoopIdle
<1>2. it'[Loop] = Iterate(command_stream)
  <2>1. Loop \in Publishers
    BY DEF Publishers
  <2>2. it' = [it EXCEPT ![Loop] = Iterate(command_stream)]
    BY <1>1
  <2>3. \A q \in Publishers :
          it'[q] = IF q = Loop THEN Iterate(command_stream) ELSE it[q]
    BY <2>1, <2>2, IteratorStep
  <2> QED
    BY <2>1, <2>3
<1>3. /\ Iterate(command_stream).on
      /\ Owed(command_stream, Iterate(command_stream)) = Outputs(command_stream)
  BY DaemonAssumption, Begins DEF IInv, StreamsOK
<1>4. commandStatus[Loop] # "busy"
  BY <1>1 DEF commandStatus
<1>5. commandStatus' = [commandStatus EXCEPT ![Loop] = "busy"]
  BY <1>2, <1>3 DEF commandStatus
<1>6. commandOwed' = [commandOwed EXCEPT ![Loop] = Outputs(command_stream)]
  <2>1. command_stream' = command_stream
    BY <1>1 DEF streams
  <2> QED
    BY <1>2, <1>3, <2>1 DEF commandOwed
<1>7. CommandHub!Begin(Loop)
  BY <1>1, <1>4, <1>5, <1>6 DEF CommandHub!Begin, commandStatus, commandOwed, streams
<1> QED
  BY <1>7 DEF CommandHub!Next

LEMMA CommandStep ==
  IInv /\ [Next]_daemonVars => [CommandHub!Next]_(CommandHub!hubVars)
<1> SUFFICES ASSUME IInv, [Next]_daemonVars
             PROVE  CommandHub!Next \/ UNCHANGED CommandHub!hubVars
  OBVIOUS
<1>1. ASSUME UNCHANGED <<ws, speaker, command_stream>>, it'[Loop] = it[Loop]
      PROVE  UNCHANGED CommandHub!hubVars
  BY <1>1, CommandStutters
<1>2. CASE Main \/ Interrupt \/ Acceptor \/ LoopThread \/ UNCHANGED daemonVars
  <2>1. UNCHANGED <<clients, it, streams>>
    BY <1>2 DEF daemonVars, Main, Interrupt, Stopping, StartData, StartWs, RaiseFlag,
       Shutdown, ShutdownDone, ServerClose, QueueStop, Spin, JoinWs, MainStep,
       Acceptor, Serve, EndServe, LoopThread, LoopSetup, LoopListen, LoopReturns,
       LoopFails, LoopRun, LoopStop, LoopStep
  <2> QED
    BY <1>1, <2>1 DEF clients, streams
<1>3. ASSUME NEW c \in TcpClients, Accept(c) \/ Poll(c) \/ Read(c) \/ Quit(c)
      PROVE  UNCHANGED CommandHub!hubVars
  <2>1. UNCHANGED <<ws, speaker, it, command_stream>>
    BY <1>3 DEF Accept, Poll, Read, Quit, TcpStep, streams
  <2> QED
    BY <1>1, <2>1
<1>4. ASSUME NEW c \in TcpClients, TcpDataHandler(c)
      PROVE  UNCHANGED CommandHub!hubVars
  <2>1. /\ UNCHANGED <<ws, speaker, command_stream>>
        /\ it' = [it EXCEPT ![c] = Iterate(telemetry_stream)]
    BY <1>4 DEF TcpDataHandler, TcpStep, streams
  <2>2. it'[Loop] = it[Loop]
    BY <2>1, IteratorStep, DaemonAssumption DEF Publishers
  <2> QED
    BY <1>1, <2>1, <2>2
<1>5. ASSUME NEW c \in TcpClients, write(c)
      PROVE  UNCHANGED CommandHub!hubVars
  <2>1. c \in Publishers /\ Loop \in Publishers /\ c # Loop
    BY DaemonAssumption DEF Publishers
  <2>2. it'[Loop] = it[Loop] /\ UNCHANGED streams
    BY <1>5, <2>1, WriteOwes
  <2>3. UNCHANGED <<ws, speaker>>
    BY <1>5, <2>1 DEF write, WriteNext, WriteOut, Back, clients
  <2> QED
    BY <1>1, <2>2, <2>3 DEF streams
<1>6. ASSUME NEW w \in WsClients, WsConnect(w) \/ WsInvalid(w) \/ ConnectionClosed(w)
      PROVE  UNCHANGED CommandHub!hubVars
  <2>1. UNCHANGED <<speaker, it, command_stream>>
    BY <1>6 DEF WsConnect, WsInvalid, ConnectionClosed, streams
  <2>2. PICK to \in {"open", "invalid", "absent"} :
          ws' = [ws EXCEPT ![w] = to] /\ ws[w] # "raised"
    BY <1>6 DEF WsConnect, WsInvalid, ConnectionClosed
  <2>3. speaker # NoOutput => ((ws'[speaker] = "raised") <=> (ws[speaker] = "raised"))
    BY <2>2 DEF IInv, TypeOK
  <2> QED
    BY <2>1, <2>3, CommandStutters
<1> QED
  BY <1>2, <1>3, <1>4, <1>5, <1>6, CommandWrites, CommandJoins, CommandBegins
     DEF Next, Handle

(* The command stream is a hub for every finite set of clients that come   *)
(* and go for ever: when the event loop goes on after a command, it has    *)
(* reached every TCP client that was there throughout, or its handler died *)
(* of the exception, or meanwhile a client registered for whom the dict    *)
(* had no room left and its table was made anew.                           *)
THEOREM CommandIsHubAlways == Spec => CommandIsHub
<1>1. Init => CommandHub!Init
  <2> SUFFICES ASSUME Init PROVE CommandHub!Init
    OBVIOUS
  <2>1. /\ StreamOK(command_stream, TcpClients) /\ Outputs(command_stream) = {}
        /\ command_stream.room = ROOM
    BY NewStreamOK DEF Init, NewStream
  <2>2. Owed(command_stream, NoIterator) = {}
    BY <2>1, NoIteratorOK, DaemonAssumption
  <2>3. it[Loop] = NoIterator /\ speaker = NoOutput
    BY DEF Init
  <2>4. commandOwed = [p \in {Loop} |-> {}]
    BY <2>2, <2>3 DEF commandOwed
  <2>5. commandStatus = [p \in {Loop} |-> "ended"]
    BY <2>3 DEF commandStatus, NoIterator
  <2> QED
    BY <2>1, <2>4, <2>5, CommandMapping
<1> QED
  BY <1>1, Invariance, CommandStep, PTL DEF Spec, CommandIsHub, CommandHub!Spec
=============================================================================
