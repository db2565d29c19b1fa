-------------------------- MODULE PCBufferTheorems --------------------------
(***************************************************************************)
(* What the operations of PCBuffer return, preserve and bound, for every   *)
(* size and every width of the counters.                                   *)
(***************************************************************************)
EXTENDS PCBuffer, TLAPS

(* Modular arithmetic of one step, of one counter or of a difference. *)
LEMMA StepUp ==
  ASSUME NEW M \in Nat \ {0}, NEW n \in 0..M-1
  PROVE  /\ (n + 1) % M \in 0..M-1
         /\ (n + 1) % M = IF n + 1 = M THEN 0 ELSE n + 1
OBVIOUS

LEMMA StepDown ==
  ASSUME NEW M \in Nat \ {0}, NEW n \in 0..M-1
  PROVE  /\ (n - 1) % M \in 0..M-1
         /\ (n - 1) % M = IF n = 0 THEN M - 1 ELSE n - 1
OBVIOUS

LEMMA Difference ==
  ASSUME NEW M \in Nat \ {0}, NEW p \in 0..M-1, NEW c \in 0..M-1
  PROVE  /\ (p - c) % M \in 0..M-1
         /\ (p - c) % M = IF p >= c THEN p - c ELSE p - c + M
OBVIOUS

LEMMA SlotInRange ==
  ASSUME NEW size \in Nat \ {0}, NEW n \in Nat
  PROVE  n % size \in 0..size-1
OBVIOUS

-----------------------------------------------------------------------------
(* A fresh buffer is a buffer, and empty. *)
LEMMA InitType ==
  ASSUME NEW Value, NEW size \in Nat \ {0}, NEW junk \in Value
  PROVE  /\ pc_buffer_init(size, junk) \in PC_Buffer(Value, size)
         /\ Used(pc_buffer_init(size, junk)) = 0
<1>1. 0 \in 0..COUNT_MOD-1 /\ 0 \in 0..MESSAGE_MOD-1
  BY WidthAssumption
<1>2. (0 - 0) % COUNT_MOD = 0
  BY <1>1, Difference, WidthAssumption
<1> QED
  BY <1>1, <1>2 DEF pc_buffer_init, PC_Buffer, Used

(* Used counts what is between the counters, and is 0 exactly on an empty  *)
(* buffer.                                                                 *)
LEMMA UsedType ==
  ASSUME NEW Value, NEW size \in Nat \ {0}, NEW buf \in PC_Buffer(Value, size)
  PROVE  /\ Used(buf) \in 0..COUNT_MOD-1
         /\ pc_buffer_empty(buf) <=> Used(buf) = 0
         /\ Used(buf) = IF buf.produce_count >= buf.consume_count
                        THEN buf.produce_count - buf.consume_count
                        ELSE buf.produce_count - buf.consume_count + COUNT_MOD
<1>1. /\ COUNT_MOD \in Nat \ {0}
      /\ buf.produce_count \in 0..COUNT_MOD-1
      /\ buf.consume_count \in 0..COUNT_MOD-1
  BY WidthAssumption DEF PC_Buffer
<1> QED
  BY <1>1, Difference DEF Used, pc_buffer_empty

(* Adding keeps the buffer's type and makes it one longer, until the       *)
(* counters' whole range is used.                                          *)
LEMMA AddType ==
  ASSUME NEW Value, NEW size \in Nat \ {0}, NEW buf \in PC_Buffer(Value, size),
         NEW data \in Value
  PROVE  /\ pc_buffer_add(buf, data) \in PC_Buffer(Value, size)
         /\ Used(buf) + 1 < COUNT_MOD =>
              Used(pc_buffer_add(buf, data)) = Used(buf) + 1
<1> DEFINE new == pc_buffer_add(buf, data)
<1>1. /\ COUNT_MOD \in Nat \ {0}
      /\ buf.array \in [0..size-1 -> Value] /\ buf.buffer_SIZE = size
      /\ buf.produce_count \in 0..COUNT_MOD-1
      /\ buf.consume_count \in 0..COUNT_MOD-1
      /\ buf.message_available \in 0..MESSAGE_MOD-1
  BY WidthAssumption DEF PC_Buffer
<1>2. buf.produce_count % size \in 0..size-1
  <2>1. buf.produce_count \in Nat
    BY <1>1
  <2> QED
    BY <2>1, SlotInRange
<1>3. /\ (buf.produce_count + 1) % COUNT_MOD \in 0..COUNT_MOD-1
      /\ (buf.produce_count + 1) % COUNT_MOD =
           IF buf.produce_count + 1 = COUNT_MOD THEN 0 ELSE buf.produce_count + 1
  BY <1>1, StepUp
<1>4. /\ new.array = [buf.array EXCEPT ![buf.produce_count % size] = data]
      /\ new.buffer_SIZE = size
      /\ new.produce_count = (buf.produce_count + 1) % COUNT_MOD
      /\ new.consume_count = buf.consume_count
      /\ new.message_available = buf.message_available
  BY <1>1 DEF pc_buffer_add, PC_Buffer
<1>5. new \in PC_Buffer(Value, size)
  <2>1. /\ new.array \in [0..size-1 -> Value]
        /\ new.produce_count \in 0..COUNT_MOD-1
        /\ new.consume_count \in 0..COUNT_MOD-1
        /\ new.message_available \in 0..MESSAGE_MOD-1
        /\ new.buffer_SIZE \in {size}
    BY <1>1, <1>2, <1>3, <1>4
  <2> QED
    BY <2>1 DEF pc_buffer_add, PC_Buffer
<1>6. ASSUME Used(buf) + 1 < COUNT_MOD PROVE Used(new) = Used(buf) + 1
  <2> DEFINE p == buf.produce_count
             c == buf.consume_count
             q == new.produce_count
  <2>1. /\ q = IF p + 1 = COUNT_MOD THEN 0 ELSE p + 1
        /\ new.consume_count = c
    BY <1>3, <1>4
  <2>2. Used(buf) = IF p >= c THEN p - c ELSE p - c + COUNT_MOD
    BY UsedType
  <2>3. Used(new) = IF q >= c THEN q - c ELSE q - c + COUNT_MOD
    BY <1>5, <2>1, UsedType
  <2> HIDE DEF new, p, c, q
  <2>4. p \in 0..COUNT_MOD-1 /\ c \in 0..COUNT_MOD-1
    BY <1>1 DEF p, c
  <2> QED
    BY <1>1, <1>6, <2>1, <2>2, <2>3, <2>4
<1> QED
  BY <1>5, <1>6

(* Removing from a buffer that is not empty makes it one shorter. *)
LEMMA RemoveType ==
  ASSUME NEW Value, NEW size \in Nat \ {0}, NEW buf \in PC_Buffer(Value, size)
  PROVE  /\ pc_buffer_remove(buf) \in PC_Buffer(Value, size)
         /\ Oldest(buf) \in Value
         /\ ~pc_buffer_empty(buf) => Used(pc_buffer_remove(buf)) = Used(buf) - 1
<1> DEFINE new == pc_buffer_remove(buf)
<1>1. /\ COUNT_MOD \in Nat \ {0}
      /\ buf.array \in [0..size-1 -> Value] /\ buf.buffer_SIZE = size
      /\ buf.produce_count \in 0..COUNT_MOD-1
      /\ buf.consume_count \in 0..COUNT_MOD-1
      /\ buf.message_available \in 0..MESSAGE_MOD-1
  BY WidthAssumption DEF PC_Buffer
<1>2. /\ (buf.consume_count + 1) % COUNT_MOD \in 0..COUNT_MOD-1
      /\ (buf.consume_count + 1) % COUNT_MOD =
           IF buf.consume_count + 1 = COUNT_MOD THEN 0 ELSE buf.consume_count + 1
  BY <1>1, StepUp
<1>3. new = [array |-> buf.array, buffer_SIZE |-> size,
             produce_count |-> buf.produce_count,
             consume_count |-> (buf.consume_count + 1) % COUNT_MOD,
             message_available |-> buf.message_available]
  BY <1>1 DEF pc_buffer_remove, PC_Buffer
<1>4. new \in PC_Buffer(Value, size)
  BY <1>1, <1>2, <1>3 DEF PC_Buffer
<1>5. Oldest(buf) \in Value
  <2>1. buf.consume_count % size \in 0..size-1
    <3>1. buf.consume_count \in Nat
      BY <1>1
    <3> QED
      BY <3>1, SlotInRange
  <2> QED
    BY <1>1, <2>1 DEF Oldest
<1>6. ASSUME ~pc_buffer_empty(buf) PROVE Used(new) = Used(buf) - 1
  <2>1. buf.produce_count # buf.consume_count
    BY <1>6 DEF pc_buffer_empty
  <2> QED
    <3> DEFINE p == buf.produce_count
               c == buf.consume_count
               d == new.consume_count
    <3>1. /\ d = IF c + 1 = COUNT_MOD THEN 0 ELSE c + 1
          /\ new.produce_count = p
      BY <1>2, <1>3
    <3>2. Used(buf) = IF p >= c THEN p - c ELSE p - c + COUNT_MOD
      BY UsedType
    <3>3. Used(new) = IF p >= d THEN p - d ELSE p - d + COUNT_MOD
      BY <1>4, <3>1, UsedType
    <3>4. p \in 0..COUNT_MOD-1 /\ c \in 0..COUNT_MOD-1 /\ p # c
      BY <1>1, <2>1
    <3> HIDE DEF new, p, c, d
    <3> QED
      BY <1>1, <3>1, <3>2, <3>3, <3>4
<1> QED
  BY <1>4, <1>5, <1>6

(* Taking back the newest value keeps the type. *)
LEMMA UnproduceType ==
  ASSUME NEW Value, NEW size \in Nat \ {0}, NEW buf \in PC_Buffer(Value, size)
  PROVE  Unproduce(buf) \in PC_Buffer(Value, size)
<1>1. /\ COUNT_MOD \in Nat \ {0}
      /\ buf.produce_count \in 0..COUNT_MOD-1
  BY WidthAssumption DEF PC_Buffer
<1>2. (buf.produce_count - 1) % COUNT_MOD \in 0..COUNT_MOD-1
  BY <1>1, StepDown
<1> QED
  BY <1>2 DEF Unproduce, PC_Buffer

(* Counting a message leaves the values alone. *)
LEMMA CountMessageType ==
  ASSUME NEW Value, NEW size \in Nat \ {0}, NEW buf \in PC_Buffer(Value, size)
  PROVE  /\ CountMessage(buf) \in PC_Buffer(Value, size)
         /\ Used(CountMessage(buf)) = Used(buf)
<1>1. (buf.message_available + 1) % MESSAGE_MOD \in 0..MESSAGE_MOD-1
  <2>1. MESSAGE_MOD \in Nat \ {0} /\ buf.message_available \in 0..MESSAGE_MOD-1
    BY WidthAssumption DEF PC_Buffer
  <2> QED
    BY <2>1, StepUp
<1> QED
  BY <1>1 DEF CountMessage, PC_Buffer, Used

(* A guarded add keeps the type and never exceeds the slots. *)
LEMMA AddIfRoomType ==
  ASSUME NEW Value, NEW size \in Nat \ {0}, size < COUNT_MOD,
         NEW buf \in PC_Buffer(Value, size), NEW data \in Value
  PROVE  /\ AddIfRoom(buf, data) \in PC_Buffer(Value, size)
         /\ Used(buf) <= size => /\ Used(AddIfRoom(buf, data)) <= size
                                 /\ Used(AddIfRoom(buf, data)) >= Used(buf)
<1>1. Used(buf) \in 0..COUNT_MOD-1 /\ COUNT_MOD \in Nat \ {0}
  BY UsedType, WidthAssumption
<1>2. CASE pc_buffer_full(buf)
  BY <1>1, <1>2 DEF AddIfRoom
<1>3. CASE ~pc_buffer_full(buf)
  <2>1. Used(buf) # size
    BY <1>3 DEF pc_buffer_full, PC_Buffer
  <2>2. AddIfRoom(buf, data) = pc_buffer_add(buf, data)
    BY <1>3 DEF AddIfRoom
  <2> QED
    BY <1>1, <2>1, <2>2, AddType
<1> QED
  BY <1>2, <1>3
-----------------------------------------------------------------------------
(***************************************************************************)
(* What the operations do to the values of a buffer.  The slot of a count  *)
(* is the count modulo the size, so the order depends on how the counters  *)
(* wrap: at a multiple of the size, or not yet.                            *)
(***************************************************************************)
Straight(buf) ==
  \/ COUNT_MOD % buf.buffer_SIZE = 0
  \/ buf.consume_count <= buf.produce_count

(* Modular arithmetic with a modulus that is a variable. *)
LEMMA Multiples ==
  ASSUME NEW s \in Nat \ {0}, NEW k \in Int
  PROVE  /\ k <= 0 => s * k <= 0
         /\ k >= 1 => s * k >= s
<1>1. CASE k <= 0
  BY <1>1
<1>2. CASE k >= 1
  BY <1>2
<1> QED
  BY <1>1, <1>2

LEMMA Quotient ==
  ASSUME NEW s \in Nat \ {0}, NEW a \in Int
  PROVE  /\ a \div s \in Int
         /\ a % s \in 0..s-1
         /\ a = s * (a \div s) + (a % s)
<1>1. a \div s \in Int /\ a % s \in 0..s-1
  OBVIOUS
<1>2. a = s * (a \div s) + (a % s)
  OBVIOUS
<1> QED
  BY <1>1, <1>2

LEMMA Remainder ==
  ASSUME NEW s \in Nat \ {0}, NEW q \in Int, NEW r \in 0..s-1
  PROVE  (s * q + r) % s = r
OBVIOUS

LEMMA NearbySlots ==
  ASSUME NEW s \in Nat \ {0}, NEW a \in Nat, NEW d \in 1..s-1
  PROVE  (a + d) % s # a % s
<1> DEFINE q1 == a \div s
           q2 == (a + d) \div s
           r1 == a % s
           r2 == (a + d) % s
<1>1. a = s * q1 + r1 /\ q1 \in Int /\ r1 \in 0..s-1
  BY Quotient
<1>2. a + d = s * q2 + r2 /\ q2 \in Int /\ r2 \in 0..s-1
  <2>1. a + d \in Int
    OBVIOUS
  <2> QED
    BY <2>1, Quotient
<1> SUFFICES ASSUME r2 = r1 PROVE FALSE
  OBVIOUS
<1> HIDE DEF q1, q2, r1, r2
<1>3. d = s * (q2 - q1) /\ q2 - q1 \in Int
  BY <1>1, <1>2
<1> QED
  BY <1>3, Multiples

LEMMA WrapAtMultiple ==
  ASSUME NEW s \in Nat \ {0}, NEW m \in Nat \ {0}, m % s = 0,
         NEW a \in Nat, a < 2 * m
  PROVE  (a % m) % s = a % s
<1>1. CASE a < m
  BY <1>1
<1>2. CASE a >= m
  <2> DEFINE k == m \div s
             q == a \div s
             r == a % s
  <2>1. a % m = a - m
    BY <1>2
  <2>2. m = s * k /\ k \in Int
    BY Quotient
  <2>3. a = s * q + r /\ q \in Int /\ r \in 0..s-1
    BY Quotient
  <2>4. (a - m) % s = r
    <3> HIDE DEF k, q, r
    <3>1. a - m = s * (q - k) + r /\ q - k \in Int
      BY <2>2, <2>3
    <3> QED
      BY <2>3, <3>1, Remainder
  <2> QED
    BY <2>1, <2>4
<1> QED
  BY <1>1, <1>2

(* The count of the next value is that of the oldest, moved on by Used. *)
LEMMA NextCount ==
  ASSUME NEW Value, NEW size \in Nat \ {0}, NEW buf \in PC_Buffer(Value, size)
  PROVE  (buf.consume_count + Used(buf)) % COUNT_MOD = buf.produce_count
<1> DEFINE p == buf.produce_count
           c == buf.consume_count
           u == Used(buf)
<1>1. COUNT_MOD \in Nat \ {0} /\ p \in 0..COUNT_MOD-1 /\ c \in 0..COUNT_MOD-1
  BY WidthAssumption DEF PC_Buffer
<1>2. u = IF p >= c THEN p - c ELSE p - c + COUNT_MOD
  BY UsedType
<1>3. (c + u) % COUNT_MOD = p
  <2> HIDE DEF p, c, u
  <2>1. CASE p >= c
    BY <1>1, <1>2, <2>1
  <2>2. CASE p < c
    <3>1. c + u = p + COUNT_MOD
      BY <1>1, <1>2, <2>2
    <3> QED
      BY <1>1, <3>1
  <2> QED
    BY <1>1, <2>1, <2>2
<1> QED
  BY <1>3

(* In a straight buffer with room the next value's slot holds none of the  *)
(* values that wait.                                                       *)
LEMMA StraightSlots ==
  ASSUME NEW Value, NEW size \in Nat \ {0}, size < COUNT_MOD,
         NEW buf \in PC_Buffer(Value, size), Straight(buf),
         Used(buf) < size, NEW i \in 1..Used(buf)
  PROVE  ((buf.consume_count + i - 1) % COUNT_MOD) % size
           # buf.produce_count % size
<1> DEFINE p == buf.produce_count
           c == buf.consume_count
           u == Used(buf)
<1>1. /\ COUNT_MOD \in Nat \ {0} /\ p \in 0..COUNT_MOD-1 /\ c \in 0..COUNT_MOD-1
      /\ buf.buffer_SIZE = size
  BY WidthAssumption DEF PC_Buffer
<1>2. u \in 0..size-1 /\ u = IF p >= c THEN p - c ELSE p - c + COUNT_MOD
  BY <1>1, UsedType
<1>3. i \in 1..u
  OBVIOUS
<1>4. COUNT_MOD % size = 0 \/ c <= p
  BY <1>1 DEF Straight
<1>5. (c + u) % COUNT_MOD = p
  BY NextCount
<1> HIDE DEF p, c, u
<1>6. (c + u) % size # (c + i - 1) % size
  <2>1. c + i - 1 \in Nat /\ u - i + 1 \in 1..size-1
    BY <1>1, <1>2, <1>3
  <2>2. ((c + i - 1) + (u - i + 1)) % size # (c + i - 1) % size
    BY <2>1, NearbySlots
  <2>3. (c + i - 1) + (u - i + 1) = c + u
    BY <1>1, <1>2, <1>3
  <2> QED
    BY <2>2, <2>3
<1>7. /\ ((c + i - 1) % COUNT_MOD) % size = (c + i - 1) % size
      /\ ((c + u) % COUNT_MOD) % size = (c + u) % size
  <2>1. CASE COUNT_MOD % size = 0
    <3>1. /\ c + i - 1 \in Nat /\ c + i - 1 < 2 * COUNT_MOD
          /\ c + u \in Nat /\ c + u < 2 * COUNT_MOD
      BY <1>1, <1>2, <1>3
    <3>2. ASSUME NEW a \in Nat, a < 2 * COUNT_MOD
          PROVE  (a % COUNT_MOD) % size = a % size
      BY <1>1, <2>1, <3>2, WrapAtMultiple
    <3> QED
      BY <3>1, <3>2
  <2>2. CASE c <= p
    <3>1. c + i - 1 \in 0..COUNT_MOD-1 /\ c + u \in 0..COUNT_MOD-1
      BY <1>1, <1>2, <1>3, <2>2
    <3>2. (c + i - 1) % COUNT_MOD = c + i - 1 /\ (c + u) % COUNT_MOD = c + u
      BY <1>1, <3>1
    <3> QED
      BY <3>2
  <2> QED
    BY <1>4, <2>1, <2>2
<1>8. ((c + i - 1) % COUNT_MOD) % size # p % size
  BY <1>5, <1>6, <1>7
<1> QED
  BY <1>8 DEF p, c, u

(* When a sequence is another with a value behind it, or without its head. *)
LEMMA IsAppend ==
  ASSUME NEW Value, NEW s \in Seq(Value), NEW t \in Seq(Value), NEW e \in Value,
         Len(t) = Len(s) + 1, \A i \in 1..Len(s) : t[i] = s[i], t[Len(s) + 1] = e
  PROVE  t = Append(s, e)
<1>1. /\ Append(s, e) \in Seq(Value) /\ Len(Append(s, e)) = Len(s) + 1
      /\ \A i \in 1..Len(s)+1 :
           Append(s, e)[i] = IF i <= Len(s) THEN s[i] ELSE e
  OBVIOUS
<1>2. \A i \in 1..Len(t) : t[i] = Append(s, e)[i]
  BY <1>1
<1> QED
  BY <1>1, <1>2

LEMMA IsTail ==
  ASSUME NEW Value, NEW s \in Seq(Value), NEW t \in Seq(Value),
         Len(s) = Len(t) + 1, \A i \in 1..Len(t) : t[i] = s[i + 1]
  PROVE  /\ s # << >>
         /\ Head(s) = s[1]
         /\ t = Tail(s)
<1>1. s # << >> /\ Head(s) = s[1]
  OBVIOUS
<1>2. /\ Tail(s) \in Seq(Value) /\ Len(Tail(s)) = Len(s) - 1
      /\ \A i \in 1..Len(s)-1 : Tail(s)[i] = s[i + 1]
  BY <1>1
<1>3. \A i \in 1..Len(t) : t[i] = Tail(s)[i]
  BY <1>2
<1> QED
  BY <1>1, <1>2, <1>3

(* The values that wait are a sequence. *)
LEMMA ContentsType ==
  ASSUME NEW Value, NEW size \in Nat \ {0}, NEW buf \in PC_Buffer(Value, size)
  PROVE  /\ Contents(buf) \in Seq(Value)
         /\ Len(Contents(buf)) = Used(buf)
         /\ \A i \in 1..Used(buf) :
              Contents(buf)[i] =
                buf.array[((buf.consume_count + i - 1) % COUNT_MOD) % size]
<1>1. /\ COUNT_MOD \in Nat \ {0} /\ buf.consume_count \in 0..COUNT_MOD-1
      /\ buf.array \in [0..size-1 -> Value] /\ buf.buffer_SIZE = size
  BY WidthAssumption DEF PC_Buffer
<1>2. Used(buf) \in Nat
  BY <1>1, UsedType
<1>3. ASSUME NEW i \in 1..Used(buf)
      PROVE  ((buf.consume_count + i - 1) % COUNT_MOD) % size \in 0..size-1
  <2> DEFINE a == buf.consume_count + i - 1
  <2>1. a \in Int
    BY <1>1, <1>2
  <2> HIDE DEF a
  <2>2. a % COUNT_MOD \in Nat
    BY <1>1, <2>1, Quotient
  <2>3. (a % COUNT_MOD) % size \in 0..size-1
    BY <2>2, SlotInRange
  <2> QED
    BY <2>3 DEF a
<1>4. Contents(buf) \in [1..Used(buf) -> Value]
  BY <1>1, <1>3 DEF Contents
<1>5. Contents(buf) \in Seq(Value) /\ Len(Contents(buf)) = Used(buf)
  BY <1>2, <1>4
<1>6. ASSUME NEW i \in 1..Used(buf)
      PROVE  Contents(buf)[i] =
               buf.array[((buf.consume_count + i - 1) % COUNT_MOD) % size]
  BY <1>1 DEF Contents
<1> QED
  BY <1>5, <1>6

(* A value added goes behind those that wait. *)
LEMMA AddContents ==
  ASSUME NEW Value, NEW size \in Nat \ {0}, size < COUNT_MOD,
         NEW buf \in PC_Buffer(Value, size), Straight(buf),
         Used(buf) < size, NEW data \in Value
  PROVE  Contents(pc_buffer_add(buf, data)) = Append(Contents(buf), data)
<1> DEFINE new == pc_buffer_add(buf, data)
           c == buf.consume_count
           slot(i) == ((c + i - 1) % COUNT_MOD) % size
<1>1. /\ COUNT_MOD \in Nat \ {0} /\ c \in 0..COUNT_MOD-1
      /\ buf.array \in [0..size-1 -> Value] /\ buf.buffer_SIZE = size
      /\ buf.produce_count \in 0..COUNT_MOD-1
  BY WidthAssumption DEF PC_Buffer
<1>2. /\ new.array = [buf.array EXCEPT ![buf.produce_count % size] = data]
      /\ new.consume_count = c
  BY <1>1 DEF pc_buffer_add, PC_Buffer
<1>3. new \in PC_Buffer(Value, size) /\ Used(new) = Used(buf) + 1
  <2>1. Used(buf) \in 0..COUNT_MOD-1
    BY UsedType
  <2> QED
    BY <1>1, <2>1, AddType
<1>4. buf.produce_count % size \in 0..size-1
  <2>1. buf.produce_count \in Nat
    BY <1>1
  <2> QED
    BY <2>1, SlotInRange
<1>5. ASSUME NEW i \in 1..Used(buf) PROVE new.array[slot(i)] = buf.array[slot(i)]
  <2>1. slot(i) # buf.produce_count % size
    BY StraightSlots
  <2> QED
    BY <1>1, <1>2, <2>1
<1>6. new.array[slot(Used(buf) + 1)] = data
  <2>1. c + (Used(buf) + 1) - 1 = c + Used(buf)
    BY <1>1, UsedType
  <2>2. slot(Used(buf) + 1) = buf.produce_count % size
    BY <2>1, NextCount
  <2> QED
    BY <1>1, <1>2, <1>4, <2>2
<1>7. /\ Contents(new) \in Seq(Value) /\ Len(Contents(new)) = Used(buf) + 1
      /\ \A i \in 1..Used(buf)+1 : Contents(new)[i] = new.array[slot(i)]
  <2> HIDE DEF new
  <2>1. /\ Contents(new) \in Seq(Value) /\ Len(Contents(new)) = Used(new)
        /\ \A i \in 1..Used(new) :
             Contents(new)[i] =
               new.array[((new.consume_count + i - 1) % COUNT_MOD) % size]
    BY <1>3, ContentsType
  <2> QED
    BY <1>2, <1>3, <2>1
<1>8. /\ Contents(buf) \in Seq(Value) /\ Len(Contents(buf)) = Used(buf)
      /\ \A i \in 1..Used(buf) : Contents(buf)[i] = buf.array[slot(i)]
  BY ContentsType
<1>9. Used(buf) \in Nat
  BY <1>1, UsedType
<1>10. Contents(new) = Append(Contents(buf), data)
  <2> HIDE DEF new, slot
  <2>1. \A i \in 1..Used(buf) : Contents(new)[i] = Contents(buf)[i]
    BY <1>5, <1>7, <1>8, <1>9
  <2>2. Contents(new)[Used(buf) + 1] = data
    BY <1>6, <1>7, <1>9
  <2> QED
    BY <1>7, <1>8, <2>1, <2>2, IsAppend
<1> QED
  BY <1>10

(* A value removed was the first of those that wait; a buffer stays        *)
(* straight.                                                               *)
LEMMA RemoveContents ==
  ASSUME NEW Value, NEW size \in Nat \ {0}, NEW buf \in PC_Buffer(Value, size),
         ~pc_buffer_empty(buf)
  PROVE  /\ Contents(buf) # << >>
         /\ Oldest(buf) = Head(Contents(buf))
         /\ Contents(pc_buffer_remove(buf)) = Tail(Contents(buf))
<1> DEFINE new == pc_buffer_remove(buf)
           c == buf.consume_count
           slot(i) == ((c + i - 1) % COUNT_MOD) % size
<1>1. /\ COUNT_MOD \in Nat \ {0} /\ c \in 0..COUNT_MOD-1
      /\ buf.buffer_SIZE = size
  BY WidthAssumption DEF PC_Buffer
<1>2. new.array = buf.array /\ new.consume_count = (c + 1) % COUNT_MOD
  BY <1>1 DEF pc_buffer_remove, PC_Buffer
<1>3. /\ new \in PC_Buffer(Value, size) /\ Used(new) = Used(buf) - 1
      /\ Used(buf) \in Nat \ {0}
  BY <1>1, RemoveType, UsedType
<1>4. /\ Contents(buf) \in Seq(Value) /\ Len(Contents(buf)) = Used(buf)
      /\ \A i \in 1..Used(buf) : Contents(buf)[i] = buf.array[slot(i)]
  BY ContentsType
<1>5. ASSUME NEW i \in 1..Used(buf)-1
      PROVE  (((c + 1) % COUNT_MOD) + i - 1) % COUNT_MOD = (c + (i + 1) - 1) % COUNT_MOD
  <2>1. i \in Nat \ {0} /\ i < COUNT_MOD
    BY <1>1, <1>3, UsedType
  <2>2. (c + 1) % COUNT_MOD = IF c + 1 = COUNT_MOD THEN 0 ELSE c + 1
    BY <1>1, StepUp
  <2> HIDE DEF c
  <2>3. CASE c + 1 = COUNT_MOD
    <3>1. c + (i + 1) - 1 = COUNT_MOD + (i - 1)
      BY <1>1, <2>1, <2>3
    <3>2. (COUNT_MOD + (i - 1)) % COUNT_MOD = i - 1
      BY <1>1, <2>1
    <3>3. (0 + i - 1) % COUNT_MOD = i - 1
      BY <1>1, <2>1
    <3> QED
      BY <2>2, <2>3, <3>1, <3>2, <3>3
  <2>4. CASE c + 1 # COUNT_MOD
    <3>1. c + 1 + i - 1 = c + (i + 1) - 1
      BY <1>1, <2>1
    <3> QED
      BY <2>2, <2>4, <3>1
  <2> QED
    BY <2>3, <2>4
<1>6. /\ Contents(new) \in Seq(Value) /\ Len(Contents(new)) = Used(buf) - 1
      /\ \A i \in 1..Used(buf)-1 : Contents(new)[i] = buf.array[slot(i + 1)]
  BY <1>2, <1>3, <1>5, ContentsType
<1>7. Oldest(buf) = buf.array[slot(1)]
  <2>1. (c + 1 - 1) % COUNT_MOD = c
    BY <1>1
  <2> QED
    BY <1>1, <2>1 DEF Oldest
<1>8. /\ Contents(buf) # << >>
      /\ Oldest(buf) = Head(Contents(buf))
      /\ Contents(new) = Tail(Contents(buf))
  <2> HIDE DEF new, slot
  <2>1. \A i \in 1..Used(buf)-1 : Contents(new)[i] = Contents(buf)[i + 1]
    BY <1>3, <1>4, <1>6
  <2>2. Contents(buf)[1] = Oldest(buf)
    BY <1>3, <1>4, <1>7
  <2>3. Len(Contents(buf)) = Len(Contents(new)) + 1
    BY <1>3, <1>4, <1>6
  <2> QED
    BY <1>4, <1>6, <2>1, <2>2, <2>3, IsTail
<1> QED
  BY <1>8

(* A buffer stays straight when a value is removed, and when one is added  *)
(* without the count of additions wrapping.                                *)
LEMMA StaysStraight ==
  ASSUME NEW Value, NEW size \in Nat \ {0}, NEW buf \in PC_Buffer(Value, size),
         Straight(buf), NEW data \in Value
  PROVE  /\ ~pc_buffer_empty(buf) => Straight(pc_buffer_remove(buf))
         /\ COUNT_MOD % size = 0
              \/ buf.produce_count <= pc_buffer_add(buf, data).produce_count
              => Straight(pc_buffer_add(buf, data))
<1>1. /\ COUNT_MOD \in Nat \ {0} /\ buf.consume_count \in 0..COUNT_MOD-1
      /\ buf.produce_count \in 0..COUNT_MOD-1 /\ buf.buffer_SIZE = size
  BY WidthAssumption DEF PC_Buffer
<1>2. /\ pc_buffer_add(buf, data).buffer_SIZE = size
      /\ pc_buffer_add(buf, data).consume_count = buf.consume_count
      /\ pc_buffer_add(buf, data).produce_count = (buf.produce_count + 1) % COUNT_MOD
  BY <1>1 DEF pc_buffer_add, PC_Buffer
<1>3. /\ pc_buffer_remove(buf).buffer_SIZE = size
      /\ pc_buffer_remove(buf).consume_count = (buf.consume_count + 1) % COUNT_MOD
      /\ pc_buffer_remove(buf).produce_count = buf.produce_count
  BY <1>1 DEF pc_buffer_remove, PC_Buffer
<1>4. ASSUME ~pc_buffer_empty(buf), buf.consume_count <= buf.produce_count
      PROVE  (buf.consume_count + 1) % COUNT_MOD <= buf.produce_count
  <2>1. buf.consume_count + 1 <= buf.produce_count
    BY <1>1, <1>4 DEF pc_buffer_empty
  <2>2. (buf.consume_count + 1) % COUNT_MOD = buf.consume_count + 1
    BY <1>1, <2>1
  <2> QED
    BY <2>1, <2>2
<1>5. (buf.produce_count + 1) % COUNT_MOD \in 0..COUNT_MOD-1
  BY <1>1, StepUp
<1> QED
  BY <1>1, <1>2, <1>3, <1>4, <1>5 DEF Straight

(* A value taken back was the last of those that wait. *)
LEMMA UnproduceContents ==
  ASSUME NEW Value, NEW size \in Nat \ {0}, NEW buf \in PC_Buffer(Value, size),
         ~pc_buffer_empty(buf)
  PROVE  /\ Used(Unproduce(buf)) = Used(buf) - 1
         /\ Contents(buf)[Used(buf)] \in Value
         /\ Contents(buf) = Append(Contents(Unproduce(buf)), Contents(buf)[Used(buf)])
<1> DEFINE new == Unproduce(buf)
           p == buf.produce_count
           c == buf.consume_count
           q == new.produce_count
           slot(i) == ((c + i - 1) % COUNT_MOD) % size
<1>1. COUNT_MOD \in Nat \ {0} /\ p \in 0..COUNT_MOD-1 /\ c \in 0..COUNT_MOD-1
  BY WidthAssumption DEF PC_Buffer
<1>2. /\ new \in PC_Buffer(Value, size)
      /\ new.array = buf.array /\ new.consume_count = c
      /\ q = (p - 1) % COUNT_MOD
  BY UnproduceType DEF Unproduce, PC_Buffer
<1>3. Used(buf) \in Nat \ {0} /\ Used(new) = Used(buf) - 1
  <2>1. q = IF p = 0 THEN COUNT_MOD - 1 ELSE p - 1
    BY <1>1, <1>2, StepDown
  <2>2. Used(buf) = IF p >= c THEN p - c ELSE p - c + COUNT_MOD
    BY UsedType
  <2>3. Used(new) = IF q >= c THEN q - c ELSE q - c + COUNT_MOD
    BY <1>2, UsedType
  <2>4. p # c
    BY DEF pc_buffer_empty
  <2> HIDE DEF new, p, c, q
  <2> QED
    BY <1>1, <2>1, <2>2, <2>3, <2>4
<1>4. /\ Contents(buf) \in Seq(Value) /\ Len(Contents(buf)) = Used(buf)
      /\ \A i \in 1..Used(buf) : Contents(buf)[i] = buf.array[slot(i)]
  BY ContentsType
<1>5. /\ Contents(new) \in Seq(Value) /\ Len(Contents(new)) = Used(buf) - 1
      /\ \A i \in 1..Used(buf)-1 : Contents(new)[i] = buf.array[slot(i)]
  <2> HIDE DEF new
  <2>1. /\ Contents(new) \in Seq(Value) /\ Len(Contents(new)) = Used(new)
        /\ \A i \in 1..Used(new) :
             Contents(new)[i] =
               new.array[((new.consume_count + i - 1) % COUNT_MOD) % size]
    BY <1>2, ContentsType
  <2> QED
    BY <1>2, <1>3, <2>1
<1>6. Contents(buf)[Used(buf)] \in Value
  BY <1>3, <1>4
<1>7. Contents(buf) = Append(Contents(new), Contents(buf)[Used(buf)])
  <2> HIDE DEF new, slot
  <2>1. \A i \in 1..Used(buf)-1 : Contents(buf)[i] = Contents(new)[i]
    BY <1>3, <1>4, <1>5
  <2>2. Len(Contents(buf)) = Len(Contents(new)) + 1 /\ Used(buf) = Len(Contents(new)) + 1
    BY <1>3, <1>4, <1>5
  <2> QED
    BY <1>4, <1>5, <1>6, <2>1, <2>2, IsAppend
<1> QED
  BY <1>3, <1>6, <1>7
=============================================================================
