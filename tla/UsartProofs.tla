----------------------------- MODULE UsartProofs -----------------------------
(***************************************************************************)
(* Theorems about Usart, for every buffer size below the counters' range,  *)
(* every set of write and read lengths and every set of received           *)
(* characters.  The bounds and what rests on them, the order and the       *)
(* framing of the bytes, need a link without backspaces; the type          *)
(* invariant and the absence of stranded bytes do not.  Where a buffer's   *)
(* contents matter the counters' range is a multiple of the buffer's size, *)
(* as 2^32 is of 128.                                                      *)
(***************************************************************************)
EXTENDS Usart, PCBufferTheorems, SequenceTheorems

LEMMA MarkType ==
  ASSUME NEW kind \in {"SOF", "TYPE", "SIZE", "BODY", "EOF", "ECHO", "JUNK"}
  PROVE  Mark(kind) \in Byte
BY UsartAssumption DEF Mark, Byte

(* A frame is a non-empty sequence of bytes. *)
LEMMA FrameType ==
  ASSUME NEW count \in Nat
  PROVE  Frame(count) \in Seq(Byte) /\ Frame(count) # << >>
<1> DEFINE head == <<Mark("SOF"), Mark("TYPE"),
                     [kind |-> "SIZE", val |-> count % SIZE_MOD]>>
           body == [i \in 1..count |->
                      [kind |-> "BODY", val |-> (count - i) % SIZE_MOD]]
           tail == <<Mark("EOF")>>
<1>1. \A n \in Nat : n % SIZE_MOD \in 0..SIZE_MOD-1
  BY UsartAssumption, SlotInRange
<1>2. head \in Seq(Byte) /\ Len(head) = 3
  <2>1. [kind |-> "SIZE", val |-> count % SIZE_MOD] \in Byte
    BY <1>1 DEF Byte
  <2> QED
    BY <2>1, MarkType
<1>3. body \in Seq(Byte) /\ Len(body) = count
  <2>1. \A i \in 1..count : count - i \in Nat
    OBVIOUS
  <2>2. body \in [1..count -> Byte]
    BY <1>1, <2>1 DEF Byte
  <2> QED
    BY <2>2
<1>4. tail \in Seq(Byte) /\ Len(tail) = 1
  BY MarkType
<1> HIDE DEF head, body, tail
<1>5. \A s1, s2 \in Seq(Byte) : /\ s1 \o s2 \in Seq(Byte)
                                /\ Len(s1 \o s2) = Len(s1) + Len(s2)
  BY ConcatProperties
<1>6. /\ (head \o body) \o tail \in Seq(Byte)
      /\ Len((head \o body) \o tail) = (3 + count) + 1
  <2>1. head \o body \in Seq(Byte) /\ Len(head \o body) = 3 + count
    BY <1>2, <1>3, <1>5
  <2> QED
    BY <1>4, <1>5, <2>1
<1>7. Frame(count) = (head \o body) \o tail
  BY DEF Frame, head, body, tail
<1> QED
  BY <1>6, <1>7

(* The handler's echo is three guarded adds. *)
LEMMA EchoType ==
  ASSUME NEW buf \in PC_Buffer(Byte, USART_BUF)
  PROVE  EchoErase(buf) \in PC_Buffer(Byte, USART_BUF)
<1>1. Mark("ECHO") \in Byte
  BY MarkType
<1>2. \A b \in PC_Buffer(Byte, USART_BUF) :
        AddIfRoom(b, Mark("ECHO")) \in PC_Buffer(Byte, USART_BUF)
  BY <1>1, UsartAssumption, AddIfRoomType
<1> QED
  BY <1>2 DEF EchoErase

(* What storing a received character does to rx. *)
LEMMA StoreType ==
  ASSUME NEW buf \in PC_Buffer(RxValue, USART_BUF), rdr \in RxValue
  PROVE  /\ StoreChar(buf) \in PC_Buffer(RxValue, USART_BUF)
         /\ Used(buf) <= USART_BUF => /\ Used(StoreChar(buf)) <= USART_BUF
                                      /\ Used(StoreChar(buf)) >= Used(buf)
<1> DEFINE counted == IF NEWLINE_GUARD(rdr, prev) THEN CountMessage(buf) ELSE buf
<1>1. USART_BUF \in Nat \ {0} /\ USART_BUF < COUNT_MOD
  BY UsartAssumption
<1>2. counted \in PC_Buffer(RxValue, USART_BUF) /\ Used(counted) = Used(buf)
  BY <1>1, CountMessageType
<1>3. StoreChar(buf) = AddIfRoom(counted, rdr)
  BY DEF StoreChar
<1> HIDE DEF counted
<1> QED
  BY <1>1, <1>2, <1>3, AddIfRoomType

-----------------------------------------------------------------------------
(* One run of the handler keeps every variable in its type. *)
LEMMA HandlerType ==
  ASSUME TypeOK, USART1_Handler
  PROVE  TypeOK'
<1> USE DEF TypeOK
<1>1. USART_BUF \in Nat \ {0} /\ USART_BUF < COUNT_MOD
  BY UsartAssumption
<1>2. rx' \in PC_Buffer(RxValue, USART_BUF)
  <2>1. Unproduce(rx) \in PC_Buffer(RxValue, USART_BUF)
    BY <1>1, UnproduceType
  <2>2. StoreChar(rx) \in PC_Buffer(RxValue, USART_BUF)
    BY StoreType
  <2> QED
    BY <2>1, <2>2 DEF USART1_Handler, Receive
<1>3. prev' \in RxValue /\ prev2' \in RxValue /\ rxne' \in BOOLEAN /\ rdr' \in RxValue
  BY DEF USART1_Handler, Receive, RxValue
<1>4. ASSUME NEW buf \in PC_Buffer(Byte, USART_BUF),
             NEW enables \in SUBSET {"RXNEIE", "TXEIE"}, "RXNEIE" \in enables,
             Transmit(buf, enables)
      PROVE  /\ tx' \in PC_Buffer(Byte, USART_BUF)
             /\ cr1' \in SUBSET {"RXNEIE", "TXEIE"} /\ "RXNEIE" \in cr1'
             /\ txe' \in BOOLEAN /\ tdr' \in Byte
  <2>1. pc_buffer_remove(buf) \in PC_Buffer(Byte, USART_BUF) /\ Oldest(buf) \in Byte
    BY <1>1, RemoveType
  <2> QED
    BY <1>4, <2>1 DEF Transmit, txReg
<1>5. /\ tx' \in PC_Buffer(Byte, USART_BUF)
      /\ cr1' \in SUBSET {"RXNEIE", "TXEIE"} /\ "RXNEIE" \in cr1'
      /\ txe' \in BOOLEAN /\ tdr' \in Byte
  <2>1. CASE Transmit(EchoErase(tx), cr1 \union {"TXEIE"})
    <3>1. EchoErase(tx) \in PC_Buffer(Byte, USART_BUF)
      BY EchoType
    <3>2. /\ cr1 \union {"TXEIE"} \in SUBSET {"RXNEIE", "TXEIE"}
          /\ "RXNEIE" \in cr1 \union {"TXEIE"}
      OBVIOUS
    <3> QED
      BY <1>4, <2>1, <3>1, <3>2
  <2>2. CASE Transmit(tx, cr1)
    BY <1>4, <2>2
  <2> QED
    BY <2>1, <2>2 DEF USART1_Handler
<1>6. UNCHANGED <<pc, pending, wanted, cr1_copy, got, receiver>>
  BY DEF USART1_Handler, mainVars
<1> QED
  BY <1>2, <1>3, <1>5, <1>6

(* TypeOK is inductive on its own. *)
LEMMA TypeStep ==
  ASSUME TypeOK, [Next]_vars
  PROVE  TypeOK'
<1> USE DEF TypeOK, MainAt
<1>1. USART_BUF \in Nat \ {0} /\ USART_BUF < COUNT_MOD
  BY UsartAssumption
<1>2. ASSUME NEW count \in WriteCounts, Write(count) PROVE TypeOK'
  <2>1. Frame(count) \in Seq(Byte) /\ Frame(count) # << >>
    BY UsartAssumption, FrameType
  <2> QED
    BY <1>2, <2>1 DEF Write, isrVars, rxReg, txReg
<1>3. ASSUME NEW count \in ReadCounts, Read(count) PROVE TypeOK'
  <2>1. count \in Nat
    BY UsartAssumption
  <2> QED
    BY <1>3, <2>1 DEF Read, isrVars, rxReg, txReg
<1>4. CASE PutcCheck
  BY <1>4 DEF PutcCheck, isrVars, rxReg, txReg
<1>5. CASE PutcAdd
  <2>1. Head(pending) \in Byte /\ Tail(pending) \in Seq(Byte)
    BY <1>5 DEF PutcAdd
  <2>2. pc_buffer_add(tx, Head(pending)) \in PC_Buffer(Byte, USART_BUF)
    BY <1>1, <2>1, AddType
  <2> QED
    BY <1>5, <2>1, <2>2 DEF PutcAdd, isrVars, rxReg, txReg
<1>6. CASE PutcLoad
  BY <1>6 DEF PutcLoad, isrVars, rxReg, txReg
<1>7. CASE PutcStore
  BY <1>7 DEF PutcStore, isrVars, rxReg, txReg
<1>8. CASE GetcCheck
  BY <1>8 DEF GetcCheck, isrVars, rxReg, txReg
<1>9. CASE GetcRemove
  <2>1. /\ pc_buffer_remove(rx) \in PC_Buffer(RxValue, USART_BUF)
        /\ Oldest(rx) \in RxValue
    BY <1>1, RemoveType
  <2> QED
    BY <1>9, <2>1 DEF GetcRemove, isrVars, rxReg, txReg
<1>10. CASE USART1_Handler
  BY <1>10, HandlerType
<1>11. ASSUME NEW c \in RxChars, RxArrive(c) PROVE TypeOK'
  BY <1>11 DEF RxArrive, mainVars, isrVars, txReg, RxValue
<1>12. CASE TxShift
  <2>1. Deframe(receiver, tdr) \in
          [wants : {"SOF", "TYPE", "SIZE", "BODY", "EOF", "LOST"}, left : 0..SIZE_MOD-1]
    BY UsartAssumption DEF Deframe, Byte
  <2> QED
    BY <1>12, <2>1 DEF TxShift, mainVars, isrVars, rxReg
<1>13. CASE UNCHANGED vars
  BY <1>13 DEF vars, mainVars, isrVars, rxReg, txReg
<1> QED
  BY <1>2, <1>3, <1>4, <1>5, <1>6, <1>7, <1>8, <1>9, <1>10, <1>11, <1>12, <1>13
     DEF Next, Putc, Getc

LEMMA TypeInit == Init => TypeOK
<1> SUFFICES ASSUME Init PROVE TypeOK
  OBVIOUS
<1>1. TxJunk \in Byte /\ RxJunk \in RxValue
  BY MarkType DEF TxJunk, RxValue
<1>2. /\ tx \in PC_Buffer(Byte, USART_BUF)
      /\ rx \in PC_Buffer(RxValue, USART_BUF)
  BY <1>1, UsartAssumption, InitType DEF Init
<1>3. receiver \in [wants : {"SOF", "TYPE", "SIZE", "BODY", "EOF", "LOST"},
                    left : 0..SIZE_MOD-1]
  BY UsartAssumption DEF Init
<1>4. pending \in Seq(Byte) /\ wanted \in Nat /\ pc = "idle"
  BY DEF Init
<1> QED
  BY <1>1, <1>2, <1>3, <1>4 DEF Init, TypeOK, MainAt

(* Every variable keeps its type, however the main thread, the handler and *)
(* the line interleave: the counters of both ring buffers stay in range    *)
(* and the main thread's stale copy of CR1 never disables reception.       *)
THEOREM TypeCorrect == Spec => []TypeOK
<1>1. TypeOK /\ [Next]_vars => TypeOK'
  BY TypeStep
<1> QED
  BY TypeInit, <1>1, PTL DEF Spec

-----------------------------------------------------------------------------
LEMMA StrandedInit == Init => NoByteStranded
BY DEF Init, NoByteStranded, pc_buffer_init, pc_buffer_empty

LEMMA StrandedStep ==
  ASSUME NoByteStranded, [Next]_vars
  PROVE  NoByteStranded'
<1> USE DEF NoByteStranded
<1>1. ASSUME NEW count \in WriteCounts, Write(count) PROVE NoByteStranded'
  BY <1>1 DEF Write
<1>2. ASSUME NEW count \in ReadCounts, Read(count) PROVE NoByteStranded'
  BY <1>2 DEF Read
<1>3. CASE PutcCheck
  BY <1>3 DEF PutcCheck
<1>4. CASE PutcAdd
  BY <1>4 DEF PutcAdd
<1>5. CASE PutcLoad
  BY <1>5 DEF PutcLoad
<1>6. CASE PutcStore
  BY <1>6 DEF PutcStore
<1>7. CASE Getc
  BY <1>7 DEF Getc, GetcCheck, GetcRemove
<1>8. CASE USART1_Handler
  <2>1. pc' = pc
    BY <1>8 DEF USART1_Handler, mainVars
  <2>2. CASE Erases /\ Transmit(EchoErase(tx), cr1 \union {"TXEIE"})
    BY <2>2 DEF Transmit
  <2>3. CASE ~Erases /\ Transmit(tx, cr1)
    BY <2>1, <2>3 DEF Transmit
  <2> QED
    BY <1>8, <2>2, <2>3 DEF USART1_Handler
<1>9. ASSUME NEW c \in RxChars, RxArrive(c) PROVE NoByteStranded'
  BY <1>9 DEF RxArrive, mainVars
<1>10. CASE TxShift
  BY <1>10 DEF TxShift, mainVars
<1>11. CASE UNCHANGED vars
  BY <1>11 DEF vars, mainVars
<1> QED
  BY <1>1, <1>2, <1>3, <1>4, <1>5, <1>6, <1>7, <1>8, <1>9, <1>10, <1>11
     DEF Next, Putc

(* No interleaving of _putc's load and store of CR1 with the handler       *)
(* leaves a queued byte without a transmit interrupt to send it.           *)
THEOREM NoByteStrandedAlways == Spec => []NoByteStranded
<1>1. NoByteStranded /\ [Next]_vars => NoByteStranded'
  BY StrandedStep
<1> QED
  BY StrandedInit, <1>1, PTL DEF Spec

-----------------------------------------------------------------------------
(* Without a backspace the handler never erases. *)
LEMMA NeverErases ==
  ASSUME RxChars \intersect BACKSPACES = {}, rdr \in RxValue
  PROVE  ~Erases
BY DEF Erases, BACKSPACES, RxValue, RxJunk

(* The bound of tx is inductive with the types: the main thread is the     *)
(* only one that adds, so the room it saw is still there when it adds.     *)
LEMMA TxBoundStep ==
  ASSUME RxChars \intersect BACKSPACES = {},
         TypeOK, TxNeverOverrun, [Next]_vars
  PROVE  TxNeverOverrun'
<1> USE DEF TxNeverOverrun
<1>1. /\ USART_BUF \in Nat \ {0} /\ COUNT_MOD \in Nat \ {0} /\ USART_BUF < COUNT_MOD
      /\ tx \in PC_Buffer(Byte, USART_BUF) /\ tx.buffer_SIZE = USART_BUF
      /\ Used(tx) \in 0..COUNT_MOD-1
  <2>1. USART_BUF \in Nat \ {0} /\ tx \in PC_Buffer(Byte, USART_BUF)
    BY UsartAssumption DEF TypeOK
  <2> QED
    BY <2>1, UsartAssumption, WidthAssumption, UsedType DEF PC_Buffer
<1>2. ASSUME NEW count \in WriteCounts, Write(count) PROVE TxNeverOverrun'
  BY <1>2 DEF Write
<1>3. ASSUME NEW count \in ReadCounts, Read(count) PROVE TxNeverOverrun'
  BY <1>3 DEF Read
<1>4. CASE PutcCheck
  BY <1>4 DEF PutcCheck
<1>5. CASE PutcAdd
  <2>1. Used(tx) < USART_BUF
    BY <1>1, <1>5 DEF PutcAdd, pc_buffer_full
  <2>2. Head(pending) \in Byte
    BY <1>5 DEF PutcAdd, TypeOK
  <2>3. Used(tx') = Used(tx) + 1
    BY <1>1, <1>5, <2>1, <2>2, AddType DEF PutcAdd
  <2>4. (Used(tx))' <= USART_BUF
    BY <1>1, <2>1, <2>3
  <2>5. pc' = "putc_load"
    BY <1>5 DEF PutcAdd
  <2> QED
    BY <2>4, <2>5
<1>6. CASE PutcLoad
  BY <1>6 DEF PutcLoad
<1>7. CASE PutcStore
  BY <1>7 DEF PutcStore
<1>8. CASE Getc
  BY <1>8 DEF Getc, GetcCheck, GetcRemove
<1>9. CASE USART1_Handler
  <2>1. Transmit(tx, cr1) /\ pc' = pc
    BY <1>9, NeverErases DEF USART1_Handler, mainVars, TypeOK
  <2>2. CASE tx' = tx
    BY <2>1, <2>2
  <2>3. CASE tx' = pc_buffer_remove(tx) /\ ~pc_buffer_empty(tx)
    <3>1. Used(tx') = Used(tx) - 1
      BY <1>1, <2>3, RemoveType
    <3>2. tx'.buffer_SIZE = USART_BUF
      BY <1>1, <2>3 DEF pc_buffer_remove, PC_Buffer
    <3>3. ~pc_buffer_full(tx)'
      BY <1>1, <3>1, <3>2 DEF pc_buffer_full
    <3>4. (Used(tx))' <= USART_BUF
      BY <1>1, <3>1
    <3> QED
      BY <3>3, <3>4
  <2> QED
    BY <2>1, <2>2, <2>3 DEF Transmit
<1>10. ASSUME NEW c \in RxChars, RxArrive(c) PROVE TxNeverOverrun'
  BY <1>10 DEF RxArrive, mainVars
<1>11. CASE TxShift
  BY <1>11 DEF TxShift, mainVars
<1>12. CASE UNCHANGED vars
  BY <1>12 DEF vars, mainVars
<1> QED
  BY <1>2, <1>3, <1>4, <1>5, <1>6, <1>7, <1>8, <1>9, <1>10, <1>11, <1>12
     DEF Next, Putc

(* On a link whose other end sends no backspace, _putc always adds to a    *)
(* buffer with room, and tx never holds more bytes than it has slots.      *)
THEOREM TxNeverOverrunAlways ==
  ASSUME RxChars \intersect BACKSPACES = {}
  PROVE  Spec => []TxNeverOverrun
<1>1. Init => TxNeverOverrun
  <2> SUFFICES ASSUME Init PROVE TxNeverOverrun
    OBVIOUS
  <2>1. Used(tx) = 0
    BY UsartAssumption, MarkType, InitType DEF Init, TxJunk
  <2> QED
    BY <2>1, UsartAssumption DEF Init, TxNeverOverrun
<1>2. TypeOK /\ TxNeverOverrun /\ [Next]_vars => TxNeverOverrun'
  BY TxBoundStep
<1> QED
  BY <1>1, <1>2, TypeCorrect, PTL DEF Spec

-----------------------------------------------------------------------------
(* The bound of rx is inductive with the types: the handler only lengthens *)
(* it, so what the main thread saw is still there when it removes.         *)
LEMMA RxBoundStep ==
  ASSUME RxChars \intersect BACKSPACES = {},
         TypeOK, RxNeverUnderrun, [Next]_vars
  PROVE  RxNeverUnderrun'
<1> USE DEF RxNeverUnderrun
<1>1. /\ USART_BUF \in Nat \ {0} /\ COUNT_MOD \in Nat \ {0} /\ USART_BUF < COUNT_MOD
      /\ rx \in PC_Buffer(RxValue, USART_BUF)
      /\ Used(rx) \in 0..COUNT_MOD-1
      /\ pc_buffer_empty(rx) <=> Used(rx) = 0
  <2>1. USART_BUF \in Nat \ {0} /\ rx \in PC_Buffer(RxValue, USART_BUF)
    BY UsartAssumption DEF TypeOK
  <2> QED
    BY <2>1, UsartAssumption, WidthAssumption, UsedType
<1>2. ASSUME NEW count \in WriteCounts, Write(count) PROVE RxNeverUnderrun'
  BY <1>2 DEF Write
<1>3. ASSUME NEW count \in ReadCounts, Read(count) PROVE RxNeverUnderrun'
  BY <1>3 DEF Read
<1>4. CASE Putc
  BY <1>4 DEF Putc, PutcCheck, PutcAdd, PutcLoad, PutcStore
<1>5. CASE GetcCheck
  BY <1>5 DEF GetcCheck
<1>6. CASE GetcRemove
  <2>1. Used(rx') = Used(rx) - 1
    BY <1>1, <1>6, RemoveType DEF GetcRemove
  <2>2. (Used(rx))' <= USART_BUF
    BY <1>1, <2>1
  <2>3. pc' # "getc_remove"
    BY <1>6 DEF GetcRemove
  <2> QED
    BY <2>2, <2>3
<1>7. CASE USART1_Handler
  <2>1. Receive /\ ~Erases /\ pc' = pc
    BY <1>7, NeverErases DEF USART1_Handler, mainVars, TypeOK
  <2>2. CASE rx' = rx
    BY <2>1, <2>2
  <2>3. CASE rx' = StoreChar(rx)
    <3>1. /\ StoreChar(rx) \in PC_Buffer(RxValue, USART_BUF)
          /\ Used(StoreChar(rx)) <= USART_BUF
          /\ Used(StoreChar(rx)) >= Used(rx)
      BY <1>1, StoreType DEF TypeOK
    <3>2. /\ Used(StoreChar(rx)) \in 0..COUNT_MOD-1
          /\ pc_buffer_empty(StoreChar(rx)) <=> Used(StoreChar(rx)) = 0
      BY <1>1, <3>1, UsedType
    <3>3. ~pc_buffer_empty(rx) => ~pc_buffer_empty(StoreChar(rx))
      BY <1>1, <3>1, <3>2
    <3> QED
      BY <2>1, <2>3, <3>1, <3>3
  <2> QED
    BY <2>1, <2>2, <2>3 DEF Receive
<1>8. ASSUME NEW c \in RxChars, RxArrive(c) PROVE RxNeverUnderrun'
  BY <1>8 DEF RxArrive, mainVars
<1>9. CASE TxShift
  BY <1>9 DEF TxShift, mainVars
<1>10. CASE UNCHANGED vars
  BY <1>10 DEF vars, mainVars
<1> QED
  BY <1>2, <1>3, <1>4, <1>5, <1>6, <1>7, <1>8, <1>9, <1>10 DEF Next, Getc

(* On such a link _getc always takes a received character, and rx never    *)
(* holds more characters than it has slots.                                *)
THEOREM RxNeverUnderrunAlways ==
  ASSUME RxChars \intersect BACKSPACES = {}
  PROVE  Spec => []RxNeverUnderrun
<1>1. Init => RxNeverUnderrun
  <2> SUFFICES ASSUME Init PROVE RxNeverUnderrun
    OBVIOUS
  <2>1. Used(rx) = 0
    BY UsartAssumption, InitType DEF Init, RxValue
  <2> QED
    BY <2>1, UsartAssumption DEF Init, RxNeverUnderrun
<1>2. TypeOK /\ RxNeverUnderrun /\ [Next]_vars => RxNeverUnderrun'
  BY RxBoundStep
<1> QED
  BY <1>1, <1>2, TypeCorrect, PTL DEF Spec

-----------------------------------------------------------------------------
(***************************************************************************)
(* The link in each direction implements ByteFifo.  The buffer's size      *)
(* divides the range of its counters, as 128 divides 2^32.                 *)
(***************************************************************************)
(* Counting a message leaves what is queued alone. *)
LEMMA CountMessageContents ==
  ASSUME NEW buf \in PC_Buffer(RxValue, USART_BUF)
  PROVE  /\ Contents(CountMessage(buf)) = Contents(buf)
         /\ Straight(CountMessage(buf)) <=> Straight(buf)
<1>1. /\ CountMessage(buf).array = buf.array
      /\ CountMessage(buf).buffer_SIZE = buf.buffer_SIZE
      /\ CountMessage(buf).produce_count = buf.produce_count
      /\ CountMessage(buf).consume_count = buf.consume_count
  BY DEF CountMessage, PC_Buffer
<1>2. Used(CountMessage(buf)) = Used(buf)
  BY <1>1 DEF Used
<1> QED
  BY <1>1, <1>2 DEF Contents, Straight

(* What storing a received character does to what is queued. *)
LEMMA StoreContents ==
  ASSUME COUNT_MOD % USART_BUF = 0, rdr \in RxValue,
         NEW buf \in PC_Buffer(RxValue, USART_BUF), Used(buf) <= USART_BUF
  PROVE  \/ Contents(StoreChar(buf)) = Contents(buf)
         \/ /\ Len(Contents(buf)) < USART_BUF
            /\ Contents(StoreChar(buf)) = Append(Contents(buf), rdr)
<1> DEFINE counted == IF NEWLINE_GUARD(rdr, prev) THEN CountMessage(buf) ELSE buf
<1>1. USART_BUF \in Nat \ {0} /\ USART_BUF < COUNT_MOD
  BY UsartAssumption
<1>2. /\ counted \in PC_Buffer(RxValue, USART_BUF)
      /\ Used(counted) = Used(buf) /\ Contents(counted) = Contents(buf)
  BY <1>1, CountMessageType, CountMessageContents
<1>3. StoreChar(buf) = AddIfRoom(counted, rdr)
  BY DEF StoreChar
<1> HIDE DEF counted
<1>4. /\ counted.buffer_SIZE = USART_BUF /\ Straight(counted)
      /\ Used(buf) \in 0..COUNT_MOD-1 /\ Len(Contents(buf)) = Used(buf)
  <2>1. counted.buffer_SIZE = USART_BUF
    BY <1>2 DEF PC_Buffer
  <2>2. Straight(counted)
    BY <2>1 DEF Straight
  <2>3. Used(buf) \in 0..COUNT_MOD-1 /\ Len(Contents(buf)) = Used(buf)
    BY <1>1, UsedType, ContentsType
  <2> QED
    BY <2>1, <2>2, <2>3
<1>5. CASE pc_buffer_full(counted)
  BY <1>2, <1>3, <1>5 DEF AddIfRoom
<1>6. CASE ~pc_buffer_full(counted)
  <2>1. Used(counted) < USART_BUF
    BY <1>1, <1>2, <1>4, <1>6 DEF pc_buffer_full
  <2>2. Contents(pc_buffer_add(counted, rdr)) = Append(Contents(counted), rdr)
    BY <1>1, <1>2, <1>4, <2>1, AddContents
  <2> QED
    BY <1>2, <1>3, <1>4, <1>6, <2>1, <2>2 DEF AddIfRoom
<1> QED
  BY <1>5, <1>6

(* A step of the link is a Put of a received character, a Take of _getc,   *)
(* or nothing the reader of the characters can see.                        *)
LEMMA RxFifoStep ==
  ASSUME RxChars \intersect BACKSPACES = {}, COUNT_MOD % USART_BUF = 0,
         TypeOK, RxNeverUnderrun, [Next]_vars
  PROVE  [RxFifo!Next]_<<Contents(rx), got>>
<1>1. /\ USART_BUF \in Nat \ {0} /\ USART_BUF < COUNT_MOD
      /\ rx \in PC_Buffer(RxValue, USART_BUF) /\ rdr \in RxValue
  BY UsartAssumption DEF TypeOK
<1>2. ASSUME UNCHANGED <<rx, got>>
      PROVE  [RxFifo!Next]_<<Contents(rx), got>>
  BY <1>2
<1>3. ASSUME NEW count \in WriteCounts, Write(count) PROVE UNCHANGED <<rx, got>>
  BY <1>3 DEF Write
<1>4. ASSUME NEW count \in ReadCounts, Read(count) PROVE UNCHANGED <<rx, got>>
  BY <1>4 DEF Read
<1>5. ASSUME Putc PROVE UNCHANGED <<rx, got>>
  BY <1>5 DEF Putc, PutcCheck, PutcAdd, PutcLoad, PutcStore
<1>6. ASSUME GetcCheck PROVE UNCHANGED <<rx, got>>
  BY <1>6 DEF GetcCheck
<1>7. ASSUME GetcRemove PROVE RxFifo!Take
  <2>1. ~pc_buffer_empty(rx)
    BY <1>7 DEF GetcRemove, RxNeverUnderrun
  <2>2. /\ Contents(rx) # << >> /\ Oldest(rx) = Head(Contents(rx))
        /\ Contents(pc_buffer_remove(rx)) = Tail(Contents(rx))
    BY <1>1, <2>1, RemoveContents
  <2> QED
    BY <1>7, <2>2 DEF GetcRemove, RxFifo!Take
<1>8. ASSUME USART1_Handler PROVE [RxFifo!Next]_<<Contents(rx), got>>
  <2>1. Receive /\ ~Erases /\ got' = got
    BY <1>1, <1>8, NeverErases DEF USART1_Handler, mainVars
  <2>2. rx' = rx \/ rx' = StoreChar(rx)
    BY <2>1 DEF Receive
  <2>3. \/ Contents(StoreChar(rx)) = Contents(rx)
        \/ /\ Len(Contents(rx)) < USART_BUF
           /\ Contents(StoreChar(rx)) = Append(Contents(rx), rdr)
    BY <1>1, StoreContents DEF RxNeverUnderrun
  <2> QED
    BY <1>1, <2>1, <2>2, <2>3 DEF RxFifo!Next, RxFifo!Put
<1>9. ASSUME NEW c \in RxChars, RxArrive(c) PROVE UNCHANGED <<rx, got>>
  BY <1>9 DEF RxArrive, mainVars
<1>10. ASSUME TxShift PROVE UNCHANGED <<rx, got>>
  BY <1>10 DEF TxShift, mainVars
<1>11. ASSUME UNCHANGED vars PROVE UNCHANGED <<rx, got>>
  BY <1>11 DEF vars, mainVars
<1> QED
  BY <1>2, <1>3, <1>4, <1>5, <1>6, <1>7, <1>8, <1>9, <1>10, <1>11
     DEF Next, Getc, RxFifo!Next

(* What _getc returns is what the handler stored, each character once and  *)
(* in the order it stored them, and never more than USART_BUF of them wait.*)
THEOREM RxIsFifoAlways ==
  ASSUME RxChars \intersect BACKSPACES = {}, COUNT_MOD % USART_BUF = 0
  PROVE  Spec => RxIsFifo
<1>1. Init => RxFifo!Init
  <2> SUFFICES ASSUME Init PROVE RxFifo!Init
    OBVIOUS
  <2>1. rx \in PC_Buffer(RxValue, USART_BUF) /\ Used(rx) = 0
    BY UsartAssumption, InitType DEF Init, RxValue
  <2>2. Contents(rx) \in Seq(RxValue) /\ Len(Contents(rx)) = 0
    BY <2>1, UsartAssumption, ContentsType
  <2> QED
    BY <2>2 DEF Init, RxFifo!Init, RxValue
<1>2. TypeOK /\ RxNeverUnderrun /\ [Next]_vars
        => [RxFifo!Next]_<<Contents(rx), got>>
  BY RxFifoStep
<1> QED
  BY <1>1, <1>2, TypeCorrect, RxNeverUnderrunAlways, PTL
     DEF Spec, RxIsFifo, RxFifo!Safety

(* The same of the bytes sent, from _putc to the transmit register.        *)
LEMMA TxFifoStep ==
  ASSUME RxChars \intersect BACKSPACES = {}, COUNT_MOD % USART_BUF = 0,
         TypeOK, TxNeverOverrun, [Next]_vars
  PROVE  [TxFifo!Next]_<<Contents(tx), tdr>>
<1>1. /\ USART_BUF \in Nat \ {0} /\ USART_BUF < COUNT_MOD
      /\ tx \in PC_Buffer(Byte, USART_BUF) /\ tx.buffer_SIZE = USART_BUF
      /\ rdr \in RxValue /\ Straight(tx)
  BY UsartAssumption DEF TypeOK, PC_Buffer, Straight
<1>2. ASSUME UNCHANGED <<tx, tdr>>
      PROVE  [TxFifo!Next]_<<Contents(tx), tdr>>
  BY <1>2
<1>3. ASSUME NEW count \in WriteCounts, Write(count) PROVE UNCHANGED <<tx, tdr>>
  BY <1>3 DEF Write, txReg
<1>4. ASSUME NEW count \in ReadCounts, Read(count) PROVE UNCHANGED <<tx, tdr>>
  BY <1>4 DEF Read, txReg
<1>5. ASSUME PutcCheck \/ PutcLoad \/ PutcStore \/ Getc
      PROVE  UNCHANGED <<tx, tdr>>
  BY <1>5 DEF PutcCheck, PutcLoad, PutcStore, Getc, GetcCheck, GetcRemove, txReg
<1>6. ASSUME PutcAdd PROVE TxFifo!Put
  <2>1. Head(pending) \in Byte
    BY <1>6 DEF PutcAdd, TypeOK
  <2>2. Used(tx) < USART_BUF
    <3>1. Used(tx) \in 0..COUNT_MOD-1
      BY <1>1, UsedType
    <3> QED
      BY <1>1, <1>6, <3>1 DEF PutcAdd, TxNeverOverrun, pc_buffer_full
  <2>3. /\ Len(Contents(tx)) < USART_BUF
        /\ Contents(pc_buffer_add(tx, Head(pending)))
             = Append(Contents(tx), Head(pending))
    BY <1>1, <2>1, <2>2, AddContents, ContentsType
  <2> QED
    BY <1>6, <2>1, <2>3 DEF PutcAdd, TxFifo!Put, txReg
<1>7. ASSUME USART1_Handler PROVE [TxFifo!Next]_<<Contents(tx), tdr>>
  <2>1. Transmit(tx, cr1)
    BY <1>1, <1>7, NeverErases DEF USART1_Handler
  <2>2. CASE UNCHANGED <<tx, tdr>>
    BY <2>2
  <2>3. CASE ~pc_buffer_empty(tx) /\ tdr' = Oldest(tx) /\ tx' = pc_buffer_remove(tx)
    BY <1>1, <2>3, RemoveContents DEF TxFifo!Next, TxFifo!Take
  <2> QED
    BY <2>1, <2>2, <2>3 DEF Transmit, txReg
<1>8. ASSUME NEW c \in RxChars, RxArrive(c) PROVE UNCHANGED <<tx, tdr>>
  BY <1>8 DEF RxArrive, txReg
<1>9. ASSUME TxShift PROVE UNCHANGED <<tx, tdr>>
  BY <1>9 DEF TxShift
<1>10. ASSUME UNCHANGED vars PROVE UNCHANGED <<tx, tdr>>
  BY <1>10 DEF vars, txReg
<1> QED
  BY <1>2, <1>3, <1>4, <1>5, <1>6, <1>7, <1>8, <1>9, <1>10
     DEF Next, Putc, TxFifo!Next

(* The safety part of TxIsFifo: the bytes that reach the transmit register *)
(* are those of _putc, each once and in order, whatever the handler's and  *)
(* the main thread's interleaving.                                         *)
THEOREM TxFifoSafe ==
  ASSUME RxChars \intersect BACKSPACES = {}, COUNT_MOD % USART_BUF = 0
  PROVE  Spec => TxFifo!Safety
<1>1. Init => TxFifo!Init
  <2> SUFFICES ASSUME Init PROVE TxFifo!Init
    OBVIOUS
  <2>1. TxJunk \in Byte
    BY MarkType DEF TxJunk
  <2>2. tx \in PC_Buffer(Byte, USART_BUF) /\ Used(tx) = 0
    BY <2>1, UsartAssumption, InitType DEF Init
  <2>3. Contents(tx) \in Seq(Byte) /\ Len(Contents(tx)) = 0
    BY <2>2, UsartAssumption, ContentsType
  <2> QED
    BY <2>1, <2>3 DEF Init, TxFifo!Init
<1>2. TypeOK /\ TxNeverOverrun /\ [Next]_vars
        => [TxFifo!Next]_<<Contents(tx), tdr>>
  BY TxFifoStep
<1> QED
  BY <1>1, <1>2, TypeCorrect, TxNeverOverrunAlways, PTL DEF Spec, TxFifo!Safety

-----------------------------------------------------------------------------
(***************************************************************************)
(* The radio's other end.  Its state follows from the next byte on its     *)
(* way, and each byte on its way leaves it waiting for the next.           *)
(***************************************************************************)
Ready == [wants |-> "SOF", left |-> 0]

(* The receiver that is not lost when it gets `byte'. *)
Awaiting(byte) ==
  [wants |-> byte.kind, left |-> IF byte.kind = "BODY" THEN byte.val + 1 ELSE 0]

FrameKinds == {"SOF", "TYPE", "SIZE", "BODY", "EOF"}

(* Bytes that a receiver waiting for the first gets through whole frames. *)
Framed(bytes) ==
  /\ \A i \in 1..Len(bytes) : bytes[i].kind \in FrameKinds
  /\ \A i \in 1..Len(bytes)-1 :
       Deframe(Awaiting(bytes[i]), bytes[i]) = Awaiting(bytes[i + 1])
  /\ bytes # << >> => bytes[Len(bytes)].kind = "EOF"

(* Written and not yet received: in the register, in tx, in _write. *)
InRegister == IF txe THEN << >> ELSE <<tdr>>
OnItsWay == InRegister \o (Contents(tx) \o pending)

LinkFramed ==
  /\ pc \in {"idle", "getc_check", "getc_remove"} => pending = << >>
  /\ Framed(OnItsWay)
  /\ receiver = IF OnItsWay = << >> THEN Ready ELSE Awaiting(OnItsWay[1])

(* What a byte of a frame does to the receiver that waits for it. *)
LEMMA DeframeAwaiting ==
  ASSUME NEW byte \in Byte, byte.kind \in FrameKinds
  PROVE  Deframe(Awaiting(byte), byte) =
           IF byte.kind \in {"SIZE", "BODY"}
             THEN [wants |-> IF byte.val = 0 THEN "EOF" ELSE "BODY", left |-> byte.val]
             ELSE [wants |-> CASE byte.kind = "SOF" -> "TYPE"
                               [] byte.kind = "TYPE" -> "SIZE"
                               [] byte.kind = "EOF" -> "SOF",
                   left |-> 0]
<1>1. /\ Awaiting(byte).wants = byte.kind
      /\ byte.kind = "BODY" => byte.val = Awaiting(byte).left - 1
  BY DEF Awaiting, Byte
<1>2. CASE byte.kind = "SOF"
  BY <1>1, <1>2 DEF Deframe
<1>3. CASE byte.kind = "TYPE"
  BY <1>1, <1>3 DEF Deframe
<1>4. CASE byte.kind = "SIZE"
  BY <1>1, <1>4 DEF Deframe
<1>5. CASE byte.kind = "BODY"
  BY <1>1, <1>5 DEF Deframe
<1>6. CASE byte.kind = "EOF"
  BY <1>1, <1>6 DEF Deframe
<1> QED
  BY <1>2, <1>3, <1>4, <1>5, <1>6 DEF FrameKinds

(* The bytes of two sequences one after the other. *)
LEMMA Joined ==
  ASSUME NEW s \in Seq(Byte), NEW t \in Seq(Byte)
  PROVE  /\ s \o t \in Seq(Byte) /\ Len(s \o t) = Len(s) + Len(t)
         /\ \A i \in 1..Len(s) : (s \o t)[i] = s[i]
         /\ \A i \in 1..Len(t) : (s \o t)[Len(s) + i] = t[i]
<1>1. /\ s \o t \in Seq(Byte) /\ Len(s \o t) = Len(s) + Len(t)
      /\ \A i \in 1..Len(s)+Len(t) :
           (s \o t)[i] = IF i <= Len(s) THEN s[i] ELSE t[i - Len(s)]
  BY ConcatProperties
<1>2. Len(s) \in Nat /\ Len(t) \in Nat
  OBVIOUS
<1>3. ASSUME NEW i \in 1..Len(t) PROVE (s \o t)[Len(s) + i] = t[i]
  <2>1. /\ Len(s) + i \in 1..Len(s)+Len(t) /\ ~(Len(s) + i <= Len(s))
        /\ (Len(s) + i) - Len(s) = i
    BY <1>2
  <2> QED
    BY <1>1, <2>1
<1>4. ASSUME NEW i \in 1..Len(s) PROVE (s \o t)[i] = s[i]
  <2>1. i \in 1..Len(s)+Len(t) /\ i <= Len(s)
    BY <1>2
  <2> QED
    BY <1>1, <2>1
<1> QED
  BY <1>1, <1>3, <1>4

(* The receiver gets through a frame of _write whose length its size byte  *)
(* can say, from Ready.                                                    *)
LEMMA FrameFramed ==
  ASSUME NEW count \in Nat, count < SIZE_MOD
  PROVE  /\ Framed(Frame(count))
         /\ Frame(count)[1].kind = "SOF"
<1> DEFINE head == <<Mark("SOF"), Mark("TYPE"),
                     [kind |-> "SIZE", val |-> count % SIZE_MOD]>>
           body == [i \in 1..count |->
                      [kind |-> "BODY", val |-> (count - i) % SIZE_MOD]]
           tail == <<Mark("EOF")>>
           f == Frame(count)
           toGo(i) == count + 3 - i
<1>1. \A n \in 0..count : n % SIZE_MOD = n /\ n \in 0..SIZE_MOD-1
  BY UsartAssumption
<1>2. /\ Mark("SOF") = [kind |-> "SOF", val |-> 0]
      /\ Mark("TYPE") = [kind |-> "TYPE", val |-> 0]
      /\ Mark("EOF") = [kind |-> "EOF", val |-> 0]
  BY DEF Mark
<1>3. /\ head \in Seq(Byte) /\ Len(head) = 3
      /\ head[1] = Mark("SOF") /\ head[2] = Mark("TYPE")
      /\ head[3] = [kind |-> "SIZE", val |-> count]
  <2>1. [kind |-> "SIZE", val |-> count % SIZE_MOD] \in Byte
    BY <1>1 DEF Byte
  <2> QED
    BY <1>1, <2>1, MarkType
<1>4. /\ body \in Seq(Byte) /\ Len(body) = count
      /\ \A i \in 1..count : body[i] = [kind |-> "BODY", val |-> count - i]
  <2>1. \A i \in 1..count : count - i \in 0..count
    OBVIOUS
  <2>2. body \in [1..count -> Byte]
    BY <1>1, <2>1 DEF Byte
  <2>3. body \in Seq(Byte) /\ Len(body) = count
    BY <2>2
  <2> QED
    BY <1>1, <2>1, <2>3
<1>5. tail \in Seq(Byte) /\ Len(tail) = 1 /\ tail[1] = Mark("EOF")
  BY MarkType
<1>6. f = (head \o body) \o tail
  BY DEF Frame
<1> HIDE DEF head, body, tail, f
<1> HIDE DEF toGo
<1>7. /\ head \o body \in Seq(Byte) /\ Len(head \o body) = 3 + count
      /\ \A i \in 1..3 : (head \o body)[i] = head[i]
      /\ \A i \in 1..count : (head \o body)[3 + i] = body[i]
  <2>1. head \in Seq(Byte) /\ Len(head) = 3
    BY <1>3
  <2>2. body \in Seq(Byte) /\ Len(body) = count
    BY <1>4
  <2>3. /\ head \o body \in Seq(Byte) /\ Len(head \o body) = Len(head) + Len(body)
        /\ \A i \in 1..Len(head) : (head \o body)[i] = head[i]
        /\ \A i \in 1..Len(body) : (head \o body)[Len(head) + i] = body[i]
    BY <2>1, <2>2, Joined
  <2> QED
    BY <2>1, <2>2, <2>3
<1>8. /\ f \in Seq(Byte) /\ Len(f) = 4 + count
      /\ \A i \in 1..3+count : f[i] = (head \o body)[i]
      /\ f[4 + count] = tail[1]
  <2> DEFINE front == head \o body
  <2>1. front \in Seq(Byte) /\ Len(front) = 3 + count
    BY <1>7
  <2>2. tail \in Seq(Byte) /\ Len(tail) = 1
    BY <1>5
  <2>3. f = front \o tail
    BY <1>6
  <2> HIDE DEF front
  <2>4. /\ f \in Seq(Byte) /\ Len(f) = Len(front) + Len(tail)
        /\ \A i \in 1..Len(front) : f[i] = front[i]
        /\ \A i \in 1..Len(tail) : f[Len(front) + i] = tail[i]
    BY <2>1, <2>2, <2>3, Joined
  <2>5. f[(3 + count) + 1] = tail[1]
    BY <2>1, <2>2, <2>4
  <2>6. (3 + count) + 1 = 4 + count
    OBVIOUS
  <2>7. \A i \in 1..3+count : f[i] = front[i]
    BY <2>1, <2>4
  <2>8. \A i \in 1..3+count : f[i] = (head \o body)[i]
    BY <2>7 DEF front
  <2> QED
    BY <2>1, <2>2, <2>4, <2>5, <2>6, <2>8
<1>9. /\ f[1] = Mark("SOF") /\ f[2] = Mark("TYPE")
      /\ f[3] = [kind |-> "SIZE", val |-> count]
  BY <1>3, <1>7, <1>8
<1>10. ASSUME NEW i \in 4..3+count PROVE f[i] = [kind |-> "BODY", val |-> toGo(i)]
  <2>1. i - 3 \in 1..count /\ 3 + (i - 3) = i /\ i \in 1..3+count
    OBVIOUS
  <2>2. f[i] = body[i - 3]
    BY <1>7, <1>8, <2>1
  <2>3. body[i - 3] = [kind |-> "BODY", val |-> count - (i - 3)]
    BY <1>4, <2>1
  <2>4. count - (i - 3) = toGo(i)
    BY DEF toGo
  <2> QED
    BY <2>2, <2>3, <2>4
<1>11. f[4 + count] = Mark("EOF")
  BY <1>5, <1>8
<1>12. ASSUME NEW i \in 3..3+count PROVE /\ f[i].kind \in {"SIZE", "BODY"}
                                         /\ f[i].val = toGo(i)
  <2>1. CASE i = 3
    <3>1. toGo(3) = count
      BY DEF toGo
    <3> QED
      BY <1>9, <2>1, <3>1
  <2>2. CASE i \in 4..3+count
    <3>1. f[i] = [kind |-> "BODY", val |-> toGo(i)]
      BY <1>10, <2>2
    <3> QED
      BY <3>1
  <2> QED
    BY <2>1, <2>2
<1>13. \A i \in 1..Len(f) : f[i] \in Byte
  BY <1>8
<1>14. ASSUME NEW i \in 1..Len(f) PROVE f[i].kind \in FrameKinds
  <2>1. CASE i \in {1, 2, 3}
    BY <1>2, <1>9, <2>1 DEF FrameKinds
  <2>2. CASE i \in 4..3+count
    <3>1. f[i] = [kind |-> "BODY", val |-> toGo(i)]
      BY <1>10, <2>2
    <3> QED
      BY <3>1 DEF FrameKinds
  <2>3. CASE i = 4 + count
    BY <1>2, <1>11, <2>3 DEF FrameKinds
  <2> QED
    BY <1>8, <2>1, <2>2, <2>3
<1>15. ASSUME NEW i \in 1..Len(f)-1
       PROVE  Deframe(Awaiting(f[i]), f[i]) = Awaiting(f[i + 1])
  <2>1. f[i] \in Byte /\ f[i].kind \in FrameKinds
    BY <1>8, <1>13, <1>14
  <2>2. CASE i = 1
    <3>1. Deframe(Awaiting(f[1]), f[1]) = [wants |-> "TYPE", left |-> 0]
      BY <1>2, <1>9, <2>1, <2>2, DeframeAwaiting
    <3> QED
      BY <1>2, <1>9, <2>2, <3>1 DEF Awaiting
  <2>3. CASE i = 2
    <3>1. Deframe(Awaiting(f[2]), f[2]) = [wants |-> "SIZE", left |-> 0]
      BY <1>2, <1>9, <2>1, <2>3, DeframeAwaiting
    <3> QED
      BY <1>9, <2>3, <3>1 DEF Awaiting
  <2>4. CASE i \in 3..3+count
    <3>1. Deframe(Awaiting(f[i]), f[i]) =
            [wants |-> IF toGo(i) = 0 THEN "EOF" ELSE "BODY", left |-> toGo(i)]
      BY <1>12, <2>1, <2>4, DeframeAwaiting
    <3>2. CASE i = 3 + count
      <4>1. toGo(i) = 0 /\ f[i + 1] = [kind |-> "EOF", val |-> 0]
        BY <1>2, <1>11, <3>2 DEF toGo
      <4> QED
        BY <3>1, <4>1 DEF Awaiting
    <3>3. CASE i \in 3..2+count
      <4>1. /\ i + 1 \in 4..3+count
            /\ toGo(i) # 0 /\ toGo(i + 1) + 1 = toGo(i)
        BY <3>3 DEF toGo
      <4>2. f[i + 1] = [kind |-> "BODY", val |-> toGo(i + 1)]
        BY <1>10, <4>1
      <4>3. Awaiting(f[i + 1]) = [wants |-> "BODY", left |-> toGo(i)]
        BY <4>1, <4>2 DEF Awaiting
      <4> QED
        BY <3>1, <4>1, <4>3
    <3> QED
      BY <2>4, <3>2, <3>3
  <2> QED
    BY <1>8, <2>2, <2>3, <2>4
<1>16. f[Len(f)].kind = "EOF"
  BY <1>2, <1>8, <1>11
<1>17. Framed(f)
  BY <1>14, <1>15, <1>16 DEF Framed
<1> QED
  BY <1>2, <1>9, <1>17 DEF f

(* Whole frames after whole frames are whole frames. *)
LEMMA FramedConcat ==
  ASSUME NEW s \in Seq(Byte), NEW t \in Seq(Byte), Framed(s), Framed(t),
         t # << >> => t[1].kind = "SOF"
  PROVE  Framed(s \o t)
<1> DEFINE u == s \o t
<1>1. /\ u \in Seq(Byte) /\ Len(u) = Len(s) + Len(t)
      /\ \A i \in 1..Len(s) : u[i] = s[i]
      /\ \A i \in 1..Len(t) : u[Len(s) + i] = t[i]
  BY Joined
<1>2. /\ Len(s) \in Nat /\ Len(t) \in Nat
      /\ s = << >> <=> Len(s) = 0
      /\ t = << >> <=> Len(t) = 0
      /\ u = << >> <=> Len(u) = 0
      /\ \A i \in 1..Len(s) : s[i] \in Byte
  BY <1>1
<1>3. \A i \in 1..Len(u) : \/ i \in 1..Len(s)
                           \/ \E j \in 1..Len(t) : i = Len(s) + j
  <2> SUFFICES ASSUME NEW i \in 1..Len(u), ~(i \in 1..Len(s))
               PROVE  \E j \in 1..Len(t) : i = Len(s) + j
    OBVIOUS
  <2>1. i - Len(s) \in 1..Len(t) /\ i = Len(s) + (i - Len(s))
    BY <1>1, <1>2
  <2> QED
    BY <2>1
<1> HIDE DEF u
<1>4. ASSUME NEW i \in 1..Len(u) PROVE u[i].kind \in FrameKinds
  <2>1. CASE i \in 1..Len(s)
    BY <1>1, <2>1 DEF Framed
  <2>2. ASSUME NEW j \in 1..Len(t), i = Len(s) + j PROVE u[i].kind \in FrameKinds
    BY <1>1, <2>2 DEF Framed
  <2> QED
    BY <1>3, <2>1, <2>2
<1>5. ASSUME NEW i \in 1..Len(u)-1
      PROVE  Deframe(Awaiting(u[i]), u[i]) = Awaiting(u[i + 1])
  <2>1. CASE i \in 1..Len(s)-1
    <3>1. i \in 1..Len(s) /\ i + 1 \in 1..Len(s)
      BY <1>2, <2>1
    <3>2. u[i] = s[i] /\ u[i + 1] = s[i + 1]
      BY <1>1, <3>1
    <3> QED
      BY <2>1, <3>2 DEF Framed
  <2>2. CASE i = Len(s)
    <3>1. i \in 1..Len(s) /\ 1 \in 1..Len(t)
      BY <1>1, <1>2, <2>2
    <3>2. u[i] = s[i] /\ u[i + 1] = t[1] /\ s # << >> /\ t # << >>
      BY <1>1, <1>2, <2>2, <3>1
    <3>3. s[i] \in Byte /\ s[i].kind = "EOF" /\ t[1].kind = "SOF"
      BY <1>2, <2>2, <3>1, <3>2 DEF Framed
    <3>4. Deframe(Awaiting(s[i]), s[i]) = [wants |-> "SOF", left |-> 0]
      BY <3>3, DeframeAwaiting DEF FrameKinds
    <3>5. Awaiting(t[1]) = [wants |-> "SOF", left |-> 0]
      BY <3>3 DEF Awaiting
    <3> QED
      BY <3>2, <3>4, <3>5
  <2>3. CASE i > Len(s)
    <3> DEFINE j == i - Len(s)
    <3>a. /\ Len(u) = Len(s) + Len(t) /\ Len(s) \in Nat /\ Len(t) \in Nat
          /\ i \in 1..Len(u)-1
      BY <1>1, <1>2
    <3>1. /\ j \in 1..Len(t)-1 /\ j \in 1..Len(t) /\ j + 1 \in 1..Len(t)
          /\ i = Len(s) + j /\ i + 1 = Len(s) + (j + 1)
      BY <3>a, <2>3
    <3> HIDE DEF j
    <3>2. u[Len(s) + j] = t[j] /\ u[Len(s) + (j + 1)] = t[j + 1]
      BY <1>1, <3>1
    <3>3. u[i] = t[j] /\ u[i + 1] = t[j + 1]
      BY <3>1, <3>2
    <3> QED
      BY <3>1, <3>3 DEF Framed
  <2>4. i \in 1..Len(s)-1 \/ i = Len(s) \/ i > Len(s)
    BY <1>2
  <2> QED
    BY <2>1, <2>2, <2>3, <2>4
<1>6. ASSUME u # << >> PROVE u[Len(u)].kind = "EOF"
  <2>1. CASE t = << >>
    <3>1. Len(u) = Len(s) /\ Len(s) \in 1..Len(s) /\ s # << >>
      BY <1>1, <1>2, <1>6, <2>1
    <3> QED
      BY <1>1, <3>1 DEF Framed
  <2>2. CASE t # << >>
    <3>1. Len(t) \in 1..Len(t)
      BY <1>2, <2>2
    <3>2. u[Len(u)] = t[Len(t)]
      BY <1>1, <3>1
    <3> QED
      BY <2>2, <3>2 DEF Framed
  <2> QED
    BY <2>1, <2>2
<1>7. Framed(u)
  BY <1>4, <1>5, <1>6 DEF Framed
<1> QED
  BY <1>7 DEF u

(* Once the receiver has its first byte it waits for the next, or is ready *)
(* for a new frame.                                                        *)
LEMMA FramedRest ==
  ASSUME NEW byte \in Byte, NEW rest \in Seq(Byte), Framed(<<byte>> \o rest)
  PROVE  /\ Framed(rest)
         /\ Deframe(Awaiting(byte), byte)
              = IF rest = << >> THEN Ready ELSE Awaiting(rest[1])
<1> DEFINE one == <<byte>>
           u == one \o rest
<1>1. one \in Seq(Byte) /\ Len(one) = 1 /\ one[1] = byte
  OBVIOUS
<1> HIDE DEF one
<1>2. /\ u \in Seq(Byte) /\ Len(u) = Len(one) + Len(rest)
      /\ \A i \in 1..Len(one) : u[i] = one[i]
      /\ \A i \in 1..Len(rest) : u[Len(one) + i] = rest[i]
  BY <1>1, Joined
<1>3. Framed(u)
  BY DEF one
<1> HIDE DEF u
<1>4. /\ Len(rest) \in Nat
      /\ rest = << >> <=> Len(rest) = 0
      /\ u # << >>
  <2>1. Len(rest) \in Nat
    OBVIOUS
  <2>2. u = << >> => Len(u) = 0
    OBVIOUS
  <2> QED
    BY <1>1, <1>2, <2>1, <2>2
<1>5. /\ Len(u) = 1 + Len(rest) /\ u[1] = byte
      /\ \A i \in 1..Len(rest) : u[1 + i] = rest[i]
  BY <1>1, <1>2
<1>6. byte.kind \in FrameKinds
  <2>1. 1 \in 1..Len(u)
    BY <1>4, <1>5
  <2> QED
    BY <1>3, <1>5, <2>1 DEF Framed
<1>7. CASE rest = << >>
  <2>1. byte.kind = "EOF"
    BY <1>3, <1>4, <1>5, <1>7 DEF Framed
  <2>2. Deframe(Awaiting(byte), byte) = Ready
    BY <1>6, <2>1, DeframeAwaiting DEF Ready
  <2>3. Framed(<< >>)
    BY DEF Framed
  <2> QED
    BY <1>7, <2>2, <2>3
<1>8. CASE rest # << >>
  <2>1. 1 \in 1..Len(u)-1 /\ 1 \in 1..Len(rest)
    BY <1>4, <1>5, <1>8
  <2>2. Deframe(Awaiting(byte), byte) = Awaiting(rest[1])
    <3>1. u[1 + 1] = rest[1]
      BY <1>5, <2>1
    <3>2. Deframe(Awaiting(u[1]), u[1]) = Awaiting(u[1 + 1])
      BY <1>3, <2>1 DEF Framed
    <3> QED
      BY <1>5, <3>1, <3>2
  <2>3. ASSUME NEW i \in 1..Len(rest) PROVE rest[i].kind \in FrameKinds
    <3>1. 1 + i \in 1..Len(u)
      BY <1>4, <1>5
    <3> QED
      BY <1>3, <1>5, <3>1 DEF Framed
  <2>4. ASSUME NEW i \in 1..Len(rest)-1
        PROVE  Deframe(Awaiting(rest[i]), rest[i]) = Awaiting(rest[i + 1])
    <3>1. /\ 1 + i \in 1..Len(u)-1 /\ i \in 1..Len(rest) /\ i + 1 \in 1..Len(rest)
          /\ (1 + i) + 1 = 1 + (i + 1)
      BY <1>4, <1>5
    <3>2. u[1 + i] = rest[i] /\ u[1 + (i + 1)] = rest[i + 1]
      BY <1>5, <3>1
    <3>3. Deframe(Awaiting(u[1 + i]), u[1 + i]) = Awaiting(u[(1 + i) + 1])
      BY <1>3, <3>1 DEF Framed
    <3> QED
      BY <3>1, <3>2, <3>3
  <2>5. rest[Len(rest)].kind = "EOF"
    <3>1. Len(rest) \in 1..Len(rest)
      BY <1>4, <1>8
    <3>2. u[Len(u)] = rest[Len(rest)]
      BY <1>5, <3>1
    <3> QED
      BY <1>3, <1>4, <3>2 DEF Framed
  <2> QED
    BY <1>8, <2>2, <2>3, <2>4, <2>5 DEF Framed
<1> QED
  BY <1>7, <1>8

(* Moving a byte from _write into tx, or from tx into the register, leaves *)
(* the bytes on their way in the same order.                               *)
LEMMA Moved ==
  ASSUME NEW s \in Seq(Byte), NEW t \in Seq(Byte)
  PROVE  /\ t # << >> => Append(s, Head(t)) \o Tail(t) = s \o t
         /\ s # << >> => <<Head(s)>> \o (Tail(s) \o t) = s \o t
<1>1. ASSUME NEW r \in Seq(Byte), r # << >>
      PROVE  /\ Head(r) \in Byte /\ Tail(r) \in Seq(Byte)
             /\ <<Head(r)>> \in Seq(Byte) /\ <<Head(r)>> \o Tail(r) = r
  <2>1. /\ Head(r) \in Byte /\ Tail(r) \in Seq(Byte) /\ Len(Tail(r)) = Len(r) - 1
        /\ \A i \in 1..Len(Tail(r)) : Tail(r)[i] = r[i + 1]
    BY <1>1, HeadTailProperties
  <2> DEFINE one == <<Head(r)>>
             rest == Tail(r)
             u == one \o rest
  <2>2. one \in Seq(Byte) /\ Len(one) = 1 /\ one[1] = Head(r)
    BY <2>1
  <2>3. Head(r) = r[1] /\ Len(r) \in Nat \ {0}
    BY <1>1
  <2>4. rest \in Seq(Byte) /\ Len(rest) = Len(r) - 1
        /\ \A i \in 1..Len(rest) : rest[i] = r[i + 1]
    BY <2>1
  <2> HIDE DEF one, rest
  <2>5. /\ u \in Seq(Byte) /\ Len(u) = Len(one) + Len(rest)
        /\ \A i \in 1..Len(one) : u[i] = one[i]
        /\ \A i \in 1..Len(rest) : u[Len(one) + i] = rest[i]
    BY <2>2, <2>4, Joined
  <2> HIDE DEF u
  <2>6. ASSUME NEW i \in 1..Len(u) PROVE u[i] = r[i]
    <3>1. CASE i = 1
      BY <2>2, <2>3, <2>5, <3>1
    <3>2. CASE i # 1
      <4>1. /\ i - 1 \in 1..Len(rest) /\ 1 + (i - 1) = i /\ (i - 1) + 1 = i
        BY <2>2, <2>3, <2>4, <2>5, <3>2
      <4>2. u[1 + (i - 1)] = rest[i - 1] /\ rest[i - 1] = r[(i - 1) + 1]
        BY <2>2, <2>4, <2>5, <4>1
      <4> QED
        BY <4>1, <4>2
    <3> QED
      BY <3>1, <3>2
  <2>7. Len(u) = Len(r)
    BY <2>2, <2>3, <2>4, <2>5
  <2>8. u = r
    BY <2>5, <2>6, <2>7, SeqEqual
  <2> QED
    BY <2>1, <2>2, <2>8 DEF u, one, rest
<1>2. ASSUME t # << >> PROVE Append(s, Head(t)) \o Tail(t) = s \o t
  <2>1. /\ Head(t) \in Byte /\ Tail(t) \in Seq(Byte)
        /\ <<Head(t)>> \in Seq(Byte) /\ <<Head(t)>> \o Tail(t) = t
    BY <1>1, <1>2
  <2>2. Append(s, Head(t)) = s \o <<Head(t)>>
    BY <2>1, AppendIsConcat
  <2>3. (s \o <<Head(t)>>) \o Tail(t) = s \o (<<Head(t)>> \o Tail(t))
    BY <2>1, ConcatAssociative
  <2> QED
    BY <2>1, <2>2, <2>3
<1>3. ASSUME s # << >> PROVE <<Head(s)>> \o (Tail(s) \o t) = s \o t
  <2>1. /\ Tail(s) \in Seq(Byte)
        /\ <<Head(s)>> \in Seq(Byte) /\ <<Head(s)>> \o Tail(s) = s
    BY <1>1, <1>3
  <2>2. (<<Head(s)>> \o Tail(s)) \o t = <<Head(s)>> \o (Tail(s) \o t)
    BY <2>1, ConcatAssociative
  <2> QED
    BY <2>1, <2>2
<1> QED
  BY <1>2, <1>3

LEMMA LinkFramedStep ==
  ASSUME RxChars \intersect BACKSPACES = {}, COUNT_MOD % USART_BUF = 0,
         TypeOK, TxNeverOverrun, LinkFramed, [Next]_vars
  PROVE  LinkFramed'
<1> DEFINE C == Contents(tx)
<1>1. /\ USART_BUF \in Nat \ {0} /\ USART_BUF < COUNT_MOD
      /\ tx \in PC_Buffer(Byte, USART_BUF) /\ tx.buffer_SIZE = USART_BUF
      /\ rdr \in RxValue /\ Straight(tx)
      /\ C \in Seq(Byte) /\ Len(C) = Used(tx)
      /\ pending \in Seq(Byte) /\ tdr \in Byte
  <2>1. /\ USART_BUF \in Nat \ {0} /\ USART_BUF < COUNT_MOD
        /\ tx \in PC_Buffer(Byte, USART_BUF) /\ tx.buffer_SIZE = USART_BUF
        /\ rdr \in RxValue /\ Straight(tx)
        /\ pending \in Seq(Byte) /\ tdr \in Byte
    BY UsartAssumption DEF TypeOK, PC_Buffer, Straight
  <2> QED
    BY <2>1, ContentsType
<1>2. C \o pending \in Seq(Byte) /\ InRegister \in Seq(Byte) /\ OnItsWay \in Seq(Byte)
  <2>1. C \o pending \in Seq(Byte)
    BY <1>1, ConcatProperties
  <2>2. InRegister \in Seq(Byte)
    BY <1>1 DEF InRegister
  <2> QED
    BY <2>1, <2>2, ConcatProperties DEF OnItsWay
<1> HIDE DEF C
<1>3. ASSUME OnItsWay' = OnItsWay, receiver' = receiver,
             (pc \in {"idle", "getc_check", "getc_remove"} => pending = << >>)'
      PROVE  LinkFramed'
  BY <1>3 DEF LinkFramed
<1>4. ASSUME UNCHANGED <<pending, tx, txe, tdr>> PROVE OnItsWay' = OnItsWay
  BY <1>4 DEF OnItsWay, InRegister
<1>5. ASSUME NEW count \in WriteCounts, Write(count) PROVE LinkFramed'
  <2> DEFINE new == Frame(count)
  <2>1. /\ count \in Nat /\ count < SIZE_MOD /\ pending = << >>
        /\ pending' = new /\ pc' = "putc_check"
        /\ tx' = tx /\ txe' = txe /\ tdr' = tdr /\ receiver' = receiver
    BY <1>5, UsartAssumption DEF Write, LinkFramed, txReg
  <2>2. Framed(new) /\ new[1].kind = "SOF" /\ new \in Seq(Byte) /\ new # << >>
    BY <2>1, FrameFramed, FrameType
  <2> HIDE DEF new
  <2>3. OnItsWay = InRegister \o C
    <3>1. C \o << >> = C
      BY <1>1, ConcatEmptySeq
    <3> QED
      BY <2>1, <3>1 DEF OnItsWay, C
  <2>4. OnItsWay' = OnItsWay \o new
    <3>1. OnItsWay' = InRegister \o (C \o new)
      BY <2>1 DEF OnItsWay, InRegister, C
    <3>2. (InRegister \o C) \o new = InRegister \o (C \o new)
      <4>1. \A r, s, t \in Seq(Byte) : (r \o s) \o t = r \o (s \o t)
        BY ConcatAssociative
      <4>2. InRegister \in Seq(Byte)
        BY <1>2
      <4>3. C \in Seq(Byte)
        BY <1>1
      <4>4. new \in Seq(Byte)
        BY <2>2
      <4> QED
        BY <4>1, <4>2, <4>3, <4>4
    <3> QED
      BY <2>3, <3>1, <3>2
  <2> DEFINE s == OnItsWay
             u == s \o new
  <2>5. Framed(u)
    BY <1>2, <2>2, FramedConcat DEF LinkFramed
  <2>6. u # << >> /\ u[1] = IF s = << >> THEN new[1] ELSE s[1]
    <3>1. /\ u \in Seq(Byte) /\ Len(u) = Len(s) + Len(new)
          /\ \A i \in 1..Len(s) : u[i] = s[i]
          /\ \A i \in 1..Len(new) : u[Len(s) + i] = new[i]
      BY <1>2, <2>2, Joined
    <3>2. Len(s) \in Nat /\ Len(new) \in Nat \ {0} /\ (s = << >> <=> Len(s) = 0)
      BY <1>2, <2>2
    <3> HIDE DEF u, s
    <3>3. u # << >>
      BY <3>1, <3>2
    <3>4. CASE s = << >>
      <4>1. Len(s) = 0 /\ 1 \in 1..Len(new) /\ 0 + 1 = 1
        BY <3>2, <3>4
      <4>2. u[0 + 1] = new[1]
        BY <3>1, <4>1
      <4> QED
        BY <3>3, <3>4, <4>1, <4>2
    <3>5. CASE s # << >>
      <4>1. 1 \in 1..Len(s)
        BY <3>2, <3>5
      <4> QED
        BY <3>1, <3>3, <3>5, <4>1
    <3> QED
      BY <3>4, <3>5
  <2>7. Awaiting(new[1]) = Ready
    BY <2>2 DEF Awaiting, Ready
  <2>8. receiver = IF s = << >> THEN Ready ELSE Awaiting(s[1])
    BY DEF LinkFramed
  <2>9. /\ Framed(OnItsWay')
        /\ receiver' = IF OnItsWay' = << >> THEN Ready ELSE Awaiting(OnItsWay'[1])
    <3>1. OnItsWay' = u
      BY <2>4
    <3> HIDE DEF s, u
    <3> QED
      BY <2>1, <2>5, <2>6, <2>7, <2>8, <3>1
  <2> QED
    BY <2>1, <2>9 DEF LinkFramed
<1>6. ASSUME NEW count \in ReadCounts, Read(count) PROVE LinkFramed'
  <2>1. UNCHANGED <<pending, tx, txe, tdr, receiver>> /\ pc = "idle"
    BY <1>6 DEF Read, txReg
  <2> QED
    BY <1>3, <1>4, <2>1 DEF LinkFramed
<1>7. ASSUME PutcCheck \/ PutcLoad \/ PutcStore PROVE LinkFramed'
  <2>1. /\ UNCHANGED <<pending, tx, txe, tdr, receiver>>
        /\ pc' = "idle" => pending = << >>
        /\ pc' \notin {"getc_check", "getc_remove"}
    BY <1>7 DEF PutcCheck, PutcLoad, PutcStore, txReg
  <2> QED
    BY <1>3, <1>4, <2>1
<1>8. ASSUME PutcAdd PROVE LinkFramed'
  <2>1. pending # << >> /\ Head(pending) \in Byte
    BY <1>1, <1>8 DEF PutcAdd, TypeOK
  <2>2. Used(tx) < USART_BUF
    <3>1. Used(tx) \in 0..COUNT_MOD-1
      BY <1>1, UsedType
    <3> QED
      BY <1>1, <1>8, <3>1 DEF PutcAdd, TxNeverOverrun, pc_buffer_full
  <2>3. Contents(pc_buffer_add(tx, Head(pending))) = Append(C, Head(pending))
    BY <1>1, <2>1, <2>2, AddContents DEF C
  <2>4. OnItsWay' = InRegister \o (Append(C, Head(pending)) \o Tail(pending))
    BY <1>8, <2>3 DEF PutcAdd, OnItsWay, InRegister, txReg
  <2>5. Append(C, Head(pending)) \o Tail(pending) = C \o pending
    BY <1>1, <2>1, Moved
  <2>6. OnItsWay' = OnItsWay
    BY <2>4, <2>5 DEF OnItsWay, C
  <2> QED
    BY <1>3, <1>8, <2>6 DEF PutcAdd
<1>9. ASSUME Getc PROVE LinkFramed'
  <2>1. /\ UNCHANGED <<pending, tx, txe, tdr, receiver>>
        /\ pc \in {"getc_check", "getc_remove"}
    BY <1>9 DEF Getc, GetcCheck, GetcRemove, txReg
  <2> QED
    BY <1>3, <1>4, <2>1 DEF LinkFramed
<1>10. ASSUME USART1_Handler PROVE LinkFramed'
  <2>1. Transmit(tx, cr1) /\ UNCHANGED <<pc, pending, receiver>>
    BY <1>1, <1>10, NeverErases DEF USART1_Handler, mainVars
  <2>2. CASE UNCHANGED <<tx, txe, tdr>>
    BY <1>3, <1>4, <2>1, <2>2 DEF LinkFramed
  <2>3. CASE /\ txe /\ ~pc_buffer_empty(tx)
             /\ tdr' = Oldest(tx) /\ txe' = FALSE /\ tx' = pc_buffer_remove(tx)
    <3>1. C # << >> /\ Oldest(tx) = Head(C) /\ Contents(pc_buffer_remove(tx)) = Tail(C)
      BY <1>1, <2>3, RemoveContents DEF C
    <3>2. OnItsWay' = <<Head(C)>> \o (Tail(C) \o pending)
      BY <2>1, <2>3, <3>1 DEF OnItsWay, InRegister
    <3>3. <<Head(C)>> \o (Tail(C) \o pending) = C \o pending
      BY <1>1, <3>1, Moved
    <3>4. << >> \o (C \o pending) = C \o pending
      BY <1>2, ConcatEmptySeq
    <3>5. OnItsWay = C \o pending
      BY <2>3, <3>4 DEF OnItsWay, InRegister, C
    <3> QED
      BY <1>3, <2>1, <3>2, <3>3, <3>5 DEF LinkFramed
  <2> QED
    BY <2>1, <2>2, <2>3 DEF Transmit, txReg
<1>11. ASSUME NEW c \in RxChars, RxArrive(c) PROVE LinkFramed'
  <2>1. UNCHANGED <<pc, pending, tx, txe, tdr, receiver>>
    BY <1>11 DEF RxArrive, mainVars, txReg
  <2> QED
    BY <1>3, <1>4, <2>1 DEF LinkFramed
<1>12. ASSUME TxShift PROVE LinkFramed'
  <2> DEFINE rest == C \o pending
  <2>1. /\ ~txe /\ txe' = TRUE /\ receiver' = Deframe(receiver, tdr)
        /\ UNCHANGED <<pc, pending, tx, tdr>>
    BY <1>12 DEF TxShift, mainVars
  <2>2. OnItsWay = <<tdr>> \o rest
    BY <2>1 DEF OnItsWay, InRegister, C
  <2>3. << >> \o rest = rest /\ rest \in Seq(Byte)
    BY <1>2, ConcatEmptySeq
  <2>4. OnItsWay' = rest
    BY <2>1, <2>3 DEF OnItsWay, InRegister, C
  <2> HIDE DEF rest
  <2>5. OnItsWay # << >> /\ OnItsWay[1] = tdr
    <3>1. <<tdr>> \in Seq(Byte) /\ Len(<<tdr>>) = 1 /\ <<tdr>>[1] = tdr
      BY <1>1
    <3>2. /\ Len(<<tdr>> \o rest) = 1 + Len(rest) /\ Len(rest) \in Nat
          /\ (<<tdr>> \o rest)[1] = tdr
      BY <2>3, <3>1, Joined
    <3> QED
      BY <2>2, <3>2
  <2>6. Framed(<<tdr>> \o rest) /\ receiver = Awaiting(tdr)
    BY <2>2, <2>5 DEF LinkFramed
  <2>7. /\ Framed(rest)
        /\ receiver' = IF rest = << >> THEN Ready ELSE Awaiting(rest[1])
    BY <1>1, <2>1, <2>3, <2>6, FramedRest
  <2>8. (pc \in {"idle", "getc_check", "getc_remove"} => pending = << >>)'
    BY <2>1 DEF LinkFramed
  <2> QED
    BY <2>4, <2>7, <2>8 DEF LinkFramed
<1>13. ASSUME UNCHANGED vars PROVE LinkFramed'
  <2>1. UNCHANGED <<pc, pending, tx, txe, tdr, receiver>>
    BY <1>13 DEF vars, mainVars, txReg
  <2> QED
    BY <1>3, <1>4, <2>1 DEF LinkFramed
<1> QED
  BY <1>5, <1>6, <1>7, <1>8, <1>9, <1>10, <1>11, <1>12, <1>13 DEF Next, Putc

(* Where no backspace is echoed into a frame, the radio's other end gets   *)
(* whole frames of _write and nothing else, their size bytes true: what    *)
(* the register, tx and _write hold is always the rest of whole frames,    *)
(* the first of them where the receiver has got to.                        *)
THEOREM WireFramedAlways ==
  ASSUME RxChars \intersect BACKSPACES = {}, COUNT_MOD % USART_BUF = 0
  PROVE  Spec => []WireFramed
<1>1. Init => LinkFramed
  <2> SUFFICES ASSUME Init PROVE LinkFramed
    OBVIOUS
  <2>1. TxJunk \in Byte
    BY MarkType DEF TxJunk
  <2>2. tx \in PC_Buffer(Byte, USART_BUF) /\ Used(tx) = 0
    BY <2>1, UsartAssumption, InitType DEF Init
  <2>3. Contents(tx) \in Seq(Byte) /\ Len(Contents(tx)) = 0
    BY <2>2, UsartAssumption, ContentsType
  <2>4. Contents(tx) = << >>
    BY <2>3
  <2>5. << >> \o << >> = << >>
    OBVIOUS
  <2>6. OnItsWay = << >>
    BY <2>4, <2>5 DEF Init, OnItsWay, InRegister
  <2>7. Framed(<< >>)
    BY DEF Framed
  <2> QED
    BY <2>6, <2>7 DEF Init, LinkFramed, Ready
<1>2. TypeOK /\ TxNeverOverrun /\ LinkFramed /\ [Next]_vars => LinkFramed'
  BY LinkFramedStep
<1>3. TypeOK /\ LinkFramed => WireFramed
  <2> SUFFICES ASSUME TypeOK, LinkFramed PROVE WireFramed
    OBVIOUS
  <2>1. CASE OnItsWay = << >>
    BY <2>1 DEF LinkFramed, WireFramed, Ready
  <2>2. CASE OnItsWay # << >>
    <3>1. 1 \in 1..Len(OnItsWay)
      <4>1. Contents(tx) \in Seq(Byte)
        BY UsartAssumption, ContentsType DEF TypeOK
      <4>2. InRegister \in Seq(Byte) /\ pending \in Seq(Byte)
        BY DEF TypeOK, InRegister
      <4>3. OnItsWay \in Seq(Byte)
        BY <4>1, <4>2, ConcatProperties DEF OnItsWay
      <4> QED
        BY <2>2, <4>3
    <3>2. OnItsWay[1].kind \in FrameKinds
      BY <3>1 DEF LinkFramed, Framed
    <3> QED
      BY <2>2, <3>2 DEF LinkFramed, WireFramed, Awaiting, FrameKinds
  <2> QED
    BY <2>1, <2>2
<1> QED
  BY <1>1, <1>2, <1>3, TypeCorrect, TxNeverOverrunAlways, PTL DEF Spec
=============================================================================
