------------------------------ MODULE GyroProofs ------------------------------
(***************************************************************************)
(* Theorems about GyroSpi.  Their invariant follows the bytes queued and   *)
(* not yet taken on their whole way: gyro_tx_buf, the transmit FIFO, the   *)
(* receive FIFO, gyro_rx_buf.                                              *)
(***************************************************************************)
EXTENDS GyroSpi, PCBufferTheorems, SequenceTheorems

LEMMA ConstantsType ==
  /\ REGS \in Nat \ {0} /\ CALIBRATE_NUM \in Nat \ {0}
  /\ GYRO_BUF \in Nat \ {0} /\ GYRO_BUF > 2 * REGS
  /\ COUNT_MOD \in Nat \ {0} /\ COUNT_MOD > GYRO_BUF
  /\ COUNT_MOD > 4 * REGS + 2
BY GyroAssumption, WidthAssumption

(* What RXNE's two bytes leave in the receive FIFO. *)
LEMMA WithoutTwo ==
  ASSUME NEW S, NEW s \in Seq(S), Len(s) >= 2
  PROVE  /\ SubSeq(s, 3, Len(s)) \in Seq(S)
         /\ Len(SubSeq(s, 3, Len(s))) = Len(s) - 2
         /\ \A i \in 1..Len(s)-2 : SubSeq(s, 3, Len(s))[i] = s[i + 2]
<1> DEFINE n == Len(s)
           t == SubSeq(s, 3, n)
<1>1. n \in Nat /\ n >= 2 /\ \A i \in 3..n : s[i] \in S
  OBVIOUS
<1> HIDE DEF n
<1>2. /\ t \in Seq(S)
      /\ Len(t) = IF 3 <= n THEN n - 3 + 1 ELSE 0
      /\ \A i \in 1..n-3+1 : t[i] = s[3 + i - 1]
  BY <1>1, SubSeqProperties
<1> HIDE DEF t
<1>3. Len(t) = n - 2
  BY <1>1, <1>2
<1>4. \A i \in 1..n-2 : t[i] = s[i + 2]
  <2>1. ASSUME NEW i \in 1..n-2 PROVE t[i] = s[i + 2]
    <3>1. i \in 1..n-3+1 /\ 3 + i - 1 = i + 2
      BY <1>1
    <3> QED
      BY <1>2, <3>1
  <2> QED
    BY <2>1
<1> QED
  BY <1>2, <1>3, <1>4 DEF n, t

LEMMA TypeInit == Init => TypeOK
<1> SUFFICES ASSUME Init PROVE TypeOK
  OBVIOUS
<1>1. TxJunk \in BusByte /\ RxJunk \in Transfer
  BY DEF TxJunk, RxJunk, BusByte, Transfer
<1>2. /\ tx \in PC_Buffer(BusByte, GYRO_BUF)
      /\ rx \in PC_Buffer(Transfer, GYRO_BUF)
  BY <1>1, ConstantsType, InitType DEF Init
<1>3. /\ transfer \in Transfer /\ taken \in Reg /\ rounds \in 0..CALIBRATE_NUM
      /\ skew \in {Unknown, 0, 1}
  BY ConstantsType DEF Init, Transfer, Reg
<1>4. /\ txfifo \in Seq(BusByte) /\ Len(txfifo) <= FIFO_SIZE
      /\ rxfifo \in Seq(BusByte) /\ Len(rxfifo) <= FIFO_SIZE
  BY DEF Init, FIFO_SIZE
<1> QED
  BY <1>2, <1>3, <1>4 DEF Init, TypeOK

LEMMA QueueByteType ==
  ASSUME TypeOK, NEW half \in {1, 2}, QueueByte(half)
  PROVE  tx' \in PC_Buffer(BusByte, GYRO_BUF)
<1>1. [of |-> transfer, half |-> half] \in BusByte
  BY DEF TypeOK, BusByte
<1> QED
  BY <1>1, ConstantsType, AddType DEF TypeOK, QueueByte

LEMMA TypeStep == TypeOK /\ [Next]_vars => TypeOK'
<1> SUFFICES ASSUME TypeOK, [Next]_vars PROVE TypeOK'
  OBVIOUS
<1> USE ConstantsType
<1>1. ASSUME WriteAddress PROVE TypeOK'
  <2>1. tx' \in PC_Buffer(BusByte, GYRO_BUF)
    BY <1>1, QueueByteType DEF WriteAddress
  <2> QED
    BY <1>1, <2>1 DEF WriteAddress, QueueByte, TypeOK, bus
<1>2. ASSUME WriteData PROVE TypeOK'
  <2>1. tx' \in PC_Buffer(BusByte, GYRO_BUF)
    BY <1>2, QueueByteType DEF WriteData
  <2> QED
    BY <1>2, <2>1 DEF WriteData, QueueByte, TypeOK, bus
<1>3. ASSUME SpiOff PROVE TypeOK'
  <2>1. transfer' \in Transfer
    BY <1>3 DEF SpiOff, TypeOK, Transfer, Reg, CTRL
  <2>2. pc' \in {"on", "poll", "take", "idle"}
    <3>1. transfer = CTRL \/ transfer < REGS - 1 \/ transfer = REGS - 1
      BY DEF TypeOK, Transfer, Reg
    <3>2. CASE transfer # CTRL /\ transfer < REGS - 1
      BY <1>3, <3>2 DEF SpiOff, AfterTransfer
    <3>3. CASE transfer = CTRL
      BY <1>3, <3>3 DEF SpiOff, AfterTransfer, CTRL
    <3>4. CASE transfer = REGS - 1
      BY <1>3, <3>4 DEF SpiOff, AfterTransfer, CTRL, TypeOK
    <3> QED
      BY <3>1, <3>2, <3>3, <3>4
  <2> QED
    BY <1>3, <2>1, <2>2 DEF SpiOff, TypeOK, bus
<1>4. ASSUME StartPoll PROVE TypeOK'
  BY <1>4 DEF StartPoll, TypeOK, bus
<1>5. ASSUME TakeByte PROVE TypeOK'
  <2>1. rx' \in PC_Buffer(Transfer, GYRO_BUF)
    BY <1>5, RemoveType DEF TakeByte, TypeOK
  <2>2. taken' \in Reg
    BY <1>5, StepUp DEF TakeByte, TypeOK, Reg
  <2>3. rounds' \in 0..CALIBRATE_NUM /\ pc' \in {"take", "poll", "idle"}
    BY <1>5 DEF TakeByte, TypeOK
  <2>4. skew' \in {Unknown, 0, 1}
    BY <1>5 DEF TakeByte, TypeOK
  <2> QED
    BY <1>5, <2>1, <2>2, <2>3, <2>4 DEF TakeByte, TypeOK, bus
<1>6. ASSUME getGyroXYZ PROVE TypeOK'
  BY <1>6 DEF getGyroXYZ, TypeOK, bus
<1>7. ASSUME OnRXNE PROVE TypeOK'
  <2>1. rxfifo \in Seq(BusByte) /\ Len(rxfifo) >= 2 /\ Len(rxfifo) <= FIFO_SIZE
    BY <1>7 DEF OnRXNE, RXNE, TypeOK
  <2>2. rxfifo' \in Seq(BusByte) /\ Len(rxfifo') = Len(rxfifo) - 2
    <3>1. rxfifo' = SubSeq(rxfifo, 3, Len(rxfifo))
      BY <1>7 DEF OnRXNE
    <3> QED
      BY <2>1, <3>1, WithoutTwo
  <2>3. rxfifo[2].of \in Transfer
    <3>1. rxfifo[2] \in BusByte
      BY <2>1
    <3> QED
      BY <3>1 DEF BusByte
  <2>4. rx' \in PC_Buffer(Transfer, GYRO_BUF)
    <3>1. AddIfRoom(rx, rxfifo[2].of) \in PC_Buffer(Transfer, GYRO_BUF)
      BY <2>3, AddIfRoomType DEF TypeOK
    <3> QED
      BY <1>7, <3>1 DEF OnRXNE, gyro_xyz_Callback, SPI1_Rx_Callback, TypeOK
  <2> QED
    BY <1>7, <2>1, <2>2, <2>4 DEF OnRXNE, TypeOK, main, FIFO_SIZE
<1>8. ASSUME OnTXE PROVE TypeOK'
  <2>1. Len(txfifo) <= 2 /\ txfifo \in Seq(BusByte)
    BY <1>8 DEF OnTXE, TXE, FIFO_SIZE, TypeOK
  <2>2. Oldest(tx) \in BusByte /\ pc_buffer_remove(tx) \in PC_Buffer(BusByte, GYRO_BUF)
    BY RemoveType DEF TypeOK
  <2>3. /\ Append(txfifo, Oldest(tx)) \in Seq(BusByte)
        /\ Len(Append(txfifo, Oldest(tx))) <= FIFO_SIZE
    BY <2>1, <2>2 DEF FIFO_SIZE
  <2> QED
    BY <1>8, <2>2, <2>3 DEF OnTXE, SPI1_Tx_Callback, TypeOK, main
<1>9. ASSUME Exchange PROVE TypeOK'
  <2>1. /\ txfifo \in Seq(BusByte) /\ txfifo # << >> /\ Len(txfifo) <= FIFO_SIZE
        /\ rxfifo \in Seq(BusByte) /\ Len(rxfifo) < FIFO_SIZE
    BY <1>9 DEF Exchange, TypeOK
  <2>2. Head(txfifo) \in BusByte /\ Tail(txfifo) \in Seq(BusByte)
        /\ Len(Tail(txfifo)) <= FIFO_SIZE
    BY <2>1 DEF FIFO_SIZE
  <2>3. /\ Append(rxfifo, Head(txfifo)) \in Seq(BusByte)
        /\ Len(Append(rxfifo, Head(txfifo))) <= FIFO_SIZE
    BY <2>1, <2>2 DEF FIFO_SIZE
  <2> QED
    BY <1>9, <2>2, <2>3 DEF Exchange, TypeOK, main
<1>10. ASSUME UNCHANGED vars PROVE TypeOK'
  BY <1>10 DEF vars, main, bus, TypeOK
<1>11. ASSUME SpiOn \/ EnableTXE PROVE TypeOK'
  BY <1>11 DEF SpiOn, EnableTXE, TypeOK, bus
<1> QED
  BY <1>1, <1>2, <1>3, <1>4, <1>5, <1>6, <1>7, <1>8, <1>9, <1>10, <1>11
  DEF Next, Driver, gyro_write, SPI1_Handler

(* GyroSpi's variables keep their types: the FIFOs of SPI1 are never       *)
(* overfilled, and the driver's place and counts stay in their ranges.     *)
THEOREM TypeCorrect == Spec => []TypeOK
  BY TypeInit, TypeStep, PTL DEF Spec

-----------------------------------------------------------------------------
(* Axis transfers queued whole and not yet taken.  The transfer to         *)
(* CTRL_REG1, which comes before the first, counts as -1 while it is being *)
(* queued.                                                                 *)
Ahead == IF primed /\ rounds < CALIBRATE_NUM THEN REGS ELSE 0

Owed ==
  IF pc = "idle" THEN REGS
  ELSE Ahead + (IF pc = "take" THEN REGS - taken ELSE transfer)

(* Bytes queued of a transfer that is not whole, or not yet counted. *)
Queued == IF pc = "data" THEN 1 ELSE IF pc \in {"enable", "off"} THEN 2 ELSE 0

(* Bytes of which the reply has not reached gyro_rx_buf. *)
InFlight == Used(tx) + Len(txfifo) + Len(rxfifo)

(* What is in flight or waits in gyro_rx_buf is what is owed, and s        *)
(* strays: the reply to the write of CTRL_REG1, unless the first callback  *)
(* dropped it.                                                             *)
Balance(s) ==
  /\ InFlight + 2 * Used(rx) = 2 * Owed + Queued + 2 * s
  /\ skew # Unknown => skew = s

(* What the main thread's place says of its registers. *)
Placed ==
  /\ pc \in {"poll", "take", "idle"} => transfer = 0
  /\ pc # "take" => taken = 0
  /\ pc \in {"take", "idle"} => primed
  /\ pc = "idle" => rounds = CALIBRATE_NUM
  /\ transfer = CTRL => ~primed /\ pc \in {"on", "address", "data", "enable", "off"}
  /\ ~primed => rounds = 0
  /\ fun_ptr = "SPI1_Rx_Callback" =>
       ~primed /\ (transfer = CTRL \/ pc = "poll")
  /\ Used(tx) <= GYRO_BUF
  /\ IF skew = Unknown THEN rounds = 0 /\ taken = 0 ELSE primed

(* The k-th value in gyro_rx_buf, once every reply in flight is there. *)
Expected(s, k) ==
  IF skew = Unknown /\ s = 1 /\ k = 1 THEN CTRL ELSE (taken + k - 1 - s) % REGS

(* The b-th byte in flight. *)
ByteAt(s, b) ==
  [of |-> Expected(s, Used(rx) + ((b + 1) \div 2)), half |-> 2 - (b % 2)]

Ordered(s) ==
  /\ \A k \in 1..Used(rx) : Contents(rx)[k] = Expected(s, k)
  /\ \A b \in 1..Len(rxfifo) : rxfifo[b] = ByteAt(s, b)
  /\ \A b \in 1..Len(txfifo) : txfifo[b] = ByteAt(s, Len(rxfifo) + b)
  /\ \A b \in 1..Used(tx) :
       Contents(tx)[b] = ByteAt(s, Len(rxfifo) + Len(txfifo) + b)

(* Before the first value is taken no count has wrapped. *)
Early ==
  /\ tx.consume_count <= tx.produce_count
  /\ tx.produce_count = 2 * Owed + 2 + Queued
  /\ rx.consume_count = 0

Counting(s) == TypeOK /\ Placed /\ Balance(s)

Inductive == \E s \in {0, 1} :
  /\ Counting(s)
  /\ skew = Unknown => Early /\ Ordered(s)

(* The first callback drops a reply. *)
Dropping == OnRXNE /\ SPI1_Rx_Callback

LEMMA UsedTypes ==
  ASSUME TypeOK
  PROVE  /\ Used(tx) \in 0..COUNT_MOD-1 /\ (pc_buffer_empty(tx) <=> Used(tx) = 0)
         /\ Used(rx) \in 0..COUNT_MOD-1 /\ (pc_buffer_empty(rx) <=> Used(rx) = 0)
         /\ Len(txfifo) \in Nat /\ Len(rxfifo) \in Nat
         /\ tx.buffer_SIZE = GYRO_BUF /\ rx.buffer_SIZE = GYRO_BUF
<1>1. /\ Used(tx) \in 0..COUNT_MOD-1 /\ (pc_buffer_empty(tx) <=> Used(tx) = 0)
      /\ Used(rx) \in 0..COUNT_MOD-1 /\ (pc_buffer_empty(rx) <=> Used(rx) = 0)
  BY ConstantsType, UsedType DEF TypeOK
<1>2. Len(txfifo) \in Nat /\ Len(rxfifo) \in Nat
  BY DEF TypeOK
<1>3. tx.buffer_SIZE = GYRO_BUF /\ rx.buffer_SIZE = GYRO_BUF
  BY DEF TypeOK, PC_Buffer
<1> QED
  BY <1>1, <1>2, <1>3

(* A reply that comes finds room, wherever the main thread is. *)
LEMMA Room ==
  ASSUME NEW s \in {0, 1}, Counting(s), Len(rxfifo) >= 2
  PROVE  Used(rx) < GYRO_BUF
<1>1. /\ Used(tx) \in Nat /\ Used(rx) \in Nat /\ Len(txfifo) \in Nat
      /\ Len(rxfifo) \in Nat
  BY ConstantsType, UsedTypes DEF Counting
<1>2. /\ transfer \in -1..REGS-1 /\ taken \in 0..REGS-1 /\ REGS \in Nat \ {0}
  BY ConstantsType DEF Counting, TypeOK, Transfer, Reg, CTRL
<1>3. 2 * Owed + Queued <= 4 * REGS
  BY <1>2 DEF Owed, Queued, Ahead, Counting, Placed
<1>4. 2 + 2 * Used(rx) <= 2 * Owed + Queued + 2 * s
  BY <1>1 DEF Counting, Balance, InFlight
<1>5. Owed \in Int /\ Queued \in Int
  BY <1>2 DEF Owed, Queued, Ahead
<1> QED
  BY <1>1, <1>2, <1>3, <1>4, <1>5, ConstantsType

(* What each step does to the number of bytes in each place. *)
LEMMA QueueByteUsed ==
  ASSUME TypeOK, Used(tx) <= GYRO_BUF, NEW half \in {1, 2}, QueueByte(half)
  PROVE  Used(tx)' = Used(tx) + 1 /\ Used(tx) < GYRO_BUF
<1>1. Used(tx) \in 0..COUNT_MOD-1 /\ Used(tx) # GYRO_BUF
  BY UsedTypes DEF QueueByte, pc_buffer_full
<1>2. [of |-> transfer, half |-> half] \in BusByte
  BY DEF TypeOK, BusByte
<1>3. Used(tx) + 1 < COUNT_MOD
  BY <1>1, ConstantsType
<1>4. Used(tx') = Used(tx) + 1
  BY <1>2, <1>3, ConstantsType, AddType DEF QueueByte, TypeOK
<1> QED
  BY <1>1, <1>4, ConstantsType

LEMMA TakeByteUsed ==
  ASSUME TypeOK, TakeByte
  PROVE  Used(rx)' = Used(rx) - 1 /\ Used(rx) > 0
<1>1. ~pc_buffer_empty(rx)
  BY DEF TakeByte, Arrived
<1>2. Used(rx') = Used(rx) - 1
  BY <1>1, ConstantsType, RemoveType DEF TakeByte, TypeOK
<1> QED
  BY <1>1, <1>2, UsedTypes

LEMMA OnRXNEUsed ==
  ASSUME NEW s \in {0, 1}, Counting(s), OnRXNE
  PROVE  /\ Len(rxfifo)' = Len(rxfifo) - 2 /\ Len(rxfifo) >= 2
         /\ \A b \in 1..Len(rxfifo)-2 : rxfifo'[b] = rxfifo[b + 2]
         /\ ~SPI1_Rx_Callback =>
              /\ rxfifo[2].of \in Transfer
              /\ rx' = pc_buffer_add(rx, rxfifo[2].of)
              /\ Used(rx)' = Used(rx) + 1 /\ Used(rx) < GYRO_BUF
<1>1. rxfifo \in Seq(BusByte) /\ Len(rxfifo) >= 2
  BY DEF OnRXNE, RXNE, Counting, TypeOK
<1>2. rxfifo' = SubSeq(rxfifo, 3, Len(rxfifo))
  BY DEF OnRXNE
<1>3. /\ Len(rxfifo') = Len(rxfifo) - 2
      /\ \A b \in 1..Len(rxfifo)-2 : rxfifo'[b] = rxfifo[b + 2]
  BY <1>1, <1>2, WithoutTwo
<1>4. ASSUME ~SPI1_Rx_Callback
      PROVE  /\ rxfifo[2].of \in Transfer
             /\ rx' = pc_buffer_add(rx, rxfifo[2].of)
             /\ Used(rx)' = Used(rx) + 1 /\ Used(rx) < GYRO_BUF
  <2>1. rxfifo[2].of \in Transfer
    <3>1. rxfifo[2] \in BusByte
      BY <1>1
    <3> QED
      BY <3>1 DEF BusByte
  <2>2. Used(rx) < GYRO_BUF /\ Used(rx) \in Nat
    BY <1>1, Room, UsedTypes, ConstantsType DEF Counting
  <2>3. rx' = pc_buffer_add(rx, rxfifo[2].of)
    <3>1. ~pc_buffer_full(rx)
      BY <2>2, UsedTypes, ConstantsType DEF pc_buffer_full, Counting
    <3> QED
      BY <1>4, <3>1 DEF OnRXNE, gyro_xyz_Callback, AddIfRoom
  <2>4. Used(rx') = Used(rx) + 1
    <3>1. Used(rx) + 1 < COUNT_MOD
      BY <2>2, ConstantsType
    <3>2. rx \in PC_Buffer(Transfer, GYRO_BUF)
      BY DEF Counting, TypeOK
    <3> QED
      BY <2>1, <2>3, <3>1, <3>2, ConstantsType, AddType
  <2> QED
    BY <2>1, <2>2, <2>3, <2>4
<1> QED
  BY <1>1, <1>3, <1>4

LEMMA OnTXEUsed ==
  ASSUME TypeOK, OnTXE
  PROVE  \/ /\ ~pc_buffer_empty(tx)
            /\ tx' = pc_buffer_remove(tx) /\ txfifo' = Append(txfifo, Oldest(tx))
            /\ Oldest(tx) \in BusByte
            /\ Used(tx)' = Used(tx) - 1 /\ Len(txfifo)' = Len(txfifo) + 1
         \/ /\ UNCHANGED <<tx, txfifo>>
            /\ Used(tx)' = Used(tx) /\ Len(txfifo)' = Len(txfifo)
<1>1. CASE ~pc_buffer_empty(tx)
  <2>1. tx' = pc_buffer_remove(tx) /\ txfifo' = Append(txfifo, Oldest(tx))
    BY <1>1 DEF OnTXE, SPI1_Tx_Callback
  <2>2. /\ Used(pc_buffer_remove(tx)) = Used(tx) - 1
        /\ Oldest(tx) \in BusByte
    BY <1>1, ConstantsType, RemoveType DEF TypeOK
  <2>3. Len(Append(txfifo, Oldest(tx))) = Len(txfifo) + 1
    BY <2>2 DEF TypeOK
  <2> QED
    BY <1>1, <2>1, <2>2, <2>3
<1>2. CASE pc_buffer_empty(tx)
  BY <1>2 DEF OnTXE, SPI1_Tx_Callback
<1> QED
  BY <1>1, <1>2

LEMMA ExchangeUsed ==
  ASSUME TypeOK, Exchange
  PROVE  /\ Len(rxfifo)' = Len(rxfifo) + 1 /\ Len(txfifo)' = Len(txfifo) - 1
         /\ Len(txfifo) >= 1
<1>1. txfifo \in Seq(BusByte) /\ rxfifo \in Seq(BusByte) /\ txfifo # << >>
  BY DEF Exchange, TypeOK
<1>2. /\ Len(Tail(txfifo)) = Len(txfifo) - 1 /\ Len(txfifo) >= 1
      /\ Head(txfifo) \in BusByte
  BY <1>1
<1>3. Len(Append(rxfifo, Head(txfifo))) = Len(rxfifo) + 1
  BY <1>1, <1>2
<1> QED
  BY <1>2, <1>3 DEF Exchange

-----------------------------------------------------------------------------
LEMMA CountInit ==
  Init => /\ TypeOK /\ Placed /\ Balance(1) /\ Early /\ Ordered(1)
          /\ Used(tx) = 0 /\ Used(rx) = 0
<1> SUFFICES ASSUME Init
             PROVE  /\ TypeOK /\ Placed /\ Balance(1) /\ Early /\ Ordered(1)
                    /\ Used(tx) = 0 /\ Used(rx) = 0
  OBVIOUS
<1>1. TypeOK
  BY TypeInit
<1>2. Used(tx) = 0 /\ Used(rx) = 0
  BY ConstantsType, InitType DEF Init, TxJunk, RxJunk, BusByte, Transfer
<1>3. Len(txfifo) = 0 /\ Len(rxfifo) = 0
  BY DEF Init
<1>4. Placed
  BY <1>2, ConstantsType DEF Init, Placed, CTRL
<1>5. Owed = -1 /\ Queued = 0
  BY DEF Init, Owed, Ahead, Queued, CTRL
<1>6. Balance(1)
  BY <1>2, <1>3, <1>5 DEF Balance, InFlight, Init
<1>7. Early
  BY <1>5 DEF Early, Init, pc_buffer_init
<1>8. Ordered(1)
  BY <1>2, <1>3 DEF Ordered
<1> QED
  BY <1>1, <1>2, <1>4, <1>6, <1>7, <1>8

(* The first callback drops the stray reply and no other, and nothing else *)
(* is under way then.                                                      *)
LEMMA DropStep ==
  ASSUME NEW s \in {0, 1}, Counting(s), Dropping
  PROVE  /\ (Placed /\ Balance(0))'
         /\ Used(tx)' = 0 /\ Used(rx)' = 0 /\ Len(txfifo)' = 0 /\ Len(rxfifo)' = 0
         /\ Early => Early'
<1>1. /\ UNCHANGED <<pc, transfer, primed, rounds, taken, fun_ptr, tx, rx, txfifo, skew>>
      /\ fun_ptr = "SPI1_Rx_Callback"
  BY DEF Dropping, OnRXNE, SPI1_Rx_Callback, main
<1>2. Len(rxfifo)' = Len(rxfifo) - 2 /\ Len(rxfifo) >= 2
  BY OnRXNEUsed DEF Dropping
<1>3. /\ Used(tx) \in Nat /\ Used(rx) \in Nat /\ Len(txfifo) \in Nat
      /\ Len(rxfifo) \in Nat
  BY ConstantsType, UsedTypes DEF Counting
<1>4. 2 * Owed + Queued \in {-2, -1, 0} /\ Owed \in Int /\ Queued \in Int
  BY <1>1, ConstantsType
  DEF Counting, Placed, TypeOK, Owed, Ahead, Queued, Transfer, Reg, CTRL
<1>5. InFlight + 2 * Used(rx) = 2 * Owed + Queued + 2 * s
  BY DEF Counting, Balance
<1>6. /\ s = 1 /\ Used(tx) = 0 /\ Used(rx) = 0 /\ Len(txfifo) = 0
      /\ Len(rxfifo) = 2 /\ 2 * Owed + Queued = 0
  BY <1>2, <1>3, <1>4, <1>5 DEF InFlight
<1>7. Used(tx)' = 0 /\ Used(rx)' = 0 /\ Len(txfifo)' = 0 /\ Len(rxfifo)' = 0
  BY <1>1, <1>2, <1>6
<1>8. Owed' = Owed /\ Queued' = Queued
  BY <1>1 DEF Owed, Queued, Ahead
<1>9. Placed'
  BY <1>1 DEF Counting, Placed
<1>10. skew = Unknown
  BY <1>1 DEF Counting, Placed
<1>11. Balance(0)'
  BY <1>1, <1>4, <1>6, <1>7, <1>8, <1>10 DEF Balance, InFlight
<1>12. Early => Early'
  BY <1>1, <1>8 DEF Early
<1> QED
  BY <1>7, <1>9, <1>11, <1>12

(* Until a value is taken, the first that waits tells what strays. *)
LEMMA FirstStrays ==
  ASSUME NEW s \in {0, 1}, Counting(s), Ordered(s), skew = Unknown, Used(rx) > 0
  PROVE  Oldest(rx) = CTRL <=> s = 1
<1>1. TypeOK /\ taken = 0 /\ Used(rx) \in Nat /\ REGS \in Nat \ {0} /\ CTRL = -1
  BY ConstantsType, UsedTypes DEF Counting, Placed, CTRL
<1>2. Oldest(rx) = Head(Contents(rx)) /\ Contents(rx) # << >>
  BY <1>1, ConstantsType, UsedTypes, RemoveContents DEF TypeOK
<1>3. Contents(rx) \in Seq(Transfer)
  BY <1>1, ConstantsType, ContentsType DEF TypeOK
<1>4. Head(Contents(rx)) = Contents(rx)[1]
  BY <1>2, <1>3
<1>5. Contents(rx)[1] = Expected(s, 1)
  BY <1>1 DEF Ordered
<1>6. CASE s = 1
  BY <1>2, <1>4, <1>5, <1>6 DEF Expected
<1>7. CASE s = 0
  <2>1. Expected(s, 1) = 0 % REGS /\ 0 % REGS = 0
    BY <1>1, <1>7 DEF Expected
  <2> QED
    BY <1>1, <1>2, <1>4, <1>5, <1>7, <2>1
<1> QED
  BY <1>6, <1>7

(* No other step changes what strays. *)
LEMMA CountStep ==
  ASSUME NEW s \in {0, 1}, Counting(s), [Next]_vars, ~Dropping,
         skew = Unknown => Early /\ Ordered(s)
  PROVE  /\ (Placed /\ Balance(s))'
         /\ skew' = Unknown => skew = Unknown /\ Early'
<1>1. /\ TypeOK /\ Placed /\ Balance(s)
      /\ Used(tx) \in Nat /\ Used(rx) \in Nat /\ Len(txfifo) \in Nat
      /\ Len(rxfifo) \in Nat
  BY ConstantsType, UsedTypes DEF Counting
<1>2. /\ transfer \in -1..REGS-1 /\ taken \in 0..REGS-1 /\ primed \in BOOLEAN
      /\ rounds \in 0..CALIBRATE_NUM /\ REGS \in Nat \ {0} /\ CTRL = -1
      /\ skew \in {-1, 0, 1} /\ Unknown = -1 /\ CALIBRATE_NUM \in Nat \ {0}
  BY <1>1, ConstantsType DEF TypeOK, Transfer, Reg, CTRL, Unknown
<1>3. /\ Ahead \in {0, REGS} /\ Owed \in Int /\ Queued \in Int
  BY <1>2 DEF Owed, Queued, Ahead
<1>4. ASSUME NEW half \in {1, 2}, QueueByte(half),
             \/ pc = "address" /\ pc' = "data"
             \/ pc = "data" /\ pc' = "enable"
      PROVE  /\ (Placed /\ Balance(s))'
             /\ skew' = Unknown => skew = Unknown /\ Early'
  <2>1. Used(tx)' = Used(tx) + 1 /\ Used(tx) < GYRO_BUF
    BY <1>1, <1>4, QueueByteUsed DEF Placed
  <2>2. UNCHANGED <<transfer, primed, rounds, taken, fun_ptr, rx, txfifo, rxfifo, skew>>
    BY <1>4 DEF QueueByte, bus
  <2>3. Used(rx)' = Used(rx) /\ Len(txfifo)' = Len(txfifo) /\ Len(rxfifo)' = Len(rxfifo)
    BY <2>2
  <2>4. Owed' = Owed /\ Queued' = Queued + 1 /\ Queued \in {0, 1}
    BY <1>4, <2>2 DEF Owed, Ahead, Queued
  <2>5. InFlight' = InFlight + 1 /\ InFlight \in Nat
    BY <1>1, <2>1, <2>3 DEF InFlight
  <2>6. Balance(s)'
    BY <1>1, <1>3, <2>2, <2>3, <2>4, <2>5 DEF Balance
  <2>7. Placed'
    BY <1>1, <1>4, <2>1, <2>2, ConstantsType DEF Placed
  <2>8. ASSUME skew = Unknown PROVE Early'
    <3>1. tx.consume_count <= tx.produce_count /\ tx.produce_count = 2 * Owed + 2 + Queued
      BY <2>8 DEF Early
    <3>2. Owed <= 2 * REGS - 1
      BY <1>2, <1>3, <1>4 DEF Owed
    <3>3. tx.produce_count \in 0..COUNT_MOD-1 /\ tx.consume_count \in 0..COUNT_MOD-1
      BY <1>1 DEF TypeOK, PC_Buffer
    <3>4. tx.produce_count + 1 < COUNT_MOD
      BY <1>3, <2>4, <3>1, <3>2, ConstantsType
    <3>5. (tx.produce_count + 1) % COUNT_MOD = tx.produce_count + 1
      BY <3>3, <3>4, ConstantsType
    <3>6. tx'.produce_count = tx.produce_count + 1 /\ tx'.consume_count = tx.consume_count
      BY <1>1, <1>4, <3>5 DEF QueueByte, pc_buffer_add, TypeOK, PC_Buffer
    <3> QED
      BY <1>3, <2>2, <2>4, <2>8, <3>1, <3>3, <3>6 DEF Early
  <2> QED
    BY <2>2, <2>6, <2>7, <2>8
<1>5. ASSUME SpiOff
      PROVE  /\ (Placed /\ Balance(s))'
             /\ skew' = Unknown => skew = Unknown /\ Early'
  <2>1. /\ UNCHANGED <<rounds, taken, fun_ptr, tx, rx, txfifo, rxfifo, skew>>
        /\ pc = "off" /\ taken = 0
    BY <1>1, <1>5 DEF SpiOff, bus, Placed
  <2>2. /\ Used(rx)' = Used(rx) /\ Len(txfifo)' = Len(txfifo)
        /\ Len(rxfifo)' = Len(rxfifo) /\ Used(tx)' = Used(tx)
    BY <2>1
  <2>3. Placed' /\ Owed' = Owed + 1 /\ Queued = 2 /\ Queued' = 0
    <3>1. CASE transfer # CTRL /\ transfer < REGS - 1
      <4>1. /\ pc' = "on" /\ transfer' = transfer + 1 /\ primed' = primed
        BY <1>2, <1>5, <3>1 DEF SpiOff, AfterTransfer
      <4>2. transfer + 1 # CTRL /\ fun_ptr # "SPI1_Rx_Callback"
        BY <1>1, <1>2, <2>1, <3>1 DEF Placed
      <4> QED
        BY <1>1, <1>2, <2>1, <2>2, <4>1, <4>2 DEF Placed, Owed, Ahead, Queued
    <3>2. CASE transfer = CTRL
      <4>1. /\ pc' = "poll" /\ transfer' = 0 /\ primed' = primed /\ ~primed
        BY <1>1, <1>2, <1>5, <3>2 DEF SpiOff, AfterTransfer, Placed
      <4> QED
        BY <1>1, <1>2, <2>1, <2>2, <3>2, <4>1 DEF Placed, Owed, Ahead, Queued
    <3>3. CASE transfer = REGS - 1
      <4>1. /\ transfer' = 0 /\ primed' = TRUE
            /\ fun_ptr # "SPI1_Rx_Callback" /\ transfer # CTRL
        <5>1. transfer # CTRL
          BY <1>2, <3>3
        <5>2. transfer' = 0
          BY <1>5, <3>3 DEF SpiOff
        <5>3. primed' = TRUE
          BY <1>5, <3>3 DEF SpiOff
        <5>4. fun_ptr # "SPI1_Rx_Callback"
          BY <1>1, <2>1, <5>1 DEF Placed
        <5> QED
          BY <5>1, <5>2, <5>3, <5>4
      <4>2. CASE ~primed
        <5>1. pc' = "poll" /\ rounds = 0
          BY <1>1, <1>2, <1>5, <3>3, <4>1, <4>2 DEF SpiOff, AfterTransfer, Placed
        <5> QED
          BY <1>1, <1>2, <2>1, <2>2, <3>3, <4>1, <4>2, <5>1
          DEF Placed, Owed, Ahead, Queued
      <4>3. CASE primed
        <5>1. pc' = IF rounds < CALIBRATE_NUM THEN "take" ELSE "idle"
          BY <1>1, <1>2, <1>5, <3>3, <4>1, <4>3 DEF SpiOff, AfterTransfer
        <5> QED
          BY <1>1, <1>2, <2>1, <2>2, <3>3, <4>1, <4>3, <5>1
          DEF Placed, Owed, Ahead, Queued
      <4> QED
        BY <4>2, <4>3
    <3> QED
      BY <1>2, <3>1, <3>2, <3>3
  <2>4. Balance(s)'
    BY <1>1, <1>3, <2>1, <2>2, <2>3 DEF Balance, InFlight
  <2>5. Early => Early'
    BY <1>3, <2>1, <2>3 DEF Early
  <2> QED
    BY <2>1, <2>3, <2>4, <2>5
<1>6. ASSUME StartPoll
      PROVE  /\ (Placed /\ Balance(s))'
             /\ skew' = Unknown => skew = Unknown /\ Early'
  <2>1. /\ UNCHANGED <<transfer, primed, rounds, taken, tx, rx, txfifo, rxfifo, skew>>
        /\ pc = "poll" /\ pc' = "on" /\ fun_ptr' = "gyro_xyz_Callback"
        /\ transfer = 0 /\ taken = 0
    BY <1>1, <1>6 DEF StartPoll, bus, Placed
  <2>2. Owed' = Owed /\ Queued' = Queued
    BY <2>1 DEF Owed, Ahead, Queued
  <2>3. Placed'
    BY <1>1, <1>2, <2>1 DEF Placed
  <2>4. Balance(s)' /\ (Early => Early')
    BY <1>1, <2>1, <2>2 DEF Balance, InFlight, Early
  <2> QED
    BY <2>1, <2>3, <2>4
<1>7. ASSUME TakeByte
      PROVE  /\ (Placed /\ Balance(s))'
             /\ skew' = Unknown => skew = Unknown /\ Early'
  <2>1. /\ UNCHANGED <<transfer, primed, fun_ptr, tx, txfifo, rxfifo>>
        /\ pc = "take" /\ transfer = 0 /\ primed
        /\ taken' = (taken + 1) % REGS
    BY <1>1, <1>7 DEF TakeByte, bus, Placed
  <2>2. /\ Used(rx)' = Used(rx) - 1 /\ Used(rx) > 0 /\ Len(txfifo)' = Len(txfifo)
        /\ Len(rxfifo)' = Len(rxfifo) /\ Used(tx)' = Used(tx)
    BY <1>1, <1>7, <2>1, TakeByteUsed
  <2>3. skew' = s /\ skew' # Unknown
    <3>1. CASE skew # Unknown
      BY <1>1, <1>2, <1>7, <3>1 DEF TakeByte, Balance
    <3>2. CASE skew = Unknown
      <4>1. Oldest(rx) = CTRL <=> s = 1
        BY <2>2, <3>2, FirstStrays
      <4>2. skew' = IF Oldest(rx) = CTRL THEN 1 ELSE 0
        BY <1>7, <3>2 DEF TakeByte
      <4> QED
        BY <1>2, <4>1, <4>2
    <3> QED
      BY <3>1, <3>2
  <2>4. /\ Placed' /\ Owed' = Owed - 1 /\ Queued = 0 /\ Queued' = 0
    <3>1. CASE taken < REGS - 1
      <4>1. UNCHANGED <<pc, rounds>> /\ taken' = taken + 1
        BY <1>2, <1>7, <2>1, <3>1 DEF TakeByte
      <4> QED
        BY <1>1, <1>2, <2>1, <2>2, <2>3, <4>1 DEF Placed, Owed, Ahead, Queued
    <3>2. CASE taken = REGS - 1
      <4>1. /\ rounds' = IF rounds < CALIBRATE_NUM THEN rounds + 1 ELSE rounds
            /\ pc' = IF rounds = CALIBRATE_NUM - 1 THEN "idle" ELSE "poll"
        BY <1>2, <1>7, <3>2 DEF TakeByte
      <4>2. taken' = 0
        BY <1>2, <2>1, <3>2
      <4> QED
        BY <1>1, <1>2, <2>1, <2>2, <2>3, <3>2, <4>1, <4>2
        DEF Placed, Owed, Ahead, Queued
    <3> QED
      BY <1>2, <3>1, <3>2
  <2>5. Balance(s)'
    BY <1>1, <1>3, <2>1, <2>2, <2>3, <2>4 DEF Balance, InFlight
  <2> QED
    BY <2>3, <2>4, <2>5
<1>8. ASSUME getGyroXYZ
      PROVE  /\ (Placed /\ Balance(s))'
             /\ skew' = Unknown => skew = Unknown /\ Early'
  <2>1. /\ UNCHANGED <<transfer, primed, rounds, taken, fun_ptr, tx, rx, txfifo, rxfifo, skew>>
        /\ pc = "idle" /\ pc' = "take" /\ transfer = 0 /\ taken = 0
        /\ primed /\ rounds = CALIBRATE_NUM
    BY <1>1, <1>8 DEF getGyroXYZ, bus, Placed
  <2>2. Owed' = Owed /\ Queued' = Queued
    BY <1>2, <2>1 DEF Owed, Ahead, Queued
  <2>3. Placed' /\ skew # Unknown
    BY <1>1, <1>2, <2>1 DEF Placed
  <2>4. Balance(s)'
    BY <1>1, <2>1, <2>2 DEF Balance, InFlight
  <2> QED
    BY <2>1, <2>3, <2>4
<1>9. ASSUME OnRXNE
      PROVE  /\ (Placed /\ Balance(s))'
             /\ skew' = Unknown => skew = Unknown /\ Early'
  <2>1. /\ UNCHANGED <<pc, transfer, primed, rounds, taken, fun_ptr, tx, txfifo, skew>>
    BY <1>9 DEF OnRXNE, main
  <2>2. /\ Used(rx)' = Used(rx) + 1 /\ Len(rxfifo)' = Len(rxfifo) - 2
        /\ rx' = pc_buffer_add(rx, rxfifo[2].of)
    BY <1>9, OnRXNEUsed DEF Dropping
  <2>3. /\ Len(txfifo)' = Len(txfifo) /\ Used(tx)' = Used(tx)
        /\ Owed' = Owed /\ Queued' = Queued
    BY <2>1 DEF Owed, Ahead, Queued
  <2>4. Placed'
    BY <1>1, <2>1, <2>3 DEF Placed
  <2>5. Balance(s)'
    BY <1>1, <1>3, <2>1, <2>2, <2>3 DEF Balance, InFlight
  <2>6. rx'.consume_count = rx.consume_count
    BY <1>1, <2>2 DEF pc_buffer_add, TypeOK, PC_Buffer
  <2>7. Early => Early'
    BY <2>1, <2>3, <2>6 DEF Early
  <2> QED
    BY <2>1, <2>4, <2>5, <2>7
<1>10. ASSUME OnTXE
       PROVE  /\ (Placed /\ Balance(s))'
              /\ skew' = Unknown => skew = Unknown /\ Early'
  <2>1. /\ UNCHANGED <<pc, transfer, primed, rounds, taken, fun_ptr, rx, rxfifo, skew>>
    BY <1>10 DEF OnTXE, main
  <2>2. /\ Len(rxfifo)' = Len(rxfifo) /\ Used(rx)' = Used(rx)
        /\ Owed' = Owed /\ Queued' = Queued
    BY <2>1 DEF Owed, Ahead, Queued
  <2>3. /\ InFlight' = InFlight /\ Used(tx)' \in {Used(tx), Used(tx) - 1}
    <3>1. \/ Used(tx)' = Used(tx) - 1 /\ Len(txfifo)' = Len(txfifo) + 1
          \/ Used(tx)' = Used(tx) /\ Len(txfifo)' = Len(txfifo)
      BY <1>1, <1>10, OnTXEUsed
    <3> QED
      BY <1>1, <2>2, <3>1 DEF InFlight
  <2>4. Placed'
    BY <1>1, <2>1, <2>3, ConstantsType DEF Placed
  <2>5. Balance(s)'
    BY <1>1, <2>1, <2>2, <2>3 DEF Balance
  <2>6. ASSUME Early PROVE Early'
    <3>1. CASE UNCHANGED <<tx, txfifo>>
      BY <2>1, <2>2, <2>6, <3>1 DEF Early
    <3>2. CASE ~pc_buffer_empty(tx) /\ tx' = pc_buffer_remove(tx)
      <4>1. /\ tx.produce_count \in 0..COUNT_MOD-1 /\ tx.consume_count \in 0..COUNT_MOD-1
            /\ tx.consume_count < tx.produce_count
        BY <1>1, <2>6, <3>2 DEF TypeOK, PC_Buffer, Early, pc_buffer_empty
      <4>2. (tx.consume_count + 1) % COUNT_MOD = tx.consume_count + 1
        BY <4>1, ConstantsType
      <4>3. /\ tx'.produce_count = tx.produce_count
            /\ tx'.consume_count = tx.consume_count + 1
        BY <1>1, <3>2, <4>2 DEF pc_buffer_remove, TypeOK, PC_Buffer
      <4> QED
        BY <2>1, <2>2, <2>6, <4>1, <4>3 DEF Early
    <3> QED
      BY <1>1, <1>10, <3>1, <3>2, OnTXEUsed
  <2> QED
    BY <2>1, <2>4, <2>5, <2>6
<1>11. ASSUME Exchange
       PROVE  /\ (Placed /\ Balance(s))'
              /\ skew' = Unknown => skew = Unknown /\ Early'
  <2>1. /\ UNCHANGED <<pc, transfer, primed, rounds, taken, fun_ptr, tx, rx, skew>>
    BY <1>11 DEF Exchange, main
  <2>2. /\ Used(tx)' = Used(tx) /\ Used(rx)' = Used(rx)
        /\ Owed' = Owed /\ Queued' = Queued
    BY <2>1 DEF Owed, Ahead, Queued
  <2>3. InFlight' = InFlight
    BY <1>1, <1>11, <2>2, ExchangeUsed DEF InFlight
  <2>4. Placed' /\ Balance(s)' /\ (Early => Early')
    BY <1>1, <2>1, <2>2, <2>3 DEF Placed, Balance, Early
  <2> QED
    BY <2>1, <2>4
<1>12. ASSUME UNCHANGED vars
       PROVE  /\ (Placed /\ Balance(s))'
              /\ skew' = Unknown => skew = Unknown /\ Early'
  <2>1. UNCHANGED <<pc, transfer, primed, rounds, taken, fun_ptr, tx, rx, txfifo, rxfifo, skew>>
    BY <1>12 DEF vars, main, bus
  <2>2. Placed' /\ Balance(s)' /\ (Early => Early')
    BY <1>1, <2>1 DEF Placed, Balance, Early, InFlight, Owed, Ahead, Queued
  <2> QED
    BY <2>1, <2>2
<1>13. ASSUME SpiOn \/ EnableTXE
       PROVE  /\ (Placed /\ Balance(s))'
              /\ skew' = Unknown => skew = Unknown /\ Early'
  <2>1. /\ UNCHANGED <<transfer, primed, rounds, taken, fun_ptr, tx, rx, txfifo, rxfifo, skew>>
        /\ \/ pc = "on" /\ pc' = "address"
           \/ pc = "enable" /\ pc' = "off"
    BY <1>13 DEF SpiOn, EnableTXE, bus
  <2>2. Owed' = Owed /\ Queued' = Queued
    BY <2>1 DEF Owed, Ahead, Queued
  <2>3. Placed'
    BY <1>1, <2>1 DEF Placed
  <2>4. Balance(s)' /\ (Early => Early')
    BY <1>1, <2>1, <2>2 DEF Balance, InFlight, Early
  <2> QED
    BY <2>1, <2>3, <2>4
<1> QED
  BY <1>4, <1>5, <1>6, <1>7, <1>8, <1>9, <1>10, <1>11, <1>12, <1>13
  DEF Next, Driver, gyro_write, WriteAddress, WriteData, SPI1_Handler

-----------------------------------------------------------------------------
(* Bytes come in pairs. *)
LEMMA Halves ==
  ASSUME NEW b \in Nat
  PROVE  /\ b >= 1 => (b + 1) \div 2 \in Nat \ {0}
         /\ ((b + 2) + 1) \div 2 = ((b + 1) \div 2) + 1
         /\ (b + 2) % 2 = b % 2
OBVIOUS

LEMMA NextRegister ==
  ASSUME NEW m \in Nat \ {0}, NEW n \in 0..m-1, NEW b \in Int
  PROVE  (((n + 1) % m) + b) % m = (n + 1 + b) % m
<1>1. CASE n + 1 < m
  BY <1>1
<1>2. CASE n + 1 = m
  <2> DEFINE q == b \div m
             r == b % m
  <2>1. b = m * q + r /\ q \in Int /\ r \in 0..m-1
    BY Quotient
  <2>2. (m + b) % m = r
    <3> HIDE DEF q, r
    <3>1. m + b = m * (q + 1) + r /\ q + 1 \in Int
      BY <2>1
    <3> QED
      BY <2>1, <3>1, Remainder
  <2>3. (n + 1) % m = 0
    BY <1>2
  <2> QED
    BY <1>2, <2>2, <2>3
<1> QED
  BY <1>1, <1>2

(* The byte being queued is the next of the order. *)
LEMMA QueuedInOrder ==
  ASSUME NEW s \in {0, 1}, Counting(s), NEW half \in {1, 2},
         pc = IF half = 1 THEN "address" ELSE "data"
  PROVE  /\ ByteAt(s, InFlight + 1) = [of |-> transfer, half |-> half]
         /\ InFlight \in Nat
<1> DEFINE m == Owed + s - Used(rx)
<1>1. /\ TypeOK /\ Placed /\ Balance(s)
      /\ Used(tx) \in Nat /\ Used(rx) \in Nat /\ Len(txfifo) \in Nat
      /\ Len(rxfifo) \in Nat
  BY ConstantsType, UsedTypes DEF Counting
<1>2. /\ transfer \in -1..REGS-1 /\ taken = 0 /\ REGS \in Nat \ {0} /\ CTRL = -1
      /\ Ahead \in {0, REGS} /\ Owed = Ahead + transfer /\ Queued = half - 1
  BY <1>1, ConstantsType DEF TypeOK, Transfer, Reg, CTRL, Ahead, Owed, Queued, Placed
<1>3. /\ InFlight \in Nat /\ InFlight = 2 * m + half - 1 /\ m \in Int
      /\ InFlight + 2 * Used(rx) = 2 * Owed + (half - 1) + 2 * s
  <2>1. InFlight \in Nat
    BY <1>1 DEF InFlight
  <2>2. InFlight + 2 * Used(rx) = 2 * Owed + (half - 1) + 2 * s
    BY <1>1, <1>2 DEF Balance
  <2>3. Owed \in Int /\ Used(rx) \in Int /\ half \in Int /\ s \in Int
    BY <1>1, <1>2
  <2>4. InFlight = 2 * m + half - 1 /\ m \in Int
    <3> DEFINE u == Used(rx)
               f == InFlight
               o == Owed
    <3>1. f \in Int /\ o \in Int /\ u \in Int /\ f + 2 * u = 2 * o + (half - 1) + 2 * s
      BY <2>1, <2>2, <2>3
    <3> HIDE DEF u, f, o
    <3>2. f = 2 * (o + s - u) + half - 1 /\ o + s - u \in Int
      BY <2>3, <3>1
    <3> QED
      BY <3>2 DEF u, f, o
  <2> QED
    BY <2>1, <2>2, <2>4
<1>4. ((InFlight + 1 + 1) \div 2) = m + 1 /\ 2 - ((InFlight + 1) % 2) = half
  <2> HIDE DEF m
  <2>1. CASE half = 1
    <3>1. InFlight = 2 * m
      BY <1>3, <2>1
    <3> QED
      BY <1>3, <2>1, <3>1
  <2>2. CASE half = 2
    <3>1. InFlight = 2 * m + 1
      BY <1>3, <2>2
    <3> QED
      BY <1>3, <2>2, <3>1
  <2> QED
    BY <2>1, <2>2
<1>5. Used(rx) + (m + 1) = Owed + s + 1
  BY <1>1, <1>2
<1>6. Expected(s, Owed + s + 1) = transfer
  <2>1. CASE transfer = CTRL
    <3>1. skew = Unknown /\ Ahead = 0 /\ Owed = -1
      BY <1>1, <1>2, <2>1 DEF Placed, Ahead
    <3>2. s = 1
      <4>1. InFlight + 2 * Used(rx) >= 0
        BY <1>1, <1>3
      <4>2. -2 + (half - 1) + 2 * s >= 0
        BY <1>3, <3>1, <4>1
      <4> QED
        BY <4>2
    <3> QED
      BY <2>1, <3>1, <3>2 DEF Expected
  <2>2. CASE transfer # CTRL
    <3>1. Owed >= 0 /\ Owed \in Int
      BY <1>2, <2>2
    <3>2. Expected(s, Owed + s + 1) = (taken + (Owed + s + 1) - 1 - s) % REGS
      BY <3>1 DEF Expected
    <3>3. taken + (Owed + s + 1) - 1 - s = Ahead + transfer
      BY <1>2, <3>1
    <3>4. (Ahead + transfer) % REGS = transfer
      BY <1>2, <2>2
    <3> QED
      BY <3>2, <3>3, <3>4
  <2> QED
    BY <2>1, <2>2
<1> QED
  BY <1>3, <1>4, <1>5, <1>6 DEF ByteAt

(* What is in flight is in the order of the registers, and stays so as     *)
(* long as the buffers are straight.                                       *)
LEMMA OrderStep ==
  ASSUME NEW s \in {0, 1}, Counting(s), Ordered(s), Straight(tx), Straight(rx),
         [Next]_vars, ~Dropping
  PROVE  Ordered(s)'
<1>1. /\ TypeOK /\ Placed /\ Balance(s)
      /\ Used(tx) \in Nat /\ Used(rx) \in Nat /\ Len(txfifo) \in Nat
      /\ Len(rxfifo) \in Nat
  BY ConstantsType, UsedTypes DEF Counting
<1>2. /\ tx \in PC_Buffer(BusByte, GYRO_BUF) /\ rx \in PC_Buffer(Transfer, GYRO_BUF)
      /\ txfifo \in Seq(BusByte) /\ rxfifo \in Seq(BusByte)
      /\ Contents(tx) \in Seq(BusByte) /\ Len(Contents(tx)) = Used(tx)
      /\ Contents(rx) \in Seq(Transfer) /\ Len(Contents(rx)) = Used(rx)
  BY <1>1, ConstantsType, ContentsType DEF TypeOK
<1>3. /\ \A k \in 1..Used(rx) : Contents(rx)[k] = Expected(s, k)
      /\ \A b \in 1..Len(rxfifo) : rxfifo[b] = ByteAt(s, b)
      /\ \A b \in 1..Len(txfifo) : txfifo[b] = ByteAt(s, Len(rxfifo) + b)
      /\ \A b \in 1..Used(tx) :
           Contents(tx)[b] = ByteAt(s, Len(rxfifo) + Len(txfifo) + b)
  BY DEF Ordered
<1> DEFINE NewExpected(k) ==
             IF skew' = Unknown /\ s = 1 /\ k = 1 THEN CTRL
             ELSE (taken' + k - 1 - s) % REGS
           NewByte(b) ==
             [of |-> NewExpected(Used(rx)' + ((b + 1) \div 2)), half |-> 2 - (b % 2)]
           lr == Len(rxfifo)
           lt == Len(txfifo)
<1>12. ASSUME \A k \in 1..Used(rx)' : Contents(rx)'[k] = NewExpected(k),
              \A b \in 1..lr' : rxfifo'[b] = NewByte(b),
              \A b \in 1..lt' : txfifo'[b] = NewByte(lr' + b),
              \A b \in 1..Used(tx)' : Contents(tx)'[b] = NewByte(lr' + lt' + b)
       PROVE  Ordered(s)'
  BY <1>12 DEF Ordered, ByteAt, Expected
<1> HIDE DEF NewExpected, NewByte
<1>4. ASSUME UNCHANGED <<taken, skew, tx, rx, txfifo, rxfifo>>
      PROVE  Ordered(s)'
  BY <1>3, <1>4 DEF Ordered, ByteAt, Expected
<1>5. ASSUME NEW half \in {1, 2}, QueueByte(half),
             pc = IF half = 1 THEN "address" ELSE "data"
      PROVE  Ordered(s)'
  <2> DEFINE new == [of |-> transfer, half |-> half]
  <2>1. Used(tx)' = Used(tx) + 1 /\ Used(tx) < GYRO_BUF
    BY <1>1, <1>5, QueueByteUsed DEF Placed
  <2>2. new \in BusByte
    BY <1>1 DEF TypeOK, BusByte
  <2>3. Contents(tx)' = Append(Contents(tx), new)
    <3>1. Contents(pc_buffer_add(tx, new)) = Append(Contents(tx), new)
      BY <1>2, <2>1, <2>2, ConstantsType, AddContents
    <3> QED
      BY <1>5, <3>1 DEF QueueByte
  <2>4. ByteAt(s, InFlight + 1) = new
    BY <1>5, QueuedInOrder
  <2>5. UNCHANGED <<taken, skew, rx, txfifo, rxfifo>>
    BY <1>5 DEF QueueByte, bus
  <2>6. \A b \in 1..Used(tx)+1 :
          Append(Contents(tx), new)[b] = ByteAt(s, Len(rxfifo) + Len(txfifo) + b)
    <3> HIDE DEF new
    <3>1. ASSUME NEW b \in 1..Used(tx)
          PROVE  Append(Contents(tx), new)[b] = ByteAt(s, Len(rxfifo) + Len(txfifo) + b)
      BY <1>1, <1>2, <1>3, <2>2
    <3>2. Append(Contents(tx), new)[Used(tx) + 1] = new
      BY <1>1, <1>2, <2>2
    <3>3. Len(rxfifo) + Len(txfifo) + (Used(tx) + 1) = InFlight + 1
      BY <1>1 DEF InFlight
    <3>4. ASSUME NEW b \in 1..Used(tx)+1
          PROVE  Append(Contents(tx), new)[b] = ByteAt(s, Len(rxfifo) + Len(txfifo) + b)
      <4>1. b \in 1..Used(tx) \/ b = Used(tx) + 1
        BY <1>1
      <4> QED
        BY <2>4, <3>1, <3>2, <3>3, <4>1
    <3> QED
      BY <3>4
  <2>7. \A b : NewByte(b) = ByteAt(s, b) /\ NewExpected(b) = Expected(s, b)
    BY <2>5 DEF ByteAt, Expected, NewByte, NewExpected
  <2> HIDE DEF new
  <2> QED
    BY <1>3, <1>12, <2>1, <2>3, <2>5, <2>6, <2>7
<1>6. ASSUME TakeByte PROVE Ordered(s)'
  <2>1. Used(rx)' = Used(rx) - 1 /\ Used(rx) > 0
    BY <1>1, <1>6, TakeByteUsed
  <2>2. Contents(rx)' = Tail(Contents(rx)) /\ Contents(rx) # << >>
    <3>1. Contents(pc_buffer_remove(rx)) = Tail(Contents(rx)) /\ Contents(rx) # << >>
      BY <1>2, <1>6, ConstantsType, RemoveContents DEF TakeByte, Arrived
    <3> QED
      BY <1>6, <3>1 DEF TakeByte
  <2>3. UNCHANGED <<tx, txfifo, rxfifo>> /\ taken' = (taken + 1) % REGS
    BY <1>6 DEF TakeByte, bus
  <2>4. skew' # Unknown
    BY <1>6 DEF TakeByte, Unknown
  <2>5. ASSUME NEW k \in Nat \ {0} PROVE NewExpected(k) = Expected(s, k + 1)
    <3>1. taken \in 0..REGS-1 /\ REGS \in Nat \ {0}
      BY <1>1, ConstantsType DEF TypeOK, Reg
    <3>2. (((taken + 1) % REGS) + (k - 1 - s)) % REGS = (taken + 1 + (k - 1 - s)) % REGS
      <4>1. k - 1 - s \in Int
        OBVIOUS
      <4> QED
        BY <3>1, <4>1, NextRegister
    <3>3. taken + 1 + (k - 1 - s) = taken + (k + 1) - 1 - s
      BY <3>1
    <3>4. ((taken + 1) % REGS) + (k - 1 - s) = ((taken + 1) % REGS) + k - 1 - s
      BY <3>1, StepUp
    <3>5. NewExpected(k) = (((taken + 1) % REGS) + k - 1 - s) % REGS
      BY <2>3, <2>4 DEF NewExpected
    <3>6. Expected(s, k + 1) = (taken + (k + 1) - 1 - s) % REGS
      BY DEF Expected
    <3> QED
      BY <3>2, <3>3, <3>4, <3>5, <3>6
  <2>6. ASSUME NEW b \in Nat \ {0} PROVE NewByte(b) = ByteAt(s, b)
    <3>1. (b + 1) \div 2 \in Nat \ {0}
      BY Halves
    <3> DEFINE h == (b + 1) \div 2
    <3> HIDE DEF h
    <3>2. Used(rx)' + h \in Nat \ {0} /\ Used(rx)' + h + 1 = Used(rx) + h
      BY <1>1, <2>1, <3>1 DEF h
    <3>3. NewExpected(Used(rx)' + h) = Expected(s, Used(rx) + h)
      BY <2>5, <3>2
    <3> QED
      BY <3>3 DEF ByteAt, NewByte, h
  <2>7. ASSUME NEW k \in 1..Used(rx)-1
        PROVE  Tail(Contents(rx))[k] = NewExpected(k)
    <3>1. Tail(Contents(rx))[k] = Contents(rx)[k + 1]
      BY <1>1, <1>2, <2>2
    <3>2. k \in Nat \ {0} /\ k + 1 \in 1..Used(rx)
      BY <1>1
    <3> QED
      BY <1>3, <2>5, <3>1, <3>2
  <2>8. ASSUME NEW b \in 1..lr' PROVE rxfifo'[b] = NewByte(b)
    <3>1. b \in Nat \ {0} /\ b \in 1..lr
      BY <1>1, <2>3
    <3> QED
      BY <1>3, <2>3, <2>6, <3>1
  <2>9. ASSUME NEW b \in 1..lt' PROVE txfifo'[b] = NewByte(lr' + b)
    <3>1. b \in 1..lt /\ lr' + b \in Nat \ {0} /\ lr' = lr
      BY <1>1, <2>3
    <3>2. NewByte(lr' + b) = ByteAt(s, lr + b)
      BY <2>6, <3>1
    <3> QED
      BY <1>3, <2>3, <3>1, <3>2
  <2>10. ASSUME NEW b \in 1..Used(tx)' PROVE Contents(tx)'[b] = NewByte(lr' + lt' + b)
    <3>1. /\ b \in 1..Used(tx) /\ lr' + lt' + b \in Nat \ {0} /\ lr' = lr /\ lt' = lt
      BY <1>1, <2>3
    <3>2. NewByte(lr' + lt' + b) = ByteAt(s, lr + lt + b)
      BY <2>6, <3>1
    <3> QED
      BY <1>3, <2>3, <3>1, <3>2
  <2>11. \A k \in 1..Used(rx)' : Contents(rx)'[k] = NewExpected(k)
    BY <2>1, <2>2, <2>7
  <2> QED
    BY <1>12, <2>8, <2>9, <2>10, <2>11
<1>7. ASSUME OnRXNE PROVE Ordered(s)'
  <2>1. /\ Len(rxfifo)' = Len(rxfifo) - 2 /\ Len(rxfifo) >= 2
        /\ \A b \in 1..Len(rxfifo)-2 : rxfifo'[b] = rxfifo[b + 2]
        /\ rxfifo[2].of \in Transfer
        /\ rx' = pc_buffer_add(rx, rxfifo[2].of)
        /\ Used(rx)' = Used(rx) + 1 /\ Used(rx) < GYRO_BUF
    BY <1>7, OnRXNEUsed DEF Dropping
  <2>2. UNCHANGED <<taken, skew, tx, txfifo>>
    BY <1>7 DEF OnRXNE, main
  <2>3. Contents(rx)' = Append(Contents(rx), rxfifo[2].of)
    <3>1. Contents(pc_buffer_add(rx, rxfifo[2].of)) = Append(Contents(rx), rxfifo[2].of)
      BY <1>2, <2>1, ConstantsType, AddContents
    <3> QED
      BY <2>1, <3>1
  <2>4. rxfifo[2].of = Expected(s, Used(rx) + 1)
    <3>1. rxfifo[2] = ByteAt(s, 2)
      BY <1>1, <1>3, <2>1
    <3>2. (2 + 1) \div 2 = 1
      OBVIOUS
    <3> QED
      BY <3>1, <3>2 DEF ByteAt
  <2>5. \A k : NewExpected(k) = Expected(s, k)
    BY <2>2 DEF Expected, NewExpected
  <2>6. ASSUME NEW b \in Nat PROVE NewByte(b) = ByteAt(s, b + 2)
    <3> DEFINE h == (b + 1) \div 2
    <3>1. /\ ((b + 2) + 1) \div 2 = h + 1 /\ (b + 2) % 2 = b % 2 /\ h \in Int
      BY Halves
    <3> HIDE DEF h
    <3>2. Used(rx)' + h = Used(rx) + (h + 1)
      BY <1>1, <2>1, <3>1
    <3>3. NewByte(b) = [of |-> Expected(s, Used(rx)' + h), half |-> 2 - (b % 2)]
      BY <2>5 DEF NewByte, h
    <3> QED
      BY <3>1, <3>2, <3>3 DEF ByteAt
  <2>7. \A k \in 1..Used(rx)+1 :
          Append(Contents(rx), rxfifo[2].of)[k] = Expected(s, k)
    BY <1>1, <1>2, <1>3, <2>1, <2>4
  <2>8. \A k \in 1..Used(rx)' : Contents(rx)'[k] = NewExpected(k)
    BY <2>1, <2>3, <2>5, <2>7
  <2>9. ASSUME NEW b \in 1..lr' PROVE rxfifo'[b] = NewByte(b)
    <3>1. b \in Nat /\ b \in 1..lr-2 /\ b + 2 \in 1..lr
      BY <1>1, <2>1
    <3> QED
      BY <1>3, <2>1, <2>6, <3>1
  <2>10. ASSUME NEW b \in 1..lt' PROVE txfifo'[b] = NewByte(lr' + b)
    <3>1. b \in 1..lt /\ lr' + b \in Nat /\ lr' + b + 2 = lr + b
      BY <1>1, <2>1, <2>2
    <3>2. NewByte(lr' + b) = ByteAt(s, lr + b)
      BY <2>6, <3>1
    <3> QED
      BY <1>3, <2>2, <3>1, <3>2
  <2>11. ASSUME NEW b \in 1..Used(tx)' PROVE Contents(tx)'[b] = NewByte(lr' + lt' + b)
    <3>1. /\ b \in 1..Used(tx) /\ lr' + lt' + b \in Nat
          /\ lr' + lt' + b + 2 = lr + lt + b
      BY <1>1, <2>1, <2>2
    <3>2. NewByte(lr' + lt' + b) = ByteAt(s, lr + lt + b)
      BY <2>6, <3>1
    <3> QED
      BY <1>3, <2>2, <3>1, <3>2
  <2> QED
    BY <1>12, <2>8, <2>9, <2>10, <2>11
<1>8. ASSUME OnTXE PROVE Ordered(s)'
  <2>1. UNCHANGED <<taken, skew, rx, rxfifo>>
    BY <1>8 DEF OnTXE, main
  <2>2. CASE UNCHANGED <<tx, txfifo>>
    BY <1>4, <2>1, <2>2
  <2>3. CASE /\ ~pc_buffer_empty(tx)
             /\ tx' = pc_buffer_remove(tx) /\ txfifo' = Append(txfifo, Oldest(tx))
             /\ Oldest(tx) \in BusByte
             /\ Used(tx)' = Used(tx) - 1 /\ Len(txfifo)' = Len(txfifo) + 1
    <3>1. /\ Contents(tx) # << >> /\ Oldest(tx) = Head(Contents(tx))
          /\ Contents(tx)' = Tail(Contents(tx))
      <4>1. /\ Contents(tx) # << >> /\ Oldest(tx) = Head(Contents(tx))
            /\ Contents(pc_buffer_remove(tx)) = Tail(Contents(tx))
        BY <1>2, <2>3, ConstantsType, RemoveContents
      <4> QED
        BY <2>3, <4>1
    <3>2. \A b : NewByte(b) = ByteAt(s, b) /\ NewExpected(b) = Expected(s, b)
      BY <2>1 DEF ByteAt, Expected, NewByte, NewExpected
    <3>3. Used(tx) >= 1 /\ Oldest(tx) = Contents(tx)[1]
      BY <1>2, <3>1
    <3>4. \A b \in 1..Len(txfifo)+1 :
            Append(txfifo, Oldest(tx))[b] = ByteAt(s, Len(rxfifo) + b)
      <4>1. ASSUME NEW b \in 1..Len(txfifo)
            PROVE  Append(txfifo, Oldest(tx))[b] = ByteAt(s, Len(rxfifo) + b)
        BY <1>1, <1>2, <1>3, <2>3
      <4>2. Append(txfifo, Oldest(tx))[Len(txfifo) + 1] = Oldest(tx)
        BY <1>2, <2>3
      <4>3. Oldest(tx) = ByteAt(s, Len(rxfifo) + Len(txfifo) + 1)
        BY <1>1, <1>3, <3>3
      <4>4. Len(rxfifo) + Len(txfifo) + 1 = Len(rxfifo) + (Len(txfifo) + 1)
        BY <1>1
      <4>5. ASSUME NEW b \in 1..Len(txfifo)+1
            PROVE  Append(txfifo, Oldest(tx))[b] = ByteAt(s, Len(rxfifo) + b)
        <5>1. b \in 1..Len(txfifo) \/ b = Len(txfifo) + 1
          BY <1>1
        <5> QED
          BY <4>1, <4>2, <4>3, <4>4, <5>1
      <4> QED
        BY <4>5
    <3>5. \A b \in 1..Used(tx)-1 :
            Tail(Contents(tx))[b] = ByteAt(s, Len(rxfifo) + (Len(txfifo) + 1) + b)
      <4> SUFFICES ASSUME NEW b \in 1..Used(tx)-1
                   PROVE  Tail(Contents(tx))[b] =
                            ByteAt(s, Len(rxfifo) + (Len(txfifo) + 1) + b)
        OBVIOUS
      <4>1. Tail(Contents(tx))[b] = Contents(tx)[b + 1]
        BY <1>1, <1>2, <3>1
      <4>2. Contents(tx)[b + 1] = ByteAt(s, Len(rxfifo) + Len(txfifo) + (b + 1))
        BY <1>1, <1>3
      <4>3. Len(rxfifo) + Len(txfifo) + (b + 1) = Len(rxfifo) + (Len(txfifo) + 1) + b
        BY <1>1
      <4> QED
        BY <4>1, <4>2, <4>3
    <3> QED
      BY <1>3, <1>12, <2>1, <2>3, <3>1, <3>2, <3>4, <3>5
  <2> QED
    BY <1>1, <1>8, <2>2, <2>3, OnTXEUsed
<1>9. ASSUME Exchange PROVE Ordered(s)'
  <2>1. UNCHANGED <<taken, skew, tx, rx>>
    BY <1>9 DEF Exchange, main
  <2>2. /\ Len(rxfifo)' = Len(rxfifo) + 1 /\ Len(txfifo)' = Len(txfifo) - 1
        /\ Len(txfifo) >= 1
    BY <1>1, <1>9, ExchangeUsed
  <2>3. /\ rxfifo' = Append(rxfifo, Head(txfifo)) /\ txfifo' = Tail(txfifo)
        /\ txfifo # << >>
    BY <1>9 DEF Exchange
  <2>4. Head(txfifo) = txfifo[1] /\ Head(txfifo) \in BusByte
    BY <1>2, <2>3
  <2>5. \A b : NewByte(b) = ByteAt(s, b) /\ NewExpected(b) = Expected(s, b)
    BY <2>1 DEF ByteAt, Expected, NewByte, NewExpected
  <2>6. \A b \in 1..Len(rxfifo)+1 : rxfifo'[b] = ByteAt(s, b)
    <3>1. ASSUME NEW b \in 1..Len(rxfifo) PROVE rxfifo'[b] = ByteAt(s, b)
      BY <1>1, <1>2, <1>3, <2>3, <2>4
    <3>2. rxfifo'[Len(rxfifo) + 1] = Head(txfifo)
      BY <1>2, <2>3, <2>4
    <3>3. Head(txfifo) = ByteAt(s, Len(rxfifo) + 1)
      BY <1>1, <1>3, <2>2, <2>4
    <3> QED
      BY <1>1, <3>1, <3>2, <3>3
  <2>7. \A b \in 1..Len(txfifo)-1 : txfifo'[b] = ByteAt(s, (Len(rxfifo) + 1) + b)
    <3> SUFFICES ASSUME NEW b \in 1..Len(txfifo)-1
                 PROVE  txfifo'[b] = ByteAt(s, (Len(rxfifo) + 1) + b)
      OBVIOUS
    <3>1. txfifo'[b] = txfifo[b + 1]
      BY <1>1, <1>2, <2>3
    <3>2. txfifo[b + 1] = ByteAt(s, Len(rxfifo) + (b + 1))
      BY <1>1, <1>3
    <3>3. Len(rxfifo) + (b + 1) = (Len(rxfifo) + 1) + b
      BY <1>1
    <3> QED
      BY <3>1, <3>2, <3>3
  <2>8. (Len(rxfifo) + 1) + (Len(txfifo) - 1) = Len(rxfifo) + Len(txfifo)
    BY <1>1
  <2> QED
    BY <1>3, <1>12, <2>1, <2>2, <2>5, <2>6, <2>7, <2>8
<1>10. ASSUME SpiOn \/ EnableTXE \/ SpiOff \/ StartPoll \/ getGyroXYZ \/ UNCHANGED vars
       PROVE  Ordered(s)'
  <2>1. UNCHANGED <<taken, skew, tx, rx, txfifo, rxfifo>>
    BY <1>10 DEF SpiOn, EnableTXE, SpiOff, StartPoll, getGyroXYZ, vars, main, bus
  <2> QED
    BY <1>4, <2>1
<1>11. ASSUME WriteAddress \/ WriteData PROVE Ordered(s)'
  BY <1>5, <1>11 DEF WriteAddress, WriteData
<1> QED
  BY <1>6, <1>7, <1>8, <1>9, <1>10, <1>11
  DEF Next, Driver, gyro_write, SPI1_Handler

-----------------------------------------------------------------------------
LEMMA InductiveInit == Init => Inductive
BY CountInit DEF Inductive, Counting

LEMMA DropNext ==
  ASSUME NEW s \in {0, 1}, Counting(s), Dropping, [Next]_vars
  PROVE  (Counting(0) /\ Ordered(0))'
<1>1. TypeOK'
  BY TypeStep DEF Counting
<1>2. /\ (Placed /\ Balance(0))'
      /\ Used(tx)' = 0 /\ Used(rx)' = 0 /\ Len(txfifo)' = 0 /\ Len(rxfifo)' = 0
  BY DropStep
<1>3. Ordered(0)'
  BY <1>2 DEF Ordered
<1> QED
  BY <1>1, <1>2, <1>3 DEF Counting

LEMMA InductiveStep == Inductive /\ [Next]_vars => Inductive'
<1> SUFFICES ASSUME Inductive, [Next]_vars PROVE Inductive'
  OBVIOUS
<1>1. PICK s \in {0, 1} : Counting(s) /\ (skew = Unknown => Early /\ Ordered(s))
  BY DEF Inductive
<1>2. CASE Dropping
  <2>1. (Counting(0) /\ Ordered(0))'
    BY <1>1, <1>2, DropNext
  <2>2. UNCHANGED skew
    BY <1>2 DEF Dropping, OnRXNE
  <2>3. Early => Early'
    BY <1>1, <1>2, DropStep
  <2> QED
    BY <1>1, <2>1, <2>2, <2>3 DEF Inductive
<1>3. CASE ~Dropping
  <2>1. /\ (Placed /\ Balance(s))'
        /\ skew' = Unknown => skew = Unknown /\ Early'
    BY <1>1, <1>3, CountStep
  <2>2. Counting(s)'
    BY <1>1, <2>1, TypeStep DEF Counting
  <2>3. ASSUME skew' = Unknown PROVE Ordered(s)'
    <3>1. Early /\ Ordered(s)
      BY <1>1, <2>1, <2>3
    <3>2. rx.produce_count \in Nat
      BY <1>1 DEF Counting, TypeOK, PC_Buffer
    <3>3. Straight(tx) /\ Straight(rx)
      BY <3>1, <3>2 DEF Early, Straight
    <3> QED
      BY <1>1, <1>3, <3>1, <3>3, OrderStep
  <2> QED
    BY <2>1, <2>2, <2>3 DEF Inductive
<1> QED
  BY <1>2, <1>3

(* gyro_rx_buf has room for every reply that comes, however the interrupt  *)
(* handler and the main thread interleave and however often the counters   *)
(* wrap: gyro_config's poll ahead and the stray reply fit.                 *)
THEOREM NoReplyDroppedAlways == Spec => []NoReplyDropped
<1>1. Inductive => NoReplyDropped
  <2> SUFFICES ASSUME Inductive, RXNE PROVE ~pc_buffer_full(rx)
    BY DEF NoReplyDropped
  <2>1. PICK s \in {0, 1} : Counting(s)
    BY DEF Inductive
  <2>2. Used(rx) < GYRO_BUF /\ Used(rx) \in Nat /\ rx.buffer_SIZE = GYRO_BUF
    BY <2>1, Room, UsedTypes, ConstantsType DEF Counting, RXNE
  <2> QED
    BY <2>2, ConstantsType DEF pc_buffer_full
<1> QED
  BY <1>1, InductiveInit, InductiveStep, PTL DEF Spec

(* When the bus is quiet between two intervals gyro_rx_buf holds exactly   *)
(* one poll, and the reply to CTRL_REG1's write if that one was queued and *)
(* not dropped: after any number of intervals none is lost or counted      *)
(* twice.                                                                  *)
THEOREM OnePollAheadAlways == Spec => []OnePollAhead
<1>1. Inductive => OnePollAhead
  <2> SUFFICES ASSUME Inductive, pc = "idle", pc_buffer_empty(tx),
                      txfifo = << >>, rxfifo = << >>
               PROVE  Used(rx) = REGS + Skew
    BY DEF OnePollAhead
  <2>1. PICK s \in {0, 1} : Counting(s)
    BY DEF Inductive
  <2>2. Used(tx) = 0 /\ Used(rx) \in Nat /\ Len(txfifo) = 0 /\ Len(rxfifo) = 0
    BY <2>1, UsedTypes, ConstantsType DEF Counting
  <2>3. Owed = REGS /\ Queued = 0 /\ REGS \in Nat
    BY ConstantsType DEF Owed, Queued
  <2>4. Used(rx) = REGS + s
    <3>1. 0 + 2 * Used(rx) = 2 * REGS + 0 + 2 * s
      BY <2>1, <2>2, <2>3 DEF Counting, Balance, InFlight
    <3> QED
      BY <2>2, <2>3, <3>1
  <2>5. skew # Unknown
    BY <2>1, ConstantsType DEF Counting, Placed
  <2>6. Skew = s
    BY <2>1, <2>5 DEF Counting, Balance, Skew
  <2> QED
    BY <2>4, <2>6
<1> QED
  BY <1>1, InductiveInit, InductiveStep, PTL DEF Spec

-----------------------------------------------------------------------------
(* A buffer's count of additions wraps at a multiple of its size, or this  *)
(* step wraps none.                                                        *)
NoWrap ==
  \/ COUNT_MOD % GYRO_BUF = 0
  \/ /\ tx.produce_count <= tx'.produce_count
     /\ rx.produce_count <= rx'.produce_count

InOrder == \E s \in {0, 1} :
  /\ Counting(s)
  /\ skew = Unknown => Early
  /\ Ordered(s)
  /\ Straight(tx) /\ Straight(rx)

LEMMA InOrderInit == Init => InOrder
<1> SUFFICES ASSUME Init PROVE InOrder
  OBVIOUS
<1>1. /\ TypeOK /\ Placed /\ Balance(1) /\ Early /\ Ordered(1)
  BY CountInit
<1>2. Straight(tx) /\ Straight(rx)
  BY DEF Init, Straight, pc_buffer_init
<1> QED
  BY <1>1, <1>2 DEF InOrder, Counting

LEMMA StraightStep ==
  ASSUME NEW s \in {0, 1}, Counting(s), Straight(tx), Straight(rx),
         [Next]_vars, [NoWrap]_vars
  PROVE  (Straight(tx) /\ Straight(rx))'
<1>1. /\ TypeOK /\ tx \in PC_Buffer(BusByte, GYRO_BUF)
      /\ rx \in PC_Buffer(Transfer, GYRO_BUF)
  BY DEF Counting, TypeOK
<1>2. ASSUME UNCHANGED <<tx, rx>> PROVE (Straight(tx) /\ Straight(rx))'
  BY <1>2
<1>3. ASSUME NoWrap, NEW half \in {1, 2}, QueueByte(half)
      PROVE  (Straight(tx) /\ Straight(rx))'
  <2>1. [of |-> transfer, half |-> half] \in BusByte
    BY <1>1 DEF TypeOK, BusByte
  <2>2. tx' = pc_buffer_add(tx, [of |-> transfer, half |-> half]) /\ rx' = rx
    BY <1>3 DEF QueueByte
  <2>3. Straight(pc_buffer_add(tx, [of |-> transfer, half |-> half]))
    BY <1>1, <1>3, <2>1, <2>2, ConstantsType, StaysStraight DEF NoWrap
  <2> QED
    BY <2>2, <2>3
<1>4. ASSUME TakeByte PROVE (Straight(tx) /\ Straight(rx))'
  <2>1. rx' = pc_buffer_remove(rx) /\ tx' = tx /\ ~pc_buffer_empty(rx)
    BY <1>4 DEF TakeByte, Arrived
  <2>2. RxJunk \in Transfer
    BY DEF RxJunk, Transfer
  <2>3. Straight(pc_buffer_remove(rx))
    BY <1>1, <2>1, <2>2, ConstantsType, StaysStraight
  <2> QED
    BY <2>1, <2>3
<1>5. ASSUME NoWrap, OnRXNE PROVE (Straight(tx) /\ Straight(rx))'
  <2>1. CASE SPI1_Rx_Callback
    BY <1>2, <1>5, <2>1 DEF OnRXNE, SPI1_Rx_Callback
  <2>2. CASE ~SPI1_Rx_Callback
    <3>1. rx' = pc_buffer_add(rx, rxfifo[2].of) /\ rxfifo[2].of \in Transfer /\ tx' = tx
      BY <1>5, <2>2, OnRXNEUsed DEF OnRXNE
    <3>2. Straight(pc_buffer_add(rx, rxfifo[2].of))
      BY <1>1, <1>5, <3>1, ConstantsType, StaysStraight DEF NoWrap
    <3> QED
      BY <3>1, <3>2
  <2> QED
    BY <2>1, <2>2
<1>6. ASSUME OnTXE PROVE (Straight(tx) /\ Straight(rx))'
  <2>1. rx' = rx
    BY <1>6 DEF OnTXE
  <2>2. CASE ~pc_buffer_empty(tx) /\ tx' = pc_buffer_remove(tx)
    <3>1. TxJunk \in BusByte
      BY DEF TxJunk, BusByte, Transfer
    <3>2. Straight(pc_buffer_remove(tx))
      BY <1>1, <2>2, <3>1, ConstantsType, StaysStraight
    <3> QED
      BY <2>1, <2>2, <3>2
  <2>3. CASE tx' = tx
    BY <1>2, <2>1, <2>3
  <2> QED
    BY <1>1, <1>6, <2>2, <2>3, OnTXEUsed
<1>7. ASSUME UNCHANGED vars PROVE (Straight(tx) /\ Straight(rx))'
  BY <1>2, <1>7 DEF vars
<1>8. ASSUME NoWrap, Next PROVE (Straight(tx) /\ Straight(rx))'
  <2>1. ASSUME SpiOn \/ EnableTXE \/ SpiOff \/ StartPoll \/ getGyroXYZ \/ Exchange
        PROVE  (Straight(tx) /\ Straight(rx))'
    BY <1>2, <2>1 DEF SpiOn, EnableTXE, SpiOff, StartPoll, getGyroXYZ, Exchange
  <2> QED
    BY <1>3, <1>4, <1>5, <1>6, <1>8, <2>1
    DEF Next, Driver, gyro_write, WriteAddress, WriteData, SPI1_Handler
<1> QED
  BY <1>7, <1>8

LEMMA InOrderStep == InOrder /\ [Next]_vars /\ [NoWrap]_vars => InOrder'
<1> SUFFICES ASSUME InOrder, [Next]_vars, [NoWrap]_vars PROVE InOrder'
  OBVIOUS
<1>1. PICK s \in {0, 1} : /\ Counting(s) /\ (skew = Unknown => Early) /\ Ordered(s)
                          /\ Straight(tx) /\ Straight(rx)
  BY DEF InOrder
<1>2. (Straight(tx) /\ Straight(rx))'
  BY <1>1, StraightStep
<1>3. CASE Dropping
  <2>1. (Counting(0) /\ Ordered(0))'
    BY <1>1, <1>3, DropNext
  <2>2. UNCHANGED skew
    BY <1>3 DEF Dropping, OnRXNE
  <2>3. Early => Early'
    BY <1>1, <1>3, DropStep
  <2> QED
    BY <1>1, <1>2, <2>1, <2>2, <2>3 DEF InOrder
<1>4. CASE ~Dropping
  <2>1. /\ (Placed /\ Balance(s))'
        /\ skew' = Unknown => skew = Unknown /\ Early'
    BY <1>1, <1>4, CountStep
  <2>2. Counting(s)'
    BY <1>1, <2>1, TypeStep DEF Counting
  <2>3. Ordered(s)'
    BY <1>1, <1>4, OrderStep
  <2> QED
    BY <1>2, <2>1, <2>2, <2>3 DEF InOrder
<1> QED
  BY <1>3, <1>4

(* getGyroXYZ and setOffset take the registers' values in the order of     *)
(* gyro_read_xyz's transfers, at one fixed skew of 0 or 1, for as long as  *)
(* no count wraps, or for ever if it wraps at a multiple of the buffers'   *)
(* size.  (2^32 is not a multiple of 255: the order ends with the wrap.)   *)
THEOREM ValuesInOrderUntilWrap == Spec /\ [][NoWrap]_vars => []ValuesInOrder
<1>1. InOrder => ValuesInOrder
  <2> SUFFICES ASSUME InOrder, NEW k \in 1..Used(rx)
               PROVE  Contents(rx)[k] =
                        IF skew = Unknown /\ Skew = 1 /\ k = 1 THEN CTRL
                        ELSE (taken + k - 1 - Skew) % REGS
    BY DEF ValuesInOrder
  <2>1. PICK s \in {0, 1} : Counting(s) /\ Ordered(s)
    BY DEF InOrder
  <2>2. /\ Used(rx) \in Nat /\ Used(rx) > 0
        /\ pc_buffer_empty(rx) <=> Used(rx) = 0
    BY <2>1, UsedTypes, ConstantsType DEF Counting
  <2>3. Skew = s
    <3>1. CASE skew # Unknown
      BY <2>1, <3>1 DEF Skew, Counting, Balance
    <3>2. CASE skew = Unknown
      <4>1. Oldest(rx) = CTRL <=> s = 1
        BY <2>1, <2>2, <3>2, FirstStrays
      <4>2. Skew = IF Oldest(rx) = CTRL THEN 1 ELSE 0
        BY <2>2, <3>2 DEF Skew
      <4> QED
        BY <4>1, <4>2
    <3> QED
      BY <3>1, <3>2
  <2>4. Contents(rx)[k] = Expected(s, k)
    BY <2>1 DEF Ordered
  <2> QED
    BY <2>3, <2>4 DEF Expected
<1> QED
  BY <1>1, InOrderInit, InOrderStep, PTL DEF Spec
=============================================================================
