-------------------------------- MODULE Usart --------------------------------
(***************************************************************************)
(* USART1, the radio link (driver/usart.c), between the main thread, which *)
(* calls _write and _read (common/retarget.c), the interrupt handler       *)
(* USART1_Handler and the peripheral's two data registers.                 *)
(*                                                                         *)
(* The main thread is interrupted between any two of its actions; the      *)
(* handler runs to its end before the main thread goes on, so it is one    *)
(* action.  The regions between __disable_irq and __enable_irq are one     *)
(* action each.  `usart->CR1 |= USART_CR1_TXEIE' lies outside them and is  *)
(* a load and a store.                                                     *)
(***************************************************************************)
EXTENDS PCBuffer, FiniteSets

CONSTANTS
  USART_BUF,      (* slots of each of the two ring buffers (128)           *)
  SIZE_MOD,       (* 256: a frame's size is sent as one byte               *)
  WriteCounts,    (* lengths the program passes to _write                  *)
  ReadCounts,     (* lengths the program passes to _read                   *)
  RxChars         (* what the other end of the link sends                  *)

BACKSPACES == {"BS", "DEL"}              \* 0x08, 0x7F
ESCAPES    == {"ESC", "["}               \* 0x1B, 0x5B
RxJunk     == "junk"                     \* '\0', or a fresh slot's contents
RxValue    == RxChars \union {RxJunk}

ASSUME UsartAssumption ==
  /\ USART_BUF \in Nat \ {0}
  /\ USART_BUF < COUNT_MOD
  /\ SIZE_MOD \in Nat \ {0}
  /\ WriteCounts \subseteq Nat
  /\ ReadCounts \subseteq Nat

-----------------------------------------------------------------------------
(***************************************************************************)
(* Bytes sent.  A body byte's value is its distance to the frame's end,    *)
(* which is what tells it from its neighbours.                             *)
(***************************************************************************)
Byte == [kind : {"SOF", "TYPE", "SIZE", "BODY", "EOF", "ECHO", "JUNK"},
         val  : 0..SIZE_MOD-1]

Mark(kind) == [kind |-> kind, val |-> 0]
TxJunk == Mark("JUNK")

(* The bytes _write hands to _putc for `count' bytes of body. *)
Frame(count) ==
  <<Mark("SOF"), Mark("TYPE"), [kind |-> "SIZE", val |-> count % SIZE_MOD]>>
  \o [i \in 1..count |-> [kind |-> "BODY", val |-> (count - i) % SIZE_MOD]]
  \o <<Mark("EOF")>>

(* The receiver of the radio link: what it waits for and how many body     *)
(* bytes are left.  "LOST" is a frame it cannot make sense of.             *)
Deframe(d, byte) ==
  CASE d.wants = "SOF"  /\ byte.kind = "SOF"  -> [wants |-> "TYPE", left |-> 0]
    [] d.wants = "TYPE" /\ byte.kind = "TYPE" -> [wants |-> "SIZE", left |-> 0]
    [] d.wants \in {"SIZE", "BODY"} /\ byte.kind = d.wants
       /\ (d.wants = "BODY" => byte.val = d.left - 1) ->
         [wants |-> IF byte.val = 0 THEN "EOF" ELSE "BODY", left |-> byte.val]
    [] d.wants = "EOF"  /\ byte.kind = "EOF"  -> [wants |-> "SOF", left |-> 0]
    [] OTHER -> [wants |-> "LOST", left |-> 0]

-----------------------------------------------------------------------------
VARIABLES
  pc,             (* where the main thread is                              *)
  pending,        (* bytes of the current _write not yet in tx             *)
  wanted,         (* characters the current _read still has to get         *)
  cr1_copy,       (* the main thread's load of CR1                         *)
  got,            (* the character _getc stored last                       *)
  tx, rx,         (* tx_buf[0] and rx_buf[0]                               *)
  prev, prev2,    (* the handler's last two characters                     *)
  cr1,            (* the interrupt enables set in CR1                      *)
  rxne, rdr,      (* receive register: unread, and its character           *)
  txe, tdr,       (* transmit register: empty, and the byte written last   *)
  receiver        (* state of the radio's other end                        *)

mainVars == <<pc, pending, wanted, cr1_copy, got>>
isrVars  == <<prev, prev2>>
rxReg    == <<rxne, rdr>>
txReg    == <<txe, tdr>>
vars == <<mainVars, tx, rx, isrVars, cr1, rxReg, txReg, receiver>>

(* After usart_config(USART1, SYSCLK, {RXNEIE, 0, 0}, 115200, true). *)
Init ==
  /\ pc = "idle"
  /\ pending = << >>
  /\ wanted = 0
  /\ cr1_copy = {}
  /\ got = RxJunk
  /\ tx = pc_buffer_init(USART_BUF, TxJunk)
  /\ rx = pc_buffer_init(USART_BUF, RxJunk)
  /\ prev = RxJunk
  /\ prev2 = RxJunk
  /\ cr1 = {"RXNEIE"}
  /\ rxne = FALSE
  /\ rdr = RxJunk
  /\ txe = TRUE
  /\ tdr = TxJunk
  /\ receiver = [wants |-> "SOF", left |-> 0]

-----------------------------------------------------------------------------
(***************************************************************************)
(* The main thread: _write, and the blocking _putc of each byte.           *)
(***************************************************************************)
(* Mutant: no limit to what a frame's size byte can say. *)
Write_AnyCount(count) ==
  /\ pc = "idle"
  /\ pending' = Frame(count)
  /\ pc' = "putc_check"
  /\ UNCHANGED <<wanted, cr1_copy, got, tx, rx, isrVars, cr1, rxReg, txReg, receiver>>

Write(count) ==
  /\ pc = "idle"
  /\ count < SIZE_MOD
  /\ pending' = Frame(count)
  /\ pc' = "putc_check"
  /\ UNCHANGED <<wanted, cr1_copy, got, tx, rx, isrVars, cr1, rxReg, txReg, receiver>>

(* Mutant: _putc does not wait for room. *)
PutcCheck_NoWait ==
  /\ pc = "putc_check"
  /\ pc' = "putc_add"
  /\ UNCHANGED <<pending, wanted, cr1_copy, got, tx, rx, isrVars, cr1, rxReg, txReg, receiver>>

(* `while (pc_buffer_full(tx))' spins until the handler has made room. *)
PutcCheck ==
  /\ pc = "putc_check"
  /\ ~pc_buffer_full(tx)
  /\ pc' = "putc_add"
  /\ UNCHANGED <<pending, wanted, cr1_copy, got, tx, rx, isrVars, cr1, rxReg, txReg, receiver>>

PutcAdd ==
  /\ pc = "putc_add"
  /\ tx' = pc_buffer_add(tx, Head(pending))
  /\ pending' = Tail(pending)
  /\ pc' = "putc_load"
  /\ UNCHANGED <<wanted, cr1_copy, got, rx, isrVars, cr1, rxReg, txReg, receiver>>

PutcLoad ==
  /\ pc = "putc_load"
  /\ cr1_copy' = cr1
  /\ pc' = "putc_store"
  /\ UNCHANGED <<pending, wanted, got, tx, rx, isrVars, cr1, rxReg, txReg, receiver>>

(* Mutants: CR1 is assigned TXEIE alone; TXEIE is not set. *)
PutcStore_Assigns ==
  /\ pc = "putc_store"
  /\ cr1' = {"TXEIE"}
  /\ pc' = IF pending = << >> THEN "idle" ELSE "putc_check"
  /\ UNCHANGED <<pending, wanted, cr1_copy, got, tx, rx, isrVars, rxReg, txReg, receiver>>

PutcStore_Forgets ==
  /\ pc = "putc_store"
  /\ cr1' = cr1_copy
  /\ pc' = IF pending = << >> THEN "idle" ELSE "putc_check"
  /\ UNCHANGED <<pending, wanted, cr1_copy, got, tx, rx, isrVars, rxReg, txReg, receiver>>

PutcStore ==
  /\ pc = "putc_store"
  /\ cr1' = cr1_copy \union {"TXEIE"}
  /\ pc' = IF pending = << >> THEN "idle" ELSE "putc_check"
  /\ UNCHANGED <<pending, wanted, cr1_copy, got, tx, rx, isrVars, rxReg, txReg, receiver>>

Putc == PutcCheck \/ PutcAdd \/ PutcLoad \/ PutcStore

(***************************************************************************)
(* The main thread: _read, and the blocking _getc of each character.       *)
(***************************************************************************)
Read(count) ==
  /\ pc = "idle"
  /\ count > 0
  /\ wanted' = count
  /\ pc' = "getc_check"
  /\ UNCHANGED <<pending, cr1_copy, got, tx, rx, isrVars, cr1, rxReg, txReg, receiver>>

(* Mutant: _getc does not wait for a character. *)
GetcCheck_NoWait ==
  /\ pc = "getc_check"
  /\ pc' = "getc_remove"
  /\ UNCHANGED <<pending, wanted, cr1_copy, got, tx, rx, isrVars, cr1, rxReg, txReg, receiver>>

GetcCheck ==
  /\ pc = "getc_check"
  /\ ~pc_buffer_empty(rx)
  /\ pc' = "getc_remove"
  /\ UNCHANGED <<pending, wanted, cr1_copy, got, tx, rx, isrVars, cr1, rxReg, txReg, receiver>>

GetcRemove ==
  /\ pc = "getc_remove"
  /\ got' = Oldest(rx)
  /\ rx' = pc_buffer_remove(rx)
  /\ wanted' = wanted - 1
  /\ pc' = IF wanted = 1 THEN "idle" ELSE "getc_check"
  /\ UNCHANGED <<pending, cr1_copy, tx, isrVars, cr1, rxReg, txReg, receiver>>

Getc == GetcCheck \/ GetcRemove

-----------------------------------------------------------------------------
(***************************************************************************)
(* The interrupt handler.  It treats a received character first and then,  *)
(* with the buffer that leaves, the transmit register.                     *)
(***************************************************************************)
Erases == rxne /\ rdr \in BACKSPACES /\ ~pc_buffer_empty(rx)

Stores ==
  /\ rxne
  /\ rdr \notin BACKSPACES \union ESCAPES
  /\ prev # "[" /\ prev2 # "ESC"

(* 0x08, ' ', 0x08: the character disappears from the other end's console. *)
EchoErase(buf) ==
  AddIfRoom(AddIfRoom(AddIfRoom(buf, Mark("ECHO")), Mark("ECHO")), Mark("ECHO"))

(* A terminator is counted whether or not there is room to store it. *)
StoreChar(buf) ==
  AddIfRoom(IF NEWLINE_GUARD(rdr, prev) THEN CountMessage(buf) ELSE buf, rdr)

Receive ==
  /\ rx' = CASE Erases -> Unproduce(rx)
             [] Stores -> StoreChar(rx)
             [] OTHER  -> rx
  /\ prev'  = IF rxne THEN rdr ELSE prev
  /\ prev2' = IF rxne THEN prev ELSE prev2
  /\ rxne' = FALSE
  /\ rdr' = RxJunk                       \* not read again before it changes

(* Mutant: the transmit interrupt goes off with every byte sent. *)
Transmit_OneByte(buf, enables) ==
  IF txe /\ ~pc_buffer_empty(buf)
  THEN /\ tdr' = Oldest(buf)
       /\ txe' = FALSE
       /\ tx' = pc_buffer_remove(buf)
       /\ cr1' = enables \ {"TXEIE"}
  ELSE /\ tx' = buf
       /\ cr1' = IF txe THEN enables \ {"TXEIE"} ELSE enables
       /\ UNCHANGED txReg

Transmit(buf, enables) ==
  \/ /\ ~txe
     /\ tx' = buf
     /\ cr1' = enables
     /\ UNCHANGED txReg
  \/ /\ txe /\ ~pc_buffer_empty(buf)
     /\ tdr' = Oldest(buf)
     /\ txe' = FALSE
     /\ tx' = pc_buffer_remove(buf)
     /\ cr1' = enables
  \/ /\ txe /\ pc_buffer_empty(buf)
     /\ tx' = buf
     /\ cr1' = enables \ {"TXEIE"}
     /\ UNCHANGED txReg

USART1_Handler ==
  /\ \/ rxne /\ "RXNEIE" \in cr1
     \/ txe /\ "TXEIE" \in cr1
  /\ Receive
  /\ \/ /\ Erases
        /\ Transmit(EchoErase(tx), cr1 \union {"TXEIE"})
     \/ /\ ~Erases
        /\ Transmit(tx, cr1)
  /\ UNCHANGED <<mainVars, receiver>>

-----------------------------------------------------------------------------
(***************************************************************************)
(* The peripheral.  A character arrives only when the one before it was    *)
(* read: at 115200 baud a character takes 87 microseconds, several         *)
(* thousand cycles, and no handler of the program is that long.            *)
(***************************************************************************)
RxArrive(c) ==
  /\ ~rxne
  /\ rxne' = TRUE
  /\ rdr' = c
  /\ UNCHANGED <<mainVars, tx, rx, isrVars, cr1, txReg, receiver>>

TxShift ==
  /\ ~txe
  /\ txe' = TRUE
  /\ receiver' = Deframe(receiver, tdr)
  /\ UNCHANGED <<mainVars, tx, rx, isrVars, cr1, rxReg, tdr>>

Next ==
  \/ \E count \in WriteCounts : Write(count)
  \/ \E count \in ReadCounts : Read(count)
  \/ Putc
  \/ Getc
  \/ USART1_Handler
  \/ \E c \in RxChars : RxArrive(c)
  \/ TxShift

(***************************************************************************)
(* The main thread is never suspended for good inside _putc or _getc, an   *)
(* interrupt that stays pending is taken, and the shift register empties.  *)
(* Nothing obliges the program to write or read, or the radio to send.     *)
(***************************************************************************)
Fairness ==
  /\ WF_vars(Putc)
  /\ WF_vars(Getc)
  /\ WF_vars(USART1_Handler)
  /\ WF_vars(TxShift)

Spec == Init /\ [][Next]_vars /\ Fairness

-----------------------------------------------------------------------------
MainAt == {"idle", "putc_check", "putc_add", "putc_load", "putc_store",
           "getc_check", "getc_remove"}

(* The values the variables take: in particular both counters of both      *)
(* buffers stay 32-bit, _putc is only ever inside a frame, and the copy of *)
(* CR1 the main thread writes back never lost the receive interrupt.       *)
TypeOK ==
  /\ pc \in MainAt
  /\ pending \in Seq(Byte)
  /\ pc \in {"putc_check", "putc_add"} => pending # << >>
  /\ wanted \in Nat
  /\ pc \in {"getc_check", "getc_remove"} => wanted > 0
  /\ cr1_copy \in SUBSET {"RXNEIE", "TXEIE"}
  /\ pc = "putc_store" => "RXNEIE" \in cr1_copy
  /\ got \in RxValue
  /\ tx \in PC_Buffer(Byte, USART_BUF)
  /\ rx \in PC_Buffer(RxValue, USART_BUF)
  /\ prev \in RxValue /\ prev2 \in RxValue
  /\ cr1 \in SUBSET {"RXNEIE", "TXEIE"}
  /\ "RXNEIE" \in cr1
  /\ rxne \in BOOLEAN /\ rdr \in RxValue
  /\ txe \in BOOLEAN /\ tdr \in Byte
  /\ receiver \in [wants : {"SOF", "TYPE", "SIZE", "BODY", "EOF", "LOST"},
                   left : 0..SIZE_MOD-1]

(* No queued byte is stranded: while tx holds a byte, the transmit         *)
(* interrupt is enabled, or the main thread is on its way to enable it.    *)
(* The handler clears TXEIE on an empty buffer, and the main thread sets   *)
(* it with a load and a store the handler may come between.                *)
NoByteStranded ==
  ~pc_buffer_empty(tx) => "TXEIE" \in cr1 \/ pc \in {"putc_load", "putc_store"}

(* _putc looks at the buffer with interrupts on and adds with interrupts   *)
(* off: when it adds, there is room, and the buffer never holds more bytes *)
(* than it has slots.                                                      *)
TxNeverOverrun ==
  /\ Used(tx) <= USART_BUF
  /\ pc = "putc_add" => ~pc_buffer_full(tx)

(* The same on the way in: _getc looks with interrupts on and removes with *)
(* interrupts off, and what it removes was received.                       *)
RxNeverUnderrun ==
  /\ Used(rx) <= USART_BUF
  /\ pc = "getc_remove" => ~pc_buffer_empty(rx)

(* The receiver at the other end of the radio is never lost: whatever the  *)
(* interleaving, the bytes on the wire are whole frames of _write, their   *)
(* size bytes true, nothing else between or inside them.                   *)
WireFramed == receiver.wants # "LOST"

(* `don't forward with RADIO USART, telem is forwarding': whatever the     *)
(* handler sends on its own account is kept out of the telemetry frames.   *)
(* While an echo is in the transmit register the receiver is between two   *)
(* frames, or was lost before.  Backspaces make it false.                  *)
EchoesApart ==
  ~txe /\ tdr.kind = "ECHO" => receiver.wants \in {"SOF", "LOST"}

(* The link is a FIFO in both directions. *)
TxFifo == INSTANCE ByteFifo WITH
  queue <- Contents(tx), out <- tdr, Value <- Byte, Capacity <- USART_BUF
RxFifo == INSTANCE ByteFifo WITH
  queue <- Contents(rx), out <- got, Value <- RxValue, Capacity <- USART_BUF

TxIsFifo == TxFifo!Spec
RxIsFifo == RxFifo!Safety

(* A _write always returns: no interleaving leaves _putc spinning on a     *)
(* full buffer nobody drains.                                              *)
WriteReturns == pc = "putc_check" ~> pc = "idle"

(* A byte in tx leaves it, with or without another _putc to help. *)
TxDrains == ~pc_buffer_empty(tx) ~> ~txe
=============================================================================
