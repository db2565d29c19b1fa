------------------------------- MODULE GyroSpi -------------------------------
(***************************************************************************)
(* The gyroscope on SPI1 (driver/gyro.c, SPI1_Handler in                   *)
(* common/handlers.c): the main thread queues two-byte transfers, the      *)
(* interrupt handler moves them to the peripheral and its replies to       *)
(* gyro_rx_buf, through a callback the main thread changes on the fly.     *)
(*                                                                         *)
(* The handler runs to its end, so it is one action.  gyro_write turns the *)
(* peripheral off right after queueing, whatever is still to be sent.  The *)
(* reference manual says how to turn it off in good order, and not what    *)
(* becomes of the bytes otherwise: they are assumed not to be lost, and    *)
(* with the peripheral off they may go out or stay.  The receive FIFO is   *)
(* assumed not to overrun.                                                 *)
(***************************************************************************)
EXTENDS PCBuffer

CONSTANTS
  GYRO_BUF,        (* slots of each of the two ring buffers (255)          *)
  REGS,            (* registers gyro_read_xyz reads, two for each axis (6) *)
  CALIBRATE_NUM    (* calls of setOffset in gyro_config (100)              *)

ASSUME GyroAssumption ==
  /\ REGS \in Nat \ {0}
  /\ CALIBRATE_NUM \in Nat \ {0}
  /\ GYRO_BUF \in Nat
  /\ GYRO_BUF > 2 * REGS
  /\ COUNT_MOD > GYRO_BUF
  /\ COUNT_MOD > 4 * REGS + 2    (* no wrap before the first value is taken *)

Reg == 0..REGS-1
CTRL == -1                                 \* the write of CTRL_REG1
Transfer == Reg \union {CTRL}

(* A byte on the bus, either way: the transfer it belongs to, and which of *)
(* its two bytes it is.  The reply proper is the second.                   *)
BusByte == [of : Transfer, half : {1, 2}]
TxJunk == [of |-> CTRL, half |-> 1]
RxJunk == CTRL

FIFO_SIZE == 4                             \* bytes, of each FIFO of SPI1

VARIABLES
  pc,              (* where the main thread is                             *)
  transfer,        (* the transfer gyro_write is queueing                  *)
  primed,          (* gyro_config's first gyro_read_xyz is done            *)
  rounds,          (* calls of setOffset completed                         *)
  taken,           (* bytes the current setOffset or getGyroXYZ has taken  *)
  fun_ptr,         (* which callback the handler calls on RXNE             *)
  tx, rx,          (* gyro_tx_buf[0], gyro_rx_buf[0]                       *)
  spe,             (* the peripheral is enabled in CR1                     *)
  txeie,           (* the transmit interrupt is enabled in CR2             *)
  txfifo, rxfifo,  (* the peripheral's FIFOs                               *)
  skew             (* history: 1 if the first value taken was no axis of   *)
                   (* any poll but the reply to CTRL_REG1's write, else 0  *)

main == <<pc, transfer, primed, rounds, taken>>
bus  == <<txfifo, rxfifo>>
vars == <<main, fun_ptr, tx, rx, spe, txeie, bus, skew>>

Unknown == -1

(* gyro_config, both buffers allocated.  spi_config enabled the transmit   *)
(* interrupt, which may have been taken and turned off since.              *)
Init ==
  /\ pc = "on"
  /\ transfer = CTRL
  /\ primed = FALSE
  /\ rounds = 0
  /\ taken = 0
  /\ fun_ptr = "SPI1_Rx_Callback"
  /\ tx = pc_buffer_init(GYRO_BUF, TxJunk)
  /\ rx = pc_buffer_init(GYRO_BUF, RxJunk)
  /\ spe = FALSE
  /\ txeie \in BOOLEAN
  /\ txfifo = << >>
  /\ rxfifo = << >>
  /\ skew = Unknown

-----------------------------------------------------------------------------
(***************************************************************************)
(* gyro_write: peripheral on, two bytes, each when there is room for it,   *)
(* transmit interrupt on, peripheral off.                                  *)
(***************************************************************************)
SpiOn ==
  /\ pc = "on"
  /\ spe' = TRUE
  /\ pc' = "address"
  /\ UNCHANGED <<transfer, primed, rounds, taken, fun_ptr, tx, rx, txeie, bus, skew>>

QueueByte(half) ==
  /\ ~pc_buffer_full(tx)
  /\ tx' = pc_buffer_add(tx, [of |-> transfer, half |-> half])
  /\ UNCHANGED <<transfer, primed, rounds, taken, fun_ptr, rx, spe, txeie, bus, skew>>

WriteAddress == pc = "address" /\ pc' = "data"   /\ QueueByte(1)
WriteData    == pc = "data"    /\ pc' = "enable" /\ QueueByte(2)

(* Mutants: gyro_config takes nothing in its loop; it has no poll ahead.   *)
AfterTransfer_NeverTakes ==
  IF transfer # CTRL /\ transfer < REGS - 1 THEN "on" ELSE "poll"

AfterTransfer_NotAhead ==
  CASE transfer # CTRL /\ transfer < REGS - 1 -> "on"
    [] transfer = CTRL                        -> "poll"
    [] transfer = REGS - 1                    -> IF rounds < CALIBRATE_NUM
                                                 THEN "take" ELSE "idle"

(* What gyro_config and telem_handler do after a transfer is queued.  A    *)
(* poll (gyro_read_xyz) is a transfer for each register.                   *)
AfterTransfer ==
  CASE transfer # CTRL /\ transfer < REGS - 1 -> "on"
    [] transfer = CTRL                        -> "poll"
    [] transfer = REGS - 1 /\ ~primed         -> "poll"
    [] transfer = REGS - 1 /\ primed          -> IF rounds < CALIBRATE_NUM
                                                 THEN "take" ELSE "idle"

(* LL_SPI_EnableIT_TXE is a load and a store of CR2.  The handler may      *)
(* clear the bit between them, and the store sets it again.                *)
EnableTXE ==
  /\ pc = "enable"
  /\ txeie' = TRUE
  /\ pc' = "off"
  /\ UNCHANGED <<transfer, primed, rounds, taken, fun_ptr, tx, rx, spe, bus, skew>>

SpiOff ==
  /\ pc = "off"
  /\ spe' = FALSE
  /\ pc' = AfterTransfer
  /\ transfer' = IF transfer = CTRL \/ transfer = REGS - 1 THEN 0 ELSE transfer + 1
  /\ primed' = (primed \/ transfer = REGS - 1)
  /\ UNCHANGED <<rounds, taken, fun_ptr, tx, rx, txeie, bus, skew>>

gyro_write == SpiOn \/ WriteAddress \/ WriteData \/ EnableTXE \/ SpiOff

(* gyro_read_xyz's first statement. *)
StartPoll ==
  /\ pc = "poll"
  /\ fun_ptr' = "gyro_xyz_Callback"
  /\ pc' = "on"
  /\ UNCHANGED <<transfer, primed, rounds, taken, tx, rx, spe, txeie, bus, skew>>

(***************************************************************************)
(* setOffset and getGyroXYZ: two bytes for each axis, each waited for.     *)
(* After CALIBRATE_NUM calls the main loop takes over: getGyroXYZ, then    *)
(* the next poll.                                                          *)
(***************************************************************************)
(* Mutant: a reply is taken whether or not it has come. *)
Arrived_Assumed == TRUE

Arrived == ~pc_buffer_empty(rx)

TakeByte ==
  /\ pc = "take"
  /\ Arrived
  /\ rx' = pc_buffer_remove(rx)
  /\ skew' = IF skew = Unknown THEN IF Oldest(rx) = CTRL THEN 1 ELSE 0 ELSE skew
  /\ taken' = (taken + 1) % REGS
  /\ IF taken < REGS - 1 THEN UNCHANGED <<pc, rounds>>
     ELSE /\ rounds' = IF rounds < CALIBRATE_NUM THEN rounds + 1 ELSE rounds
          /\ pc' = IF rounds = CALIBRATE_NUM - 1 THEN "idle" ELSE "poll"
  /\ UNCHANGED <<transfer, primed, fun_ptr, tx, spe, txeie, bus>>

(* The next interval: telem_handler calls getGyroXYZ. *)
getGyroXYZ ==
  /\ pc = "idle"
  /\ pc' = "take"
  /\ UNCHANGED <<transfer, primed, rounds, taken, fun_ptr, tx, rx, spe, txeie, bus, skew>>

-----------------------------------------------------------------------------
(***************************************************************************)
(* SPI1_Handler.  RXNE comes up with two bytes in the FIFO, and a callback *)
(* reads both at once.                                                     *)
(***************************************************************************)
RXNE == Len(rxfifo) >= 2
TXE  == Len(txfifo) <= FIFO_SIZE \div 2

gyro_xyz_Callback ==
  /\ fun_ptr = "gyro_xyz_Callback"
  /\ rx' = AddIfRoom(rx, rxfifo[2].of)

SPI1_Rx_Callback ==
  /\ fun_ptr = "SPI1_Rx_Callback"
  /\ rx' = rx

OnRXNE ==
  /\ RXNE
  /\ gyro_xyz_Callback \/ SPI1_Rx_Callback
  /\ rxfifo' = SubSeq(rxfifo, 3, Len(rxfifo))
  /\ UNCHANGED <<main, fun_ptr, tx, spe, txeie, txfifo, skew>>

(* Mutant: the interrupt goes off with the byte sent. *)
SPI1_Tx_Callback_OneByte ==
  /\ tx' = IF pc_buffer_empty(tx) THEN tx ELSE pc_buffer_remove(tx)
  /\ txfifo' = IF pc_buffer_empty(tx) THEN txfifo ELSE Append(txfifo, Oldest(tx))
  /\ txeie' = FALSE

SPI1_Tx_Callback ==
  \/ /\ ~pc_buffer_empty(tx)
     /\ txfifo' = Append(txfifo, Oldest(tx))
     /\ tx' = pc_buffer_remove(tx)
     /\ txeie' = txeie
  \/ /\ pc_buffer_empty(tx)
     /\ txeie' = FALSE
     /\ UNCHANGED <<tx, txfifo>>

(* Mutant: no look at the flag before the byte is written. *)
OnTXE_NoFlag ==
  /\ ~RXNE
  /\ txeie
  /\ SPI1_Tx_Callback
  /\ UNCHANGED <<main, fun_ptr, rx, spe, rxfifo, skew>>

OnTXE ==
  /\ ~RXNE
  /\ TXE /\ txeie
  /\ SPI1_Tx_Callback
  /\ UNCHANGED <<main, fun_ptr, rx, spe, rxfifo, skew>>

SPI1_Handler == OnRXNE \/ OnTXE

(* A byte goes out and the gyroscope's comes in: with the peripheral off,  *)
(* it may and need not.                                                    *)
Exchange ==
  /\ txfifo # << >>
  /\ Len(rxfifo) < FIFO_SIZE
  /\ rxfifo' = Append(rxfifo, Head(txfifo))
  /\ txfifo' = Tail(txfifo)
  /\ UNCHANGED <<main, fun_ptr, tx, rx, spe, txeie, skew>>

Driver == gyro_write \/ StartPoll \/ TakeByte

Next == Driver \/ getGyroXYZ \/ SPI1_Handler \/ Exchange

(* The main thread goes on inside the driver, a pending interrupt is taken *)
(* and the peripheral works while it is on.  The next interval need not    *)
(* come.                                                                   *)
Spec ==
  /\ Init /\ [][Next]_vars
  /\ WF_vars(Driver)
  /\ WF_vars(SPI1_Handler)
  /\ WF_vars(spe /\ Exchange)

-----------------------------------------------------------------------------
TypeOK ==
  /\ pc \in {"on", "address", "data", "enable", "off", "poll", "take", "idle"}
  /\ transfer \in Transfer
  /\ primed \in BOOLEAN
  /\ rounds \in 0..CALIBRATE_NUM
  /\ taken \in Reg
  /\ fun_ptr \in {"SPI1_Rx_Callback", "gyro_xyz_Callback"}
  /\ tx \in PC_Buffer(BusByte, GYRO_BUF)
  /\ rx \in PC_Buffer(Transfer, GYRO_BUF)
  /\ spe \in BOOLEAN
  /\ txeie \in BOOLEAN
  /\ txfifo \in Seq(BusByte) /\ Len(txfifo) <= FIFO_SIZE
  /\ rxfifo \in Seq(BusByte) /\ Len(rxfifo) <= FIFO_SIZE
  /\ skew \in {Unknown, 0, 1}

(* The skew, as far as it can be told. *)
Skew ==
  IF skew # Unknown THEN skew
  ELSE IF pc_buffer_empty(rx) THEN Unknown
  ELSE IF Oldest(rx) = CTRL THEN 1 ELSE 0

(* gyro_config changes the callback right after it queues the write of     *)
(* CTRL_REG1, so the reply to that write may be queued as if it were an    *)
(* axis byte.  It costs one place and never more: the values waiting to be *)
(* taken are the registers in their order, all of them shifted by the same *)
(* 0 or 1 places, in the first poll as in the last.                        *)
ValuesInOrder ==
  \A k \in 1..Used(rx) :
    Contents(rx)[k] =
      IF skew = Unknown /\ Skew = 1 /\ k = 1 THEN CTRL
      ELSE (taken + k - 1 - Skew) % REGS

(* No reply is dropped for want of room: gyro_config polls once more than  *)
(* it takes, and the buffer has room for two polls and the stray reply.    *)
NoReplyDropped ==
  RXNE /\ fun_ptr = "gyro_xyz_Callback" => ~pc_buffer_full(rx)

(* When all is quiet, exactly one poll is waiting for the next interval,   *)
(* beside the stray reply: no reply was lost or counted twice, over any    *)
(* number of intervals.                                                    *)
OnePollAhead ==
  pc = "idle" /\ pc_buffer_empty(tx) /\ txfifo = << >> /\ rxfifo = << >>
    => Used(rx) = REGS + Skew

(* The driver waits for a reply to bytes the peripheral holds and was      *)
(* turned off with.                                                        *)
BusStopped == pc = "take" /\ pc_buffer_empty(rx) /\ ~spe /\ txfifo # << >>

(* gyro_config and telem_handler's two calls return, unless the bus stops  *)
(* for good with bytes in it because gyro_write turned it off: the room    *)
(* gyro_write waits for is always made, and no reply is waited for that    *)
(* was not asked for.                                                      *)
DriverReturns == pc # "idle" ~> (pc = "idle" \/ []BusStopped)
=============================================================================
