------------------------------- MODULE PCBuffer -------------------------------
(***************************************************************************)
(* The produce/consume ring buffer of common/pcbuffer.c.                   *)
(*                                                                         *)
(* A buffer is a record with the fields of the C struct.  The counters run *)
(* freely and wrap at the width of their type; a slot's index is a counter *)
(* modulo buffer_SIZE.  Nothing here is atomic by itself: the modules that *)
(* use a buffer decide which of these operations an interrupt can separate.*)
(***************************************************************************)
EXTENDS Integers, Sequences

CONSTANTS
  COUNT_MOD,      (* 2^32: the counters are uint32_t                       *)
  MESSAGE_MOD     (* 2^16: message_available is uint16_t                   *)

ASSUME WidthAssumption ==
  /\ COUNT_MOD \in Nat \ {0}
  /\ MESSAGE_MOD \in Nat \ {0}

PC_Buffer(Value, size) ==
  [array : [0..size-1 -> Value], buffer_SIZE : {size},
   produce_count : 0..COUNT_MOD-1, consume_count : 0..COUNT_MOD-1,
   message_available : 0..MESSAGE_MOD-1]

(* malloc'ed slots hold whatever was there: `junk' stands for it. *)
pc_buffer_init(size, junk) ==
  [array |-> [i \in 0..size-1 |-> junk], buffer_SIZE |-> size,
   produce_count |-> 0, consume_count |-> 0, message_available |-> 0]

(* produce_count - consume_count in uint32_t arithmetic. *)
Used(buf) == (buf.produce_count - buf.consume_count) % COUNT_MOD

pc_buffer_empty(buf) == buf.produce_count = buf.consume_count

pc_buffer_full(buf) == Used(buf) = buf.buffer_SIZE

(* Mutant: the index wraps one slot early. *)
pc_buffer_add_ShortRing(buf, data) ==
  [buf EXCEPT !.array[buf.produce_count % (buf.buffer_SIZE - 1)] = data,
              !.produce_count = (@ + 1) % COUNT_MOD]

pc_buffer_add(buf, data) ==
  [buf EXCEPT !.array[buf.produce_count % buf.buffer_SIZE] = data,
              !.produce_count = (@ + 1) % COUNT_MOD]

(* What pc_buffer_remove stores through its pointer, and the buffer after. *)
Oldest(buf) == buf.array[buf.consume_count % buf.buffer_SIZE]

pc_buffer_remove(buf) ==
  [buf EXCEPT !.consume_count = (@ + 1) % COUNT_MOD]

(* rx->produce_count--, which the USART interrupt handler does on its own. *)
Unproduce(buf) == [buf EXCEPT !.produce_count = (@ - 1) % COUNT_MOD]

(* rx->message_available++. *)
CountMessage(buf) == [buf EXCEPT !.message_available = (@ + 1) % MESSAGE_MOD]

NEWLINE_GUARD(curr, prev) ==
  \/ curr = "LF" /\ prev # "CR"
  \/ curr = "CR" /\ prev # "LF"

(* Mutant: no look at whether there is room. *)
AddIfRoom_Overwrites(buf, data) == pc_buffer_add(buf, data)

AddIfRoom(buf, data) ==
  IF pc_buffer_full(buf) THEN buf ELSE pc_buffer_add(buf, data)

(***************************************************************************)
(* The values a reader of the buffer will get, oldest first.               *)
(***************************************************************************)
Contents(buf) ==
  [i \in 1..Used(buf) |->
     buf.array[((buf.consume_count + i - 1) % COUNT_MOD) % buf.buffer_SIZE]]
=============================================================================
