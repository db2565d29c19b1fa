------------------------------- MODULE MCUsart -------------------------------
(***************************************************************************)
(* Small instances of Usart.  Two slots and counters of two bits: a full   *)
(* buffer, an empty one, the wrap of the slots and the wrap of the         *)
(* counters all happen within one frame.                                   *)
(***************************************************************************)
EXTENDS Usart
=============================================================================
