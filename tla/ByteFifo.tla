------------------------------- MODULE ByteFifo -------------------------------
(***************************************************************************)
(* What a ring buffer between a thread and an interrupt handler promises:  *)
(* a bounded first-in first-out queue.  Nothing is lost, duplicated or     *)
(* reordered once it is queued, the queue never exceeds its capacity, and  *)
(* the value taken is the value that becomes visible to the taker.         *)
(***************************************************************************)
EXTENDS Naturals, Sequences

CONSTANTS Value, Capacity

VARIABLES
  queue,          (* the values queued, oldest first                       *)
  out             (* the value taken last                                  *)

Init ==
  /\ queue = << >>
  /\ out \in Value

Put ==
  /\ Len(queue) < Capacity
  /\ \E v \in Value : queue' = Append(queue, v)
  /\ out' = out

Take ==
  /\ queue # << >>
  /\ out' = Head(queue)
  /\ queue' = Tail(queue)

Next == Put \/ Take

Safety == Init /\ [][Next]_<<queue, out>>

(* A queue whose taker is never forgotten. *)
Spec == Safety /\ WF_<<queue, out>>(Take)
=============================================================================
