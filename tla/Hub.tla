--------------------------------- MODULE Hub ---------------------------------
(***************************************************************************)
(* What a stream of the telemetry daemon promises: members come and go,    *)
(* publishers publish side by side.  A publication that ends has reached   *)
(* every member that was there from its beginning to its end; one that     *)
(* does not get that far fails, and its publisher knows.                   *)
(*                                                                         *)
(* There is one way to be passed over in silence: someone joins while the  *)
(* hub has no room left, and a publication is going on.                    *)
(***************************************************************************)
EXTENDS Naturals

CONSTANTS Publishers, Subscribers, ROOM

VARIABLES
  members,         (* who is registered                                    *)
  room,            (* how many can join before everything is moved         *)
  status,          (* each publisher's last publication                    *)
  owed             (* the members it has still to reach                    *)

hubVars == <<members, room, status, owed>>

Init ==
  /\ members = {}
  /\ room = ROOM
  /\ status = [p \in Publishers |-> "ended"]
  /\ owed = [p \in Publishers |-> {}]

(* Whoever joins may be reached by the publications going on. *)
Join(s) ==
  /\ room > 0
  /\ room' = room - 1
  /\ members' = members \union {s}
  /\ owed' \in [Publishers -> SUBSET members']
  /\ \A p \in Publishers :
       IF status[p] = "busy"
       THEN owed[p] \subseteq owed'[p] /\ owed'[p] \subseteq owed[p] \union {s}
       ELSE owed'[p] = {}
  /\ UNCHANGED status

JoinFull(s) ==
  /\ room = 0
  /\ room' \in Nat
  /\ members' = members \union {s}
  /\ owed' \in [Publishers -> SUBSET members']
  /\ \A p \in Publishers :
       IF status[p] = "busy" THEN owed'[p] \subseteq owed[p] \union {s}
       ELSE owed'[p] = {}
  /\ UNCHANGED status

Leave(s) ==
  /\ members' = members \ {s}
  /\ owed' = [p \in Publishers |-> owed[p] \ {s}]
  /\ UNCHANGED <<room, status>>

Begin(p) ==
  /\ status[p] # "busy"
  /\ status' = [status EXCEPT ![p] = "busy"]
  /\ owed' = [owed EXCEPT ![p] = members]
  /\ UNCHANGED <<members, room>>

Reach(p, s) ==
  /\ s \in owed[p]
  /\ owed' = [owed EXCEPT ![p] = @ \ {s}]
  /\ UNCHANGED <<members, room, status>>

End(p) ==
  /\ status[p] = "busy" /\ owed[p] = {}
  /\ status' = [status EXCEPT ![p] = "ended"]
  /\ UNCHANGED <<members, room, owed>>

Fail(p) ==
  /\ status[p] = "busy"
  /\ status' = [status EXCEPT ![p] = "failed"]
  /\ owed' = [owed EXCEPT ![p] = {}]
  /\ UNCHANGED <<members, room>>

Next ==
  \/ \E s \in Subscribers : Join(s) \/ JoinFull(s) \/ Leave(s)
  \/ \E p \in Publishers :
       Begin(p) \/ End(p) \/ Fail(p) \/ \E s \in Subscribers : Reach(p, s)

Spec == Init /\ [][Next]_hubVars
=============================================================================
