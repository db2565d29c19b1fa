-------------------------------- MODULE Lidar --------------------------------
(***************************************************************************)
(* The frame parser of driver/lidar.c, fed one byte per receive interrupt  *)
(* by USART2_Handler and USART3_Handler, and the TFmini sensor at the      *)
(* other end of the line.  The sensor streams from power-up and never      *)
(* waits: the program starts to listen in the middle of a frame, and a     *)
(* byte may be lost or altered on the way.                                 *)
(***************************************************************************)
EXTENDS Integers, Sequences

CONSTANTS
  BYTE_MOD,        (* 256: checksum is a uint8_t                           *)
  TFMINT_DATA_HEAD, (* 0x59, each of a frame's first two bytes             *)
  Lidars,          (* 1 is on USART2, 2 on USART3                          *)
  Measurements,    (* what a sensor sends: sequences of the six bytes      *)
                   (* dist_l, dist_h, strength_l, strength_h, reserved, q  *)
  Noise,           (* bytes an altered byte may turn into                  *)
  ResyncFrames     (* distinct frames that bring the parser into step      *)

Byte == 0..BYTE_MOD-1
FrameLength == 9                           \* TFMINI_DATA_Len

ASSUME LidarAssumption ==
  /\ BYTE_MOD \in Nat \ {0}
  /\ TFMINT_DATA_HEAD \in Byte
  /\ Measurements \subseteq [1..6 -> Byte]
  /\ Noise \subseteq Byte
  /\ ResyncFrames \in Nat

States == {"frame_header1", "frame_header2", "dist_l", "dist_h", "strength_l",
           "strength_h", "reserved", "raw_qual", "checksum"}

(* The state that follows each state of the frame's body. *)
BodyNext ==
  [dist_l |-> "dist_h", dist_h |-> "strength_l", strength_l |-> "strength_h",
   strength_h |-> "reserved", reserved |-> "raw_qual", raw_qual |-> "checksum"]

VARIABLES
  lidar,           (* lidar1 and lidar2: state, checksum, dist, valid_dist *)
  measured,        (* the measurement in the frame being sent              *)
  pos,             (* index in that frame of the byte sent next            *)
  reported,        (* the distance of the last frame sent to its end       *)
  clean            (* whole distinct frames since the last disturbance     *)

vars == <<lidar, measured, pos, reported, clean>>

-----------------------------------------------------------------------------
(* Mutant: a sum wider than its uint8_t. *)
Summed_Wide(l, c) == l.checksum + c

(* checksum += c *)
Summed(l, c) == (l.checksum + c) % BYTE_MOD

(* Mutant: dist is not cleared of the frame before. *)
Dist_Accumulates(l, c) ==
  CASE l.state = "dist_l" -> l.dist + c
    [] l.state = "dist_h" -> l.dist + BYTE_MOD * c
    [] OTHER -> l.dist

Dist(l, c) ==
  CASE l.state = "dist_l" -> c
    [] l.state = "dist_h" -> l.dist + BYTE_MOD * c
    [] OTHER -> l.dist

(* Mutant: the next frame's sum starts where this one's ended. *)
EndFrame_KeepsSum(l, c) ==
  [l EXCEPT !.valid_dist = IF l.checksum = c THEN l.dist ELSE @,
            !.state = "frame_header1"]

EndFrame(l, c) ==
  [l EXCEPT !.valid_dist = IF l.checksum = c THEN l.dist ELSE @,
            !.checksum = 0,
            !.state = "frame_header1"]

(* One byte through lidar_state_machine.  The checksum sums every byte,    *)
(* those that are skipped in search of a header too.                       *)
lidar_state_machine(l, c) ==
  LET sum == Summed(l, c)
  IN  CASE l.state = "frame_header1" ->
             [l EXCEPT !.checksum = sum,
                       !.state = IF c = TFMINT_DATA_HEAD THEN "frame_header2" ELSE @]
        [] l.state = "frame_header2" ->
             [l EXCEPT !.checksum = sum,
                       !.state = IF c = TFMINT_DATA_HEAD THEN "dist_l" ELSE @]
        [] l.state = "checksum" -> EndFrame(l, c)
        [] l.state \in DOMAIN BodyNext ->
             [l EXCEPT !.checksum = sum,
                       !.dist = Dist(l, c),
                       !.state = BodyNext[l.state]]

-----------------------------------------------------------------------------
(* The sensor's frame: two header bytes, the measurement, its checksum. *)
Sum(m) == m[1] + m[2] + m[3] + m[4] + m[5] + m[6]

FrameByte(m, i) ==
  CASE i < 2  -> TFMINT_DATA_HEAD
    [] i = 8  -> (2 * TFMINT_DATA_HEAD + Sum(m)) % BYTE_MOD
    [] OTHER  -> m[i - 1]

Distance(m) == m[1] + BYTE_MOD * m[2]

(* `clean' while the frame under way is cut short, lost in part or altered.*)
Broken == -1

Init ==
  /\ lidar = [n \in Lidars |-> [state |-> "frame_header1", checksum |-> 0,
                                dist |-> 0, valid_dist |-> 0]]
  /\ measured \in [Lidars -> Measurements]
  /\ pos \in [Lidars -> 0..FrameLength-1]
  /\ reported = [n \in Lidars |-> 0]
  /\ clean = [n \in Lidars |-> IF pos[n] = 0 THEN 0 ELSE Broken]

(* A frame none of whose bytes but the first two can be taken for a header.*)
Distinct(m) == \A i \in 2..FrameLength-1 : FrameByte(m, i) # TFMINT_DATA_HEAD

(* Frames delivered in a row, the one that ends now included.  Only        *)
(* distinct frames bring the parser into step; once it is, any whole frame *)
(* keeps it there.                                                         *)
Count(m, whole) ==
  CASE whole = ResyncFrames -> ResyncFrames
    [] whole = Broken       -> 0
    [] OTHER                -> IF Distinct(m) THEN whole + 1 ELSE 0

(* The sensor goes on to its next byte. *)
Advance(n, whole) ==
  \/ /\ pos[n] < FrameLength - 1
     /\ pos' = [pos EXCEPT ![n] = @ + 1]
     /\ clean' = [clean EXCEPT ![n] = whole]
     /\ UNCHANGED <<measured, reported>>
  \/ /\ pos[n] = FrameLength - 1
     /\ pos' = [pos EXCEPT ![n] = 0]
     /\ clean' = [clean EXCEPT ![n] = Count(measured[n], whole)]
     /\ reported' = [reported EXCEPT ![n] = Distance(measured[n])]
     /\ \E m \in Measurements : measured' = [measured EXCEPT ![n] = m]

Deliver(n, c) == lidar' = [lidar EXCEPT ![n] = lidar_state_machine(@, c)]

(* lidar1_callback, lidar2_callback *)
Callback(n) ==
  /\ Deliver(n, FrameByte(measured[n], pos[n]))
  /\ Advance(n, clean[n])

Lose(n) ==
  /\ lidar' = lidar
  /\ Advance(n, Broken)

Alter(n, c) ==
  /\ Deliver(n, c)
  /\ Advance(n, Broken)

Next ==
  \E n \in Lidars : \/ Callback(n)
                    \/ Lose(n)
                    \/ \E c \in Noise : Alter(n, c)

Spec == Init /\ [][Next]_vars

-----------------------------------------------------------------------------
TypeOK ==
  /\ lidar \in [Lidars -> [state : States, checksum : Byte,
                           dist : 0..BYTE_MOD*BYTE_MOD-1, valid_dist : 0..BYTE_MOD*BYTE_MOD-1]]
  /\ measured \in [Lidars -> Measurements]
  /\ pos \in [Lidars -> 0..FrameLength-1]
  /\ reported \in [Lidars -> 0..BYTE_MOD*BYTE_MOD-1]
  /\ clean \in [Lidars -> {Broken} \union (0..ResyncFrames)]

(* The parser is where the sensor is, between two frames, and its sum is 0.*)
InStep(n) ==
  pos[n] = 0 => lidar[n].state = "frame_header1" /\ lidar[n].checksum = 0

(* However the parser started and whatever was lost or altered, it is in   *)
(* step again after ResyncFrames whole frames in a row that are distinct:  *)
(* with no header byte behind their two.  Of other frames nothing is said  *)
(* until it is in step: a measurement that has a header byte in it, sent   *)
(* again and again, may hold it out of step for ever.                      *)
Resyncs == \A n \in Lidars : clean[n] = ResyncFrames => InStep(n)

(* And from then on, until the next disturbance, the distance it reports   *)
(* is the one the sensor sent last, whatever the frames that follow those  *)
(* distinct ones hold: every frame is accepted, and nothing of a frame     *)
(* that was not.                                                           *)
Tracks == \A n \in Lidars : clean[n] = ResyncFrames => lidar[n].valid_dist = reported[n]
=============================================================================
