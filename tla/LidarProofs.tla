----------------------------- MODULE LidarProofs -----------------------------
(***************************************************************************)
(* Theorems about Lidar, for any byte, header, measurements and noise: how *)
(* the parser comes into step with the sensor, frame by frame.             *)
(***************************************************************************)
EXTENDS Lidar, TLAPS

Distances == 0..BYTE_MOD*BYTE_MOD-1

Parser == [state : States, checksum : Byte, dist : Distances, valid_dist : Distances]

(* The high byte is added to a distance that has only the low one. *)
LowDistance == \A n \in Lidars : lidar[n].state = "dist_h" => lidar[n].dist \in Byte

(* How many bytes of a frame the parser takes itself to have had. *)
Place ==
  [frame_header1 |-> 0, frame_header2 |-> 1, dist_l |-> 2, dist_h |-> 3,
   strength_l |-> 4, strength_h |-> 5, reserved |-> 6, raw_qual |-> 7, checksum |-> 8]

(* Where the parser may be when it has had k distinct frames and i bytes   *)
(* of another.  It may have started anywhere, and waits for a second       *)
(* header byte after the first frame at worst, for a first one after the   *)
(* second.                                                                 *)
Reach(k, i) ==
  CASE k = 0 -> IF i <= 2 THEN 0..8 ELSE {0, 1} \union i..8
    [] k = 1 -> IF i = 8 THEN {0, 8} ELSE {i, i + 1}
    [] OTHER -> {i}

Following(n) ==
  clean[n] # Broken /\ (Distinct(measured[n]) \/ clean[n] >= 3)
    => Place[lidar[n].state] \in Reach(clean[n], pos[n])

(* The sum of a frame's first i bytes. *)
Partial(m, i) ==
  CASE i = 0 -> 0
    [] i = 1 -> TFMINT_DATA_HEAD
    [] i = 2 -> 2 * TFMINT_DATA_HEAD
    [] i = 3 -> 2 * TFMINT_DATA_HEAD + m[1]
    [] i = 4 -> 2 * TFMINT_DATA_HEAD + m[1] + m[2]
    [] i = 5 -> 2 * TFMINT_DATA_HEAD + m[1] + m[2] + m[3]
    [] i = 6 -> 2 * TFMINT_DATA_HEAD + m[1] + m[2] + m[3] + m[4]
    [] i = 7 -> 2 * TFMINT_DATA_HEAD + m[1] + m[2] + m[3] + m[4] + m[5]
    [] i = 8 -> 2 * TFMINT_DATA_HEAD + Sum(m)

(* After three frames the sum and the distance are the frame's too. *)
Agreeing(n) ==
  clean[n] >= 3 =>
    /\ lidar[n].checksum = Partial(measured[n], pos[n]) % BYTE_MOD
    /\ pos[n] = 3 => lidar[n].dist = measured[n][1]
    /\ pos[n] >= 4 => lidar[n].dist = Distance(measured[n])

(* After four the distance reported is the last frame's. *)
Reporting(n) == clean[n] >= 4 => lidar[n].valid_dist = reported[n]

InStepBy == \A n \in Lidars : Following(n) /\ Agreeing(n) /\ Reporting(n)

-----------------------------------------------------------------------------
LEMMA Widths ==
  /\ BYTE_MOD \in Nat \ {0} /\ TFMINT_DATA_HEAD \in Byte
  /\ Byte \subseteq Distances /\ 0 \in Byte
  /\ \A a, b \in Byte : a + BYTE_MOD * b \in Distances
<1>1. BYTE_MOD \in Nat \ {0} /\ TFMINT_DATA_HEAD \in Byte
  BY LidarAssumption
<1>2. BYTE_MOD * BYTE_MOD \in Nat /\ BYTE_MOD * BYTE_MOD >= BYTE_MOD
  BY <1>1
<1>3. ASSUME NEW a \in Byte, NEW b \in Byte
      PROVE  a + BYTE_MOD * b \in Distances
  <2>1. a \in 0..(BYTE_MOD - 1) /\ b \in 0..(BYTE_MOD - 1)
    BY DEF Byte
  <2>2. BYTE_MOD * b <= BYTE_MOD * (BYTE_MOD - 1) /\ BYTE_MOD * b \in Nat
    BY <1>1, <2>1
  <2>3. BYTE_MOD * (BYTE_MOD - 1) = BYTE_MOD * BYTE_MOD - BYTE_MOD
    BY <1>1
  <2> QED
    BY <1>1, <1>2, <2>1, <2>2, <2>3 DEF Distances
<1> QED
  BY <1>1, <1>2, <1>3 DEF Byte, Distances

LEMMA Remainder ==
  ASSUME NEW s \in Nat \ {0}, NEW q \in Int, NEW r \in 0..s-1
  PROVE  (s * q + r) % s = r
OBVIOUS

(* A sum taken byte by byte, in a byte. *)
LEMMA SumInByte ==
  ASSUME NEW a \in Nat, NEW c \in Nat
  PROVE  ((a % BYTE_MOD) + c) % BYTE_MOD = (a + c) % BYTE_MOD
<1> DEFINE q == a \div BYTE_MOD
           r == a % BYTE_MOD
           p == (r + c) \div BYTE_MOD
           t == (r + c) % BYTE_MOD
<1>1. BYTE_MOD \in Nat \ {0}
  BY LidarAssumption
<1>2. a = BYTE_MOD * q + r /\ q \in Int /\ r \in 0..(BYTE_MOD - 1)
  BY <1>1
<1>3. r + c \in Int
  BY <1>2
<1>4. r + c = BYTE_MOD * p + t /\ p \in Int /\ t \in 0..(BYTE_MOD - 1)
  <2> HIDE DEF r
  <2> QED
    BY <1>1, <1>3
<1> HIDE DEF q, r, p, t
<1>5. a + c = BYTE_MOD * (q + p) + t /\ q + p \in Int
  BY <1>1, <1>2, <1>4
<1>6. (BYTE_MOD * (q + p) + t) % BYTE_MOD = t
  BY <1>1, <1>4, <1>5, Remainder
<1> QED
  BY <1>5, <1>6 DEF r, t

-----------------------------------------------------------------------------
(* The parser's steps, by place. *)
LEMMA PlaceType ==
  ASSUME NEW s \in States
  PROVE  /\ Place[s] \in 0..8
         /\ s = "frame_header1" <=> Place[s] = 0
         /\ s = "frame_header2" <=> Place[s] = 1
         /\ s = "dist_l" <=> Place[s] = 2
         /\ s = "dist_h" <=> Place[s] = 3
         /\ s = "checksum" <=> Place[s] = 8
BY DEF Place, States

LEMMA ParserStep ==
  ASSUME NEW l \in Parser, l.state = "dist_h" => l.dist \in Byte, NEW c \in Byte
  PROVE  LET new == lidar_state_machine(l, c)
             p   == Place[l.state]
         IN  /\ new \in Parser
             /\ new.state = "dist_h" => new.dist \in Byte
             /\ Place[new.state] =
                  CASE p < 2 -> IF c = TFMINT_DATA_HEAD THEN p + 1 ELSE p
                    [] p \in 2..7 -> p + 1
                    [] p = 8 -> 0
             /\ new.checksum = IF p = 8 THEN 0 ELSE (l.checksum + c) % BYTE_MOD
             /\ new.dist = CASE p = 2 -> c
                             [] p = 3 -> l.dist + BYTE_MOD * c
                             [] OTHER -> l.dist
             /\ new.valid_dist = IF p = 8 /\ l.checksum = c THEN l.dist ELSE l.valid_dist
<1> DEFINE new == lidar_state_machine(l, c)
           sum == (l.checksum + c) % BYTE_MOD
<1>1. /\ l.state \in States /\ l.checksum \in Byte
      /\ l.dist \in Distances /\ l.valid_dist \in Distances
      /\ l = [state |-> l.state, checksum |-> l.checksum,
              dist |-> l.dist, valid_dist |-> l.valid_dist]
  BY DEF Parser
<1>2. sum \in Byte /\ Summed(l, c) = sum
  BY <1>1, Widths DEF Byte, Summed
<1>3. \A b \in Byte : b \in Distances
  BY Widths
<1>b. DOMAIN BodyNext = {"dist_l", "dist_h", "strength_l", "strength_h",
                         "reserved", "raw_qual"}
  BY DEF BodyNext
<1> HIDE DEF sum
<1>4. CASE l.state = "frame_header1"
  <2>1. new = [l EXCEPT !.checksum = sum,
                        !.state = IF c = TFMINT_DATA_HEAD THEN "frame_header2" ELSE @]
    BY <1>2, <1>4, <1>b DEF lidar_state_machine
  <2> HIDE DEF new
  <2>2. /\ new.state = IF c = TFMINT_DATA_HEAD THEN "frame_header2" ELSE "frame_header1"
        /\ new.checksum = sum /\ new.dist = l.dist /\ new.valid_dist = l.valid_dist
        /\ new \in Parser
    BY <1>1, <1>2, <1>4, <2>1 DEF Parser, States
  <2>3. Place["frame_header1"] = 0 /\ Place["frame_header2"] = 1
    BY DEF Place
  <2> QED
    BY <1>4, <2>2, <2>3 DEF new, sum
<1>5. CASE l.state = "frame_header2"
  <2>1. new = [l EXCEPT !.checksum = sum,
                        !.state = IF c = TFMINT_DATA_HEAD THEN "dist_l" ELSE @]
    BY <1>2, <1>5, <1>b DEF lidar_state_machine
  <2> HIDE DEF new
  <2>2. /\ new.state = IF c = TFMINT_DATA_HEAD THEN "dist_l" ELSE "frame_header2"
        /\ new.checksum = sum /\ new.dist = l.dist /\ new.valid_dist = l.valid_dist
        /\ new \in Parser
    BY <1>1, <1>2, <1>5, <2>1 DEF Parser, States
  <2>3. Place["frame_header2"] = 1 /\ Place["dist_l"] = 2
    BY DEF Place
  <2> QED
    BY <1>5, <2>2, <2>3 DEF new, sum
<1>6. CASE l.state = "checksum"
  <2>1. new = [l EXCEPT !.valid_dist = IF l.checksum = c THEN l.dist ELSE @,
                        !.checksum = 0,
                        !.state = "frame_header1"]
    BY <1>6, <1>b DEF lidar_state_machine, EndFrame
  <2> HIDE DEF new
  <2>2. /\ new.state = "frame_header1" /\ new.checksum = 0 /\ new.dist = l.dist
        /\ new.valid_dist = IF l.checksum = c THEN l.dist ELSE l.valid_dist
        /\ new \in Parser
    BY <1>1, <2>1, Widths DEF Parser, States
  <2>3. Place["frame_header1"] = 0 /\ Place["checksum"] = 8
    BY DEF Place
  <2> QED
    BY <1>6, <2>2, <2>3 DEF new
<1>7. CASE l.state \in DOMAIN BodyNext
  <2>1. new = [l EXCEPT !.checksum = sum, !.dist = Dist(l, c),
                        !.state = BodyNext[l.state]]
    BY <1>2, <1>7, <1>b DEF lidar_state_machine
  <2>2. l.state \in {"dist_l", "dist_h", "strength_l", "strength_h", "reserved", "raw_qual"}
    BY <1>7, <1>b
  <2>3. /\ BodyNext[l.state] \in States
        /\ Place[BodyNext[l.state]] = Place[l.state] + 1
        /\ Place[l.state] \in 2..7
        /\ BodyNext[l.state] = "dist_h" <=> l.state = "dist_l"
    BY <2>2 DEF BodyNext, Place, States
  <2>4. Dist(l, c) = CASE Place[l.state] = 2 -> c
                       [] Place[l.state] = 3 -> l.dist + BYTE_MOD * c
                       [] OTHER -> l.dist
    BY <2>2 DEF Dist, Place
  <2>5. Dist(l, c) \in Distances /\ (l.state = "dist_l" => Dist(l, c) = c)
    <3>1. l.state = "dist_h" => l.dist + BYTE_MOD * c \in Distances
      BY Widths
    <3> QED
      BY <1>1, <1>3, <3>1 DEF Dist
  <2>6. /\ new.state = BodyNext[l.state] /\ new.checksum = sum
        /\ new.dist = Dist(l, c) /\ new.valid_dist = l.valid_dist
        /\ new \in Parser
    <3> HIDE DEF new
    <3> QED
      BY <1>1, <1>2, <2>1, <2>3, <2>5 DEF Parser
  <2> HIDE DEF new
  <2>7. Place[new.state] = Place[l.state] + 1 /\ Place[l.state] \in 2..7
    BY <2>3, <2>6
  <2>8. new.state = "dist_h" => new.dist \in Byte
    BY <2>3, <2>5, <2>6
  <2> QED
    BY <2>4, <2>6, <2>7, <2>8 DEF new, sum
<1> QED
  BY <1>1, <1>4, <1>5, <1>6, <1>7, <1>b DEF States

-----------------------------------------------------------------------------
(* The sensor's side. *)
LEMMA FrameBytes ==
  ASSUME NEW m \in Measurements
  PROVE  /\ \A j \in 1..6 : m[j] \in Byte
         /\ \A i \in 0..8 : FrameByte(m, i) \in Byte
         /\ \A i \in {0, 1} : FrameByte(m, i) = TFMINT_DATA_HEAD
         /\ \A i \in 2..7 : FrameByte(m, i) = m[i - 1]
         /\ Distance(m) \in Distances
         /\ Partial(m, 8) \in Nat
         /\ FrameByte(m, 8) = Partial(m, 8) % BYTE_MOD
<1>1. m \in [1..6 -> Byte]
  BY LidarAssumption
<1>2. \A j \in 1..6 : m[j] \in Byte
  BY <1>1
<1>3. \A i \in {0, 1} : FrameByte(m, i) = TFMINT_DATA_HEAD
  BY DEF FrameByte
<1>4. \A i \in 2..7 : FrameByte(m, i) = m[i - 1]
  BY DEF FrameByte
<1>5. Sum(m) \in Nat /\ TFMINT_DATA_HEAD \in Nat
  <2>1. /\ m[1] \in Nat /\ m[2] \in Nat /\ m[3] \in Nat
        /\ m[4] \in Nat /\ m[5] \in Nat /\ m[6] \in Nat
    BY <1>2, Widths DEF Byte
  <2> QED
    BY <2>1, Widths DEF Sum, Byte
<1>6. Partial(m, 8) = 2 * TFMINT_DATA_HEAD + Sum(m) /\ Partial(m, 8) \in Nat
  BY <1>5 DEF Partial
<1>7. FrameByte(m, 8) = Partial(m, 8) % BYTE_MOD
  BY <1>6 DEF FrameByte
<1>8. FrameByte(m, 8) \in Byte
  BY <1>6, <1>7, Widths DEF Byte
<1>9. \A i \in 0..8 : FrameByte(m, i) \in Byte
  <2>1. \A i \in 2..7 : i - 1 \in 1..6
    OBVIOUS
  <2>2. \A i \in 0..8 : i \in {0, 1} \/ i \in 2..7 \/ i = 8
    OBVIOUS
  <2> QED
    BY <1>2, <1>3, <1>4, <1>8, <2>1, <2>2, Widths
<1>10. Distance(m) \in Distances
  <2>1. m[1] \in Byte /\ m[2] \in Byte
    BY <1>2
  <2> QED
    BY <2>1, Widths DEF Distance
<1> QED
  BY <1>2, <1>3, <1>4, <1>6, <1>7, <1>9, <1>10

LEMMA PartialStep ==
  ASSUME NEW m \in Measurements, NEW i \in 0..7
  PROVE  Partial(m, i) \in Nat /\ Partial(m, i + 1) = Partial(m, i) + FrameByte(m, i)
<1>1. /\ m[1] \in Nat /\ m[2] \in Nat /\ m[3] \in Nat
      /\ m[4] \in Nat /\ m[5] \in Nat /\ m[6] \in Nat /\ TFMINT_DATA_HEAD \in Nat
  BY FrameBytes, Widths DEF Byte
<1>2. CASE i = 0
  BY <1>1, <1>2 DEF Partial, FrameByte
<1>3. CASE i = 1
  BY <1>1, <1>3 DEF Partial, FrameByte
<1>4. CASE i = 2
  BY <1>1, <1>4 DEF Partial, FrameByte
<1>5. CASE i = 3
  BY <1>1, <1>5 DEF Partial, FrameByte
<1>6. CASE i = 4
  BY <1>1, <1>6 DEF Partial, FrameByte
<1>7. CASE i = 5
  BY <1>1, <1>7 DEF Partial, FrameByte
<1>8. CASE i = 6
  BY <1>1, <1>8 DEF Partial, FrameByte
<1>9. CASE i = 7
  BY <1>1, <1>9 DEF Partial, FrameByte, Sum
<1> QED
  BY <1>2, <1>3, <1>4, <1>5, <1>6, <1>7, <1>8, <1>9

(* What a step is to one sensor and its parser. *)
Stays(n) ==
  /\ lidar'[n] = lidar[n] /\ measured'[n] = measured[n] /\ pos'[n] = pos[n]
  /\ reported'[n] = reported[n] /\ clean'[n] = clean[n]

Goes(n, whole) ==
  \/ /\ pos[n] < 8 /\ pos'[n] = pos[n] + 1 /\ clean'[n] = whole
     /\ measured'[n] = measured[n] /\ reported'[n] = reported[n]
  \/ /\ pos[n] = 8 /\ pos'[n] = 0 /\ clean'[n] = Count(measured[n], whole)
     /\ reported'[n] = Distance(measured[n])

Hears(n) == lidar'[n] = lidar_state_machine(lidar[n], FrameByte(measured[n], pos[n]))

LEMMA StepAt ==
  ASSUME TypeOK, [Next]_vars, NEW n \in Lidars
  PROVE  Stays(n) \/ (Goes(n, clean[n]) /\ Hears(n)) \/ Goes(n, Broken)
<1>1. ASSUME NEW r \in Lidars, NEW whole, Advance(r, whole)
      PROVE  /\ r = n => Goes(n, whole)
             /\ r # n => /\ measured'[n] = measured[n] /\ pos'[n] = pos[n]
                         /\ reported'[n] = reported[n] /\ clean'[n] = clean[n]
  <2>1. /\ measured \in [Lidars -> Measurements] /\ DOMAIN pos = Lidars
        /\ DOMAIN clean = Lidars /\ DOMAIN reported = Lidars
    BY DEF TypeOK
  <2>2. CASE pos[r] < FrameLength - 1
    BY <1>1, <2>1, <2>2 DEF Advance, Goes, FrameLength
  <2>3. CASE pos[r] = FrameLength - 1
    <3>1. PICK m \in Measurements : measured' = [measured EXCEPT ![r] = m]
      BY <1>1, <2>3 DEF Advance, FrameLength
    <3> QED
      BY <1>1, <2>1, <2>3, <3>1 DEF Advance, Goes, FrameLength
  <2> QED
    BY <1>1, <2>2, <2>3 DEF Advance
<1>2. DOMAIN lidar = Lidars
  BY DEF TypeOK
<1>3. ASSUME NEW r \in Lidars, Callback(r)
      PROVE  Stays(n) \/ (Goes(n, clean[n]) /\ Hears(n))
  BY <1>1, <1>2, <1>3 DEF Callback, Deliver, Stays, Hears
<1>4. ASSUME NEW r \in Lidars, Lose(r) PROVE Stays(n) \/ Goes(n, Broken)
  BY <1>1, <1>4 DEF Lose, Stays
<1>5. ASSUME NEW r \in Lidars, NEW c \in Noise, Alter(r, c)
      PROVE  Stays(n) \/ Goes(n, Broken)
  BY <1>1, <1>2, <1>5 DEF Alter, Deliver, Stays
<1>6. CASE UNCHANGED vars
  BY <1>6 DEF vars, Stays
<1> QED
  BY <1>3, <1>4, <1>5, <1>6 DEF Next

-----------------------------------------------------------------------------
Inv == TypeOK /\ LowDistance

LEMMA TypeInit == Init => Inv
<1>1. "frame_header1" \in States /\ 0 \in Byte /\ 0 \in Distances
  BY Widths DEF States
<1>2. Broken \notin Nat /\ ResyncFrames \in Nat
  BY LidarAssumption DEF Broken
<1> QED
  BY <1>1, <1>2 DEF Init, Inv, TypeOK, LowDistance, Distances

LEMMA TypeStep == Inv /\ [Next]_vars => Inv'
<1> SUFFICES ASSUME Inv, [Next]_vars PROVE Inv'
  OBVIOUS
<1>a. /\ lidar \in [Lidars -> Parser] /\ LowDistance
      /\ measured \in [Lidars -> Measurements]
      /\ pos \in [Lidars -> 0..8] /\ reported \in [Lidars -> Distances]
      /\ clean \in [Lidars -> {Broken} \union (0..ResyncFrames)]
      /\ ResyncFrames \in Nat /\ Broken = -1
  BY LidarAssumption DEF Inv, TypeOK, Parser, Distances, FrameLength, Broken
<1>1. ASSUME NEW n \in Lidars, NEW whole \in {Broken} \union (0..ResyncFrames),
             Advance(n, whole)
      PROVE  /\ measured' \in [Lidars -> Measurements]
             /\ pos' \in [Lidars -> 0..8] /\ reported' \in [Lidars -> Distances]
             /\ clean' \in [Lidars -> {Broken} \union (0..ResyncFrames)]
  <2>1. CASE pos[n] < FrameLength - 1
    <3>1. pos[n] + 1 \in 0..8
      BY <1>a, <2>1 DEF FrameLength
    <3> QED
      BY <1>1, <1>a, <2>1, <3>1 DEF Advance, FrameLength
  <2>2. CASE pos[n] = FrameLength - 1
    <3>1. PICK m \in Measurements : measured' = [measured EXCEPT ![n] = m]
      BY <1>1, <2>2 DEF Advance, FrameLength
    <3>2. Distance(measured[n]) \in Distances /\ 0 \in 0..8
      BY <1>a, FrameBytes
    <3>3. Count(measured[n], whole) \in 0..ResyncFrames
      BY <1>a DEF Count
    <3> QED
      BY <1>1, <1>a, <2>2, <3>1, <3>2, <3>3 DEF Advance, FrameLength
  <2> QED
    BY <1>1, <2>1, <2>2 DEF Advance
<1>2. ASSUME NEW n \in Lidars, NEW c \in Byte, Deliver(n, c)
      PROVE  lidar' \in [Lidars -> Parser] /\ LowDistance'
  <2>1. /\ lidar[n] \in Parser
        /\ lidar[n].state = "dist_h" => lidar[n].dist \in Byte
    BY <1>a DEF LowDistance
  <2> DEFINE new == lidar_state_machine(lidar[n], c)
  <2>2. new \in Parser /\ (new.state = "dist_h" => new.dist \in Byte)
    BY <2>1, ParserStep
  <2>3. lidar' = [lidar EXCEPT ![n] = new]
    BY <1>2 DEF Deliver
  <2> HIDE DEF new
  <2> QED
    BY <1>a, <2>2, <2>3 DEF LowDistance
<1>3. ASSUME lidar' \in [Lidars -> Parser] /\ LowDistance',
             measured' \in [Lidars -> Measurements],
             pos' \in [Lidars -> 0..8], reported' \in [Lidars -> Distances],
             clean' \in [Lidars -> {Broken} \union (0..ResyncFrames)]
      PROVE  Inv'
  BY <1>3 DEF Inv, TypeOK, Parser, Distances, FrameLength
<1>4. ASSUME NEW n \in Lidars, Callback(n) PROVE Inv'
  <2>1. FrameByte(measured[n], pos[n]) \in Byte
    BY <1>a, FrameBytes
  <2>2. clean[n] \in {Broken} \union (0..ResyncFrames)
    BY <1>a
  <2> QED
    BY <1>1, <1>2, <1>3, <1>4, <2>1, <2>2 DEF Callback
<1>5. ASSUME NEW n \in Lidars, Lose(n) PROVE Inv'
  <2>1. lidar' \in [Lidars -> Parser] /\ LowDistance'
    BY <1>a, <1>5 DEF Lose, LowDistance
  <2> QED
    BY <1>1, <1>3, <1>5, <2>1 DEF Lose
<1>6. ASSUME NEW n \in Lidars, NEW c \in Noise, Alter(n, c) PROVE Inv'
  <2>1. c \in Byte
    BY LidarAssumption
  <2> QED
    BY <1>1, <1>2, <1>3, <1>6, <2>1 DEF Alter
<1>7. CASE UNCHANGED vars
  BY <1>7, <1>a, <1>3 DEF vars, LowDistance
<1> QED
  BY <1>4, <1>5, <1>6, <1>7 DEF Next

LEMMA TypeInductive == Spec => []Inv
BY TypeInit, TypeStep, PTL DEF Spec

(* The parser's checksum stays in its byte and its distances in theirs,    *)
(* whatever the bytes are (lidar_state_machine).                           *)
THEOREM TypeCorrect == Spec => []TypeOK
<1>1. Inv => TypeOK
  BY DEF Inv
<1> QED
  BY <1>1, TypeInductive, PTL

-----------------------------------------------------------------------------
(* The parser's next place, when it hears the frame's i-th byte. *)
LEMMA FollowStep ==
  ASSUME NEW k \in Nat, NEW i \in 0..8, NEW p \in 0..8, p \in Reach(k, i),
         NEW header \in BOOLEAN, i < 2 => header, k < 2 /\ i >= 2 => ~header,
         NEW q, q = CASE p < 2 -> IF header THEN p + 1 ELSE p
                      [] p \in 2..7 -> p + 1
                      [] p = 8 -> 0
  PROVE  /\ i < 8 => q \in Reach(k, i + 1)
         /\ i = 8 => q \in Reach(k + 1, 0)
         /\ k >= 2 => p = i
<1>1. /\ p < 2 => q = IF header THEN p + 1 ELSE p
      /\ p \in 2..7 => q = p + 1
      /\ p = 8 => q = 0
  OBVIOUS
<1>2. CASE k = 0
  <2>1. CASE i <= 1
    BY <1>1, <1>2, <2>1 DEF Reach
  <2>2. CASE i = 2
    BY <1>1, <1>2, <2>2 DEF Reach
  <2>3. CASE i > 2
    BY <1>1, <1>2, <2>3 DEF Reach
  <2> QED
    BY <2>1, <2>2, <2>3
<1>3. CASE k = 1
  BY <1>1, <1>3 DEF Reach
<1>4. CASE k >= 2
  BY <1>1, <1>4 DEF Reach
<1> QED
  BY <1>2, <1>3, <1>4

LEMMA InStepInit == Init => InStepBy
<1> SUFFICES ASSUME Init, NEW n \in Lidars
             PROVE  Following(n) /\ Agreeing(n) /\ Reporting(n)
  BY DEF InStepBy
<1>1. lidar[n].state = "frame_header1" /\ Broken = -1
  BY DEF Init, Broken
<1>3. clean[n] = IF pos[n] = 0 THEN 0 ELSE Broken
  BY DEF Init
<1>2. Place[lidar[n].state] = 0 /\ 0 \in Reach(0, 0)
  BY <1>1 DEF Place, Reach
<1> QED
  BY <1>1, <1>2, <1>3 DEF Following, Agreeing, Reporting

LEMMA InStepStep ==
  ASSUME ResyncFrames >= 4, Inv, Inv', InStepBy, [Next]_vars
  PROVE  InStepBy'
<1> SUFFICES ASSUME NEW n \in Lidars
             PROVE  Following(n)' /\ Agreeing(n)' /\ Reporting(n)'
  BY DEF InStepBy
<1> DEFINE l == lidar[n]   m == measured[n]   i == pos[n]   k == clean[n]
           p == Place[l.state]   c == FrameByte(m, i)
           K == clean'[n]
           P == Place[lidar'[n].state]
<1>a. /\ l \in Parser /\ (l.state = "dist_h" => l.dist \in Byte)
      /\ m \in Measurements /\ i \in 0..8 /\ k \in {Broken} \union (0..ResyncFrames)
      /\ ResyncFrames \in Nat /\ Broken = -1
      /\ lidar'[n] \in Parser
  BY LidarAssumption
  DEF Inv, TypeOK, LowDistance, Parser, Distances, FrameLength, Broken
<1>b. p \in 0..8 /\ P \in 0..8
  BY <1>a, PlaceType DEF Parser
<1>c. /\ k # Broken /\ (Distinct(m) \/ k >= 3) => p \in Reach(k, i)
      /\ k >= 3 => /\ l.checksum = Partial(m, i) % BYTE_MOD
                   /\ i = 3 => l.dist = m[1]
                   /\ i >= 4 => l.dist = Distance(m)
      /\ k >= 4 => l.valid_dist = reported[n]
  BY DEF InStepBy, Following, Agreeing, Reporting
<1>d. c \in Byte /\ (i < 2 => c = TFMINT_DATA_HEAD)
  BY <1>a, FrameBytes
<1>e. Distinct(m) /\ i >= 2 => c # TFMINT_DATA_HEAD
  BY <1>a DEF Distinct, FrameLength
<1>1. CASE Stays(n)
  BY <1>1, <1>c DEF Stays, Following, Agreeing, Reporting
<1>2. ASSUME K = Broken \/ (K = 0 /\ pos'[n] = 0)
      PROVE  Following(n)' /\ Agreeing(n)' /\ Reporting(n)'
  <2>1. ~(K >= 3) /\ ~(K >= 4) /\ 0 # Broken
    BY <1>2, <1>a
  <2>2. P \in Reach(0, 0)
    BY <1>b DEF Reach
  <2> QED
    BY <1>2, <2>1, <2>2 DEF Following, Agreeing, Reporting
<1>3. CASE Goes(n, Broken)
  <2>1. Count(m, Broken) = 0
    BY <1>a DEF Count
  <2> QED
    BY <1>2, <1>3, <2>1 DEF Goes
<1>4. CASE Goes(n, k) /\ Hears(n)
  <2>1. /\ P = CASE p < 2 -> IF c = TFMINT_DATA_HEAD THEN p + 1 ELSE p
                 [] p \in 2..7 -> p + 1
                 [] p = 8 -> 0
        /\ lidar'[n].checksum = IF p = 8 THEN 0 ELSE (l.checksum + c) % BYTE_MOD
        /\ lidar'[n].dist = CASE p = 2 -> c
                              [] p = 3 -> l.dist + BYTE_MOD * c
                              [] OTHER -> l.dist
        /\ lidar'[n].valid_dist = IF p = 8 /\ l.checksum = c THEN l.dist ELSE l.valid_dist
    <3> DEFINE new == lidar_state_machine(l, c)
    <3>1. new = lidar'[n]
      BY <1>4 DEF Hears
    <3>2. /\ Place[new.state] = CASE p < 2 -> IF c = TFMINT_DATA_HEAD THEN p + 1 ELSE p
                                 [] p \in 2..7 -> p + 1
                                 [] p = 8 -> 0
          /\ new.checksum = IF p = 8 THEN 0 ELSE (l.checksum + c) % BYTE_MOD
          /\ new.dist = CASE p = 2 -> c
                          [] p = 3 -> l.dist + BYTE_MOD * c
                          [] OTHER -> l.dist
          /\ new.valid_dist = IF p = 8 /\ l.checksum = c THEN l.dist ELSE l.valid_dist
      <4> HIDE DEF l, c
      <4> QED
        BY <1>a, <1>d, ParserStep
    <3> HIDE DEF new, l, c, p
    <3> QED
      BY <3>1, <3>2
  <2> HIDE DEF l, m, i, k, p, c, K, P
  <2>2. ASSUME k # Broken, Distinct(m) \/ k >= 3
        PROVE  /\ i < 8 => P \in Reach(k, i + 1)
               /\ i = 8 => P \in Reach(k + 1, 0)
               /\ k >= 2 => p = i
    <3> DEFINE header == c = TFMINT_DATA_HEAD
    <3>1. /\ k \in Nat /\ p \in Reach(k, i) /\ (i < 2 => header)
          /\ (k < 2 /\ i >= 2 => ~header)
      BY <1>a, <1>c, <1>d, <1>e, <2>2
    <3>2. header \in BOOLEAN
      OBVIOUS
    <3>3. P = CASE p < 2 -> IF header THEN p + 1 ELSE p
                [] p \in 2..7 -> p + 1
                [] p = 8 -> 0
      BY <2>1
    <3> HIDE DEF header
    <3> QED
      BY <1>a, <1>b, <3>1, <3>2, <3>3, FollowStep
  <2>3. ASSUME i < 8, pos'[n] = i + 1, K = k,
               measured'[n] = m, reported'[n] = reported[n]
        PROVE  Following(n)' /\ Agreeing(n)' /\ Reporting(n)'
    <3>1. Following(n)'
      BY <2>2, <2>3 DEF Following, K, P
    <3>2. Agreeing(n)'
      <4> SUFFICES ASSUME k >= 3
                   PROVE  /\ lidar'[n].checksum = Partial(m, i + 1) % BYTE_MOD
                          /\ i + 1 = 3 => lidar'[n].dist = m[1]
                          /\ i + 1 >= 4 => lidar'[n].dist = Distance(m)
        BY <2>3 DEF Agreeing, K
      <4>1. p = i /\ i \in 0..7
        BY <1>a, <2>2, <2>3
      <4>2. lidar'[n].checksum = ((Partial(m, i) % BYTE_MOD) + c) % BYTE_MOD
        BY <1>c, <2>1, <4>1
      <4>3. Partial(m, i) \in Nat /\ Partial(m, i + 1) = Partial(m, i) + c
        BY <1>a, <4>1, PartialStep DEF c
      <4>4. c \in Nat
        BY <1>d, Widths DEF Byte
      <4>5. lidar'[n].checksum = Partial(m, i + 1) % BYTE_MOD
        BY <4>2, <4>3, <4>4, SumInByte
      <4>6. i \in 2..7 => c = m[i - 1]
        BY <1>a, FrameBytes DEF c
      <4>7. i = 2 => lidar'[n].dist = m[1]
        BY <2>1, <4>1, <4>6
      <4>8. i = 3 => lidar'[n].dist = Distance(m)
        <5>1. i = 3 => lidar'[n].dist = l.dist + BYTE_MOD * c /\ c = m[2] /\ l.dist = m[1]
          BY <1>c, <2>1, <4>1, <4>6
        <5> QED
          BY <5>1 DEF Distance
      <4>9. i >= 4 => lidar'[n].dist = Distance(m)
        BY <1>c, <2>1, <4>1
      <4> QED
        BY <4>1, <4>5, <4>7, <4>8, <4>9
    <3>3. Reporting(n)'
      <4> SUFFICES ASSUME k >= 4 PROVE lidar'[n].valid_dist = reported[n]
        BY <2>3 DEF Reporting, K
      <4>1. p = i /\ p # 8
        BY <1>a, <2>2, <2>3
      <4> QED
        BY <1>c, <2>1, <4>1
    <3> QED
      BY <3>1, <3>2, <3>3
  <2>4. ASSUME i = 8, pos'[n] = 0, K = Count(m, k), reported'[n] = Distance(m)
        PROVE  Following(n)' /\ Agreeing(n)' /\ Reporting(n)'
    <3>1. CASE K = 0
      BY <1>2, <2>4, <3>1 DEF K
    <3>2. CASE K # 0
      <4>1. /\ k # Broken /\ k \in Nat
            /\ \/ k = ResyncFrames /\ K = k /\ k >= 4
               \/ Distinct(m) /\ K = k + 1
        BY <1>a, <2>4, <3>2 DEF Count
      <4>2. P \in Reach(k + 1, 0) /\ (k >= 2 => p = 8)
        BY <2>2, <2>4, <4>1
      <4>3. P \in Reach(K, 0)
        BY <4>1, <4>2 DEF Reach
      <4>4. Following(n)'
        BY <2>4, <4>3 DEF Following, K, P
      <4>5. Agreeing(n)'
        <5> SUFFICES ASSUME K >= 3
                     PROVE  lidar'[n].checksum = Partial(measured'[n], 0) % BYTE_MOD
          BY <2>4 DEF Agreeing, K
        <5>1. p = 8
          BY <4>1, <4>2
        <5>2. Partial(measured'[n], 0) = 0 /\ 0 % BYTE_MOD = 0
          BY Widths DEF Partial
        <5> QED
          BY <2>1, <5>1, <5>2
      <4>6. Reporting(n)'
        <5> SUFFICES ASSUME K >= 4 PROVE lidar'[n].valid_dist = Distance(m)
          BY <2>4 DEF Reporting, K
        <5>1. k >= 3 /\ p = 8
          BY <4>1, <4>2
        <5>2. l.checksum = c
          BY <1>a, <1>c, <2>4, <5>1, FrameBytes DEF c
        <5> QED
          BY <1>c, <2>1, <2>4, <5>1, <5>2
      <4> QED
        BY <4>4, <4>5, <4>6
    <3> QED
      BY <3>1, <3>2
  <2> QED
    BY <1>4, <2>3, <2>4 DEF Goes, i, k, K, m
<1> QED
  BY <1>1, <1>3, <1>4, StepAt DEF Inv

(* The worst that can happen: the parser takes the first header byte for   *)
(* a checksum and waits for a second header byte through the first frame,  *)
(* is one byte ahead in the next, has a wrong sum in the third and accepts *)
(* the fourth.                                                             *)
LEMMA InStepInductive ==
  ASSUME ResyncFrames >= 4
  PROVE  Spec => []InStepBy
<1>1. Inv /\ Inv' /\ InStepBy /\ [Next]_vars => InStepBy'
  BY InStepStep
<1> QED
  BY InStepInit, <1>1, TypeInductive, PTL DEF Spec

(* However the parser began and whatever was lost or altered, it is in     *)
(* step with the sensor after four frames in a row that have no byte like  *)
(* a header but their header, and stays in step through any frames         *)
(* (lidar_state_machine, lidar1_callback, lidar2_callback).                *)
THEOREM ResyncsAlways ==
  ASSUME ResyncFrames >= 4
  PROVE  Spec => []Resyncs
<1>1. ASSUME Inv, InStepBy PROVE Resyncs
  <2> SUFFICES ASSUME NEW n \in Lidars, clean[n] = ResyncFrames, pos[n] = 0
               PROVE  lidar[n].state = "frame_header1" /\ lidar[n].checksum = 0
    BY DEF Resyncs, InStep
  <2>1. /\ clean[n] >= 4 /\ clean[n] >= 3 /\ clean[n] # Broken
        /\ clean[n] # 0 /\ clean[n] # 1
    BY LidarAssumption DEF Broken
  <2>2. Following(n) /\ Agreeing(n) /\ lidar[n].state \in States
    BY <1>1 DEF InStepBy, Inv, TypeOK
  <2>3. Place[lidar[n].state] = 0
    BY <2>1, <2>2 DEF Following, Reach
  <2>4. lidar[n].checksum = Partial(measured[n], 0) % BYTE_MOD
    BY <2>1, <2>2 DEF Agreeing
  <2>5. Partial(measured[n], 0) = 0 /\ 0 % BYTE_MOD = 0
    BY Widths DEF Partial
  <2> QED
    BY <2>2, <2>3, <2>4, <2>5, PlaceType
<1> QED
  BY <1>1, TypeInductive, InStepInductive, PTL

(* From then on the distance it reports is the one the sensor sent last.   *)
THEOREM TracksAlways ==
  ASSUME ResyncFrames >= 4
  PROVE  Spec => []Tracks
<1>1. ASSUME InStepBy PROVE Tracks
  BY <1>1 DEF InStepBy, Reporting, Tracks
<1> QED
  BY <1>1, InStepInductive, PTL
=============================================================================
