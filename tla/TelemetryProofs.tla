--------------------------- MODULE TelemetryProofs ---------------------------
(***************************************************************************)
(* Theorems about Telemetry, for every interval and every width of the     *)
(* count.  Two invariants carry them: Inv, of the battery measurements,    *)
(* says what the converters are doing in each of the two phases of a       *)
(* measurement; Pace, of telem_handler's test of the count, says what can  *)
(* still happen before the next multiple of the interval.                  *)
(***************************************************************************)
EXTENDS Telemetry, TLAPS

ConverterType ==
  /\ pc \in {"activate", "blink", "interval", "fresh", "stamp", "gyro", "start", "get"}
  /\ curr_conv \in Measurements
  /\ start_adc \in BOOLEAN
  /\ battery_val \in [Measurements -> Sample]
  /\ adc \in [ADCs -> [power : Power, rank1 : {3, 4, 5}, on : BOOLEAN, eoc : BOOLEAN, data : Sample]]

Idle(a) == ~adc[a].on /\ ~adc[a].eoc

(* Once adc_activate is over both converters are on.  Between measurements *)
(* both are idle.  During one, its converter is either at work or done,    *)
(* and the other idle.                                                     *)
Phase ==
  /\ IF pc = "activate" THEN start_adc ELSE \A a \in ADCs : adc[a].power = "ready"
  /\ start_adc => \A a \in ADCs : Idle(a)
  /\ ~start_adc => \A a \in ADCs :
       IF a = Wiring[curr_conv].adc THEN adc[a].on <=> ~adc[a].eoc ELSE Idle(a)

(* During a measurement in rank 1, rank 1 has its channel, and a result is *)
(* that channel's.                                                         *)
InRankOne ==
  ~start_adc /\ Wiring[curr_conv].seq = 1 =>
    LET a == Wiring[curr_conv].adc
    IN  /\ adc[a].rank1 = Wiring[curr_conv].ch
        /\ adc[a].eoc => adc[a].data = [adc |-> a, ch |-> Wiring[curr_conv].ch]

Inv == ConverterType /\ Phase /\ InRankOne /\ RankOneSamples

-----------------------------------------------------------------------------
(* What is wired where: every measurement has a converter, a channel and a *)
(* rank, and a measurement that follows it.                                *)
LEMMA WiringType ==
  ASSUME NEW m \in Measurements
  PROVE  /\ Wiring[m].adc \in ADCs
         /\ Wiring[m].ch \in {3, 4, 5}
         /\ Wiring[m].seq \in {1, 2}
         /\ NextConv[m] \in Measurements
  BY DEF Wiring, NextConv, Measurements, ADCs

LEMMA InvInit == Init => Inv
<1> SUFFICES ASSUME Init PROVE Inv
  OBVIOUS
<1>1. ConverterType
  BY DEF Init, ConverterType, Measurements, Sample, Power
<1>2. Phase
  BY DEF Init, Phase, Idle
<1>3. InRankOne
  BY DEF Init, InRankOne
<1>4. RankOneSamples
  BY DEF Init, RankOneSamples, SampledFrom
<1> QED
  BY <1>1, <1>2, <1>3, <1>4 DEF Inv

(* A step of the program that leaves adc_activate only with both           *)
(* converters on.                                                          *)
Goes ==
  \/ pc' = pc
  \/ /\ \A a \in ADCs : adc[a].power = "ready"
     /\ pc' \in {"blink", "interval", "fresh", "stamp", "gyro", "start", "get"}

(* Such a step that touches neither the measurement nor a converter. *)
LEMMA Untouched ==
  ASSUME Inv, UNCHANGED <<batt, adc>>, Goes
  PROVE  Inv'
  BY DEF Goes, Inv, ConverterType, Phase, Idle, InRankOne, RankOneSamples, SampledFrom, batt

LEMMA StartStep ==
  ASSUME Inv, batt_startConver
  PROVE  Inv'
<1> DEFINE w == Wiring[curr_conv]
<1>0. /\ curr_conv \in Measurements /\ curr_conv' = curr_conv
      /\ w.adc \in ADCs /\ w.ch \in {3, 4, 5} /\ w.seq \in {1, 2}
      /\ battery_val' = battery_val /\ start_adc' = FALSE /\ pc' = "get"
      /\ adc \in [ADCs -> [power : Power, rank1 : {3, 4, 5}, on : BOOLEAN, eoc : BOOLEAN, data : Sample]]
  BY WiringType DEF Inv, ConverterType, batt_startConver
<1>p. \A a \in ADCs : adc[a].power = "ready"
  BY DEF Inv, Phase, batt_startConver
<1>1. CASE ~start_adc
  <2>1. adc' = adc /\ start_adc' = start_adc
    BY <1>1, <1>0 DEF batt_startConver, Inv, ConverterType
  <2>2. UNCHANGED <<batt, adc>>
    BY <1>0, <2>1 DEF batt
  <2>3. Goes
    BY <1>0, <1>p DEF Goes
  <2> QED
    BY <2>2, <2>3, Untouched
<1>2. CASE start_adc
  <2>1. adc' = [adc EXCEPT ![w.adc] = Started(w, adc[w.adc])]
    BY <1>2 DEF batt_startConver
  <2>2. \A a \in ADCs : Idle(a)
    BY <1>2 DEF Inv, Phase
  <2>3. /\ adc'[w.adc] = Started(w, adc[w.adc])
        /\ \A a \in ADCs : a # w.adc => adc'[a] = adc[a]
    BY <1>0, <2>1
  <2>a. adc[w.adc].power # "off" /\ ~adc[w.adc].on
    BY <1>0, <1>p, <2>2 DEF Idle
  <2>b. PICK c \in {3, 4, 5} :
          /\ w.seq = 1 => c = w.ch
          /\ Started(w, adc[w.adc]) = [adc[w.adc] EXCEPT !.rank1 = c, !.on = TRUE]
    <3>1. CASE w.seq = 1
      BY <3>1, <1>0, <2>a DEF Started
    <3>2. CASE w.seq # 1
      BY <3>2, <1>0, <2>a DEF Started
    <3> QED
      BY <3>1, <3>2
  <2>4. /\ Started(w, adc[w.adc]).on
        /\ Started(w, adc[w.adc]).eoc = adc[w.adc].eoc
        /\ Started(w, adc[w.adc]).power = adc[w.adc].power
        /\ w.seq = 1 => Started(w, adc[w.adc]).rank1 = w.ch
        /\ Started(w, adc[w.adc]) \in
             [power : Power, rank1 : {3, 4, 5}, on : BOOLEAN, eoc : BOOLEAN, data : Sample]
    <3>1. adc[w.adc] \in [power : Power, rank1 : {3, 4, 5}, on : BOOLEAN, eoc : BOOLEAN, data : Sample]
      BY <1>0
    <3> QED
      BY <3>1, <2>b
  <2>5. ConverterType'
    BY <1>0, <2>1, <2>4 DEF Inv, ConverterType
  <2>6. Phase'
    <3>1. \A a \in ADCs : adc'[a].power = "ready"
      BY <1>0, <1>p, <2>3, <2>4
    <3> QED
      BY <1>0, <2>2, <2>3, <2>4, <3>1 DEF Phase, Idle
  <2>7. InRankOne'
    BY <1>0, <2>2, <2>3, <2>4 DEF InRankOne, Idle
  <2>8. RankOneSamples'
    BY <1>0 DEF Inv, RankOneSamples, SampledFrom
  <2> QED
    BY <2>5, <2>6, <2>7, <2>8 DEF Inv
<1> QED
  BY <1>1, <1>2

LEMMA GetStep ==
  ASSUME Inv, batt_getBattery
  PROVE  Inv'
<1> DEFINE a == Wiring[curr_conv].adc
<1>0. /\ curr_conv \in Measurements /\ a \in ADCs
      /\ NextConv[curr_conv] \in Measurements /\ pc' = "blink"
      /\ adc \in [ADCs -> [power : Power, rank1 : {3, 4, 5}, on : BOOLEAN, eoc : BOOLEAN, data : Sample]]
      /\ battery_val \in [Measurements -> Sample]
  BY WiringType DEF Inv, ConverterType, batt_getBattery
<1>p. \A b \in ADCs : adc[b].power = "ready"
  BY DEF Inv, Phase, batt_getBattery
<1>1. CASE ~adc[a].eoc
  <2>1. UNCHANGED <<batt, adc>>
    BY <1>1 DEF batt_getBattery
  <2>2. Goes
    BY <1>0, <1>p DEF Goes
  <2> QED
    BY <2>1, <2>2, Untouched
<1>2. CASE adc[a].eoc
  <2>1. /\ adc' = [adc EXCEPT ![a].eoc = FALSE]
        /\ battery_val' = [battery_val EXCEPT ![curr_conv] = adc[a].data]
        /\ curr_conv' = NextConv[curr_conv]
        /\ start_adc' = TRUE
    BY <1>2 DEF batt_getBattery
  <2>2. ~start_adc /\ ~adc[a].on /\ \A b \in ADCs : b # a => Idle(b)
    BY <1>0, <1>2 DEF Inv, Phase, Idle
  <2>3. ConverterType'
    BY <1>0, <2>1 DEF ConverterType
  <2>4. Phase'
    <3>1. /\ adc'[a].eoc = FALSE /\ adc'[a].on = adc[a].on /\ adc'[a].power = adc[a].power
          /\ \A b \in ADCs : b # a => adc'[b] = adc[b]
      BY <1>0, <2>1
    <3> QED
      BY <1>0, <1>p, <2>1, <2>2, <3>1 DEF Phase, Idle
  <2>5. InRankOne'
    BY <2>1 DEF InRankOne
  <2>6. RankOneSamples'
    <3> SUFFICES ASSUME NEW m \in Measurements, Wiring[m].seq = 1
                 PROVE  SampledFrom(m)'
      BY DEF RankOneSamples
    <3>1. CASE m = curr_conv
      <4>1. adc[a].data = [adc |-> a, ch |-> Wiring[m].ch]
        BY <3>1, <1>2, <2>2 DEF Inv, InRankOne
      <4> QED
        BY <3>1, <4>1, <1>0, <2>1 DEF SampledFrom
    <3>2. CASE m # curr_conv
      BY <3>2, <1>0, <2>1 DEF Inv, RankOneSamples, SampledFrom
    <3> QED
      BY <3>1, <3>2
  <2> QED
    BY <2>3, <2>4, <2>5, <2>6 DEF Inv
<1> QED
  BY <1>1, <1>2

LEMMA EndStep ==
  ASSUME Inv, NEW b \in ADCs, EndConversion(b)
  PROVE  Inv'
<1> DEFINE s == [adc |-> b, ch |-> adc[b].rank1]
<1>0. /\ UNCHANGED <<pc, curr_conv, start_adc, battery_val>>
      /\ adc \in [ADCs -> [power : Power, rank1 : {3, 4, 5}, on : BOOLEAN, eoc : BOOLEAN, data : Sample]]
      /\ curr_conv \in Measurements
  BY DEF Inv, ConverterType, EndConversion, batt
<1>1. ~start_adc /\ b = Wiring[curr_conv].adc /\ adc[b].on
  BY <1>0 DEF Inv, Phase, Idle, EndConversion
<1>2. /\ s \in Sample
      /\ adc' = [adc EXCEPT ![b] = [adc[b] EXCEPT !.on = FALSE, !.eoc = TRUE, !.data = s]]
  BY <1>0 DEF EndConversion, Sample
<1>3. /\ adc'[b].eoc = TRUE /\ adc'[b].on = FALSE /\ adc'[b].data = s
      /\ adc'[b].rank1 = adc[b].rank1 /\ adc'[b].power = adc[b].power
      /\ \A a \in ADCs : a # b => adc'[a] = adc[a]
  BY <1>0, <1>2
<1>4. ConverterType'
  BY <1>0, <1>2 DEF Inv, ConverterType
<1>5. Phase'
  BY <1>0, <1>1, <1>3 DEF Inv, Phase, Idle
<1>6. InRankOne'
  BY <1>0, <1>1, <1>3 DEF Inv, InRankOne
<1>7. RankOneSamples'
  BY <1>0 DEF Inv, RankOneSamples, SampledFrom
<1> QED
  BY <1>4, <1>5, <1>6, <1>7 DEF Inv

(* adc_activate and the converters coming up: whatever adc_activate finds  *)
(* both ready, it has waited for, and no measurement is under way.         *)
LEMMA PowerStep ==
  ASSUME Inv, NEW b \in ADCs, LL_ADC_Enable(b) \/ Ready(b)
  PROVE  Inv'
<1>0. /\ UNCHANGED <<pc, curr_conv, start_adc, battery_val>>
      /\ adc \in [ADCs -> [power : Power, rank1 : {3, 4, 5}, on : BOOLEAN, eoc : BOOLEAN, data : Sample]]
      /\ pc = "activate" /\ start_adc
  BY DEF Inv, ConverterType, Phase, LL_ADC_Enable, Ready, batt
<1>1. PICK p \in Power : adc' = [adc EXCEPT ![b] = [adc[b] EXCEPT !.power = p]]
  BY <1>0 DEF LL_ADC_Enable, Ready, Power
<1>2. \A a \in ADCs : adc'[a].on = adc[a].on /\ adc'[a].eoc = adc[a].eoc
  BY <1>0, <1>1
<1>3. ConverterType'
  BY <1>0, <1>1 DEF Inv, ConverterType
<1>4. Phase'
  BY <1>0, <1>2 DEF Inv, Phase, Idle
<1>5. InRankOne' /\ RankOneSamples'
  BY <1>0 DEF Inv, InRankOne, RankOneSamples, SampledFrom
<1> QED
  BY <1>3, <1>4, <1>5 DEF Inv

LEMMA InvStep ==
  ASSUME Inv, [Next]_vars
  PROVE  Inv'
<1>1. CASE \/ Activated \/ blink_handler \/ TestInterval \/ TestFresh \/ Stamp \/ Gyro
           \/ SysTick_Handler
  <2>1. UNCHANGED <<batt, adc>>
    BY <1>1 DEF Activated, blink_handler, TestInterval, TestFresh, Stamp, Gyro, SysTick_Handler
  <2>2. \/ pc' = pc
        \/ /\ pc = "activate" => \A a \in ADCs : adc[a].power = "ready"
           /\ pc' \in {"blink", "interval", "fresh", "stamp", "gyro", "start", "get"}
    BY <1>1 DEF Activated, blink_handler, TestInterval, TestFresh, Stamp, Gyro, SysTick_Handler
  <2>3. Goes
    BY <2>2 DEF Inv, Phase, Goes
  <2> QED
    BY <2>1, <2>3, Untouched
<1>2. CASE batt_startConver
  BY <1>2, StartStep
<1>3. CASE batt_getBattery
  BY <1>3, GetStep
<1>4. CASE \E a \in ADCs : EndConversion(a)
  BY <1>4, EndStep
<1>5. CASE UNCHANGED vars
  <2>1. UNCHANGED <<batt, adc>> /\ pc' = pc
    BY <1>5 DEF vars
  <2>2. Goes
    BY <2>1 DEF Goes
  <2> QED
    BY <2>1, <2>2, Untouched
<1>6. CASE \E a \in ADCs : LL_ADC_Enable(a) \/ Ready(a)
  BY <1>6, PowerStep
<1> QED
  BY <1>1, <1>2, <1>3, <1>4, <1>5, <1>6 DEF Next, MainProgram

LEMMA Invariance == Spec => []Inv
  BY InvInit, InvStep, PTL DEF Spec

-----------------------------------------------------------------------------
(* A result belongs to the measurement that waits for it: no conversion is *)
(* started over another, and none is left over when the next begins.       *)
THEOREM ResultsBelongAlways == Spec => []ResultsBelong
<1>1. Inv => ResultsBelong
  BY DEF Inv, ConverterType, Phase, Idle, ResultsBelong
<1> QED
  BY <1>1, Invariance, PTL

(* While one is waited for, a converter is at work or done: that           *)
(* adc_ConversionStart may decline to start is never met.                  *)
THEOREM NeverStallsAlways == Spec => []NeverStalls
<1>1. Inv => NeverStalls
  BY WiringType DEF Inv, ConverterType, Phase, NeverStalls
<1> QED
  BY <1>1, Invariance, PTL

(* The 1s and 2s voltages and the current are read from their own inputs,  *)
(* whatever the converter was set to before.                               *)
THEOREM RankOneSamplesAlways == Spec => []RankOneSamples
<1>1. Inv => RankOneSamples
  BY DEF Inv
<1> QED
  BY <1>1, Invariance, PTL
-----------------------------------------------------------------------------
OnMultiple == ticks % TelemInterval = 0

(* While the count stands on a multiple, the first run stamped it, and a   *)
(* second has not passed the test of last_tick.  Once the count has moved  *)
(* on, whatever had passed the test of the interval may run; after a       *)
(* second run nothing has.                                                 *)
Pace ==
  /\ runs \in {0, 1, 2}
  /\ OnMultiple => runs # 2
  /\ OnMultiple /\ runs = 1 => last_tick = ticks /\ pc # "stamp"
  /\ runs = 2 => pc \notin {"fresh", "stamp"}

LEMMA PaceStep ==
  ASSUME Pace, [Next]_vars
  PROVE  Pace'
<1>1. CASE SysTick_Handler
  BY <1>1 DEF Pace, OnMultiple, SysTick_Handler
<1>2. CASE TestInterval
  <2>1. UNCHANGED <<ticks, last_tick, runs>> /\ (pc' = "fresh" => OnMultiple) /\ pc' # "stamp"
    BY <1>2 DEF TestInterval, OnMultiple
  <2> QED
    BY <2>1 DEF Pace, OnMultiple
<1>3. CASE TestFresh
  <2>1. /\ UNCHANGED <<ticks, last_tick, runs>> /\ pc = "fresh"
        /\ pc' # "fresh" /\ (pc' = "stamp" => ticks # last_tick)
    BY <1>3 DEF TestFresh
  <2> QED
    BY <2>1 DEF Pace, OnMultiple
<1>4. CASE Stamp
  BY <1>4 DEF Pace, OnMultiple, Stamp
<1>5. CASE \/ Activated \/ blink_handler \/ Gyro \/ batt_startConver \/ batt_getBattery
           \/ \E a \in ADCs : LL_ADC_Enable(a) \/ Ready(a) \/ EndConversion(a)
           \/ UNCHANGED vars
  <2>1. UNCHANGED <<ticks, last_tick, runs>> /\ (pc' = pc \/ pc' \notin {"fresh", "stamp"})
    BY <1>5 DEF Activated, LL_ADC_Enable, Ready, blink_handler, Gyro, batt_startConver,
       batt_getBattery, EndConversion, vars
  <2> QED
    BY <2>1 DEF Pace, OnMultiple
<1> QED
  BY <1>1, <1>2, <1>3, <1>4, <1>5 DEF Next, MainProgram

(* However SysTick falls between telem_handler's three reads of the count, *)
(* an interval has at most two runs of telemetry.                          *)
THEOREM TwicePerIntervalAlways == Spec => []TwicePerInterval
<1>1. Init => Pace
  BY DEF Init, Pace, OnMultiple
<1>2. Pace => TwicePerInterval
  BY DEF Pace, TwicePerInterval
<1> QED
  BY <1>1, <1>2, PaceStep, PTL DEF Spec

-----------------------------------------------------------------------------
(* A count's interval is no greater than the count. *)
LEMMA IntervalType ==
  ASSUME NEW t \in Nat, NEW s \in Nat \ {0}
  PROVE  t \div s \in 0..t
<1> DEFINE q == t \div s
           r == t % s
<1>1. q \in Int /\ r \in 0..s-1 /\ t = s * q + r
  <2>1. q \in Int /\ r \in 0..s-1
    OBVIOUS
  <2>2. t = s * q + r
    OBVIOUS
  <2> QED
    BY <2>1, <2>2
<1> HIDE DEF q, r
<1>2. CASE q < 0
  <2>1. s * q <= -s
    BY <1>1, <1>2
  <2> QED
    BY <1>1, <2>1
<1>3. CASE q >= 0
  <2>1. s * q >= q
    BY <1>1, <1>3
  <2>2. q <= t
    BY <1>1, <2>1
  <2> QED
    BY <1>1, <1>3, <2>2 DEF q
<1> QED
  BY <1>1, <1>2, <1>3

(* The count and what is stored of it stay 32-bit, and the measurements    *)
(* and the converters what Inv says of them.                               *)
THEOREM TypeCorrect == Spec => []TypeOK
<1>1. /\ TelemInterval \in Nat \ {0, 1} /\ TICK_MOD \in Nat \ {0}
      /\ BlinkInterval \in Nat \ {0}
  BY TelemetryAssumption
<1>2. Init => TypeOK
  <2> SUFFICES ASSUME Init PROVE TypeOK
    OBVIOUS
  <2>1. ConverterType
    BY InvInit DEF Inv
  <2> QED
    BY <1>1, <2>1 DEF Init, TypeOK, ConverterType
<1>3. TypeOK /\ Inv' /\ [Next]_vars => TypeOK'
  <2> SUFFICES ASSUME TypeOK, Inv', [Next]_vars PROVE TypeOK'
    OBVIOUS
  <2>1. ConverterType'
    BY DEF Inv
  <2>2. /\ ticks' \in 0..TICK_MOD-1
        /\ last_tick' \in 0..TICK_MOD-1
        /\ runs' \in Nat
    <3>1. CASE SysTick_Handler
      <4>1. (ticks + 1) % TICK_MOD \in 0..TICK_MOD-1
        BY <1>1 DEF TypeOK
      <4> QED
        BY <3>1, <4>1 DEF SysTick_Handler, TypeOK
    <3>2. CASE Stamp
      BY <3>2 DEF Stamp, TypeOK
    <3>3. CASE UNCHANGED <<ticks, last_tick, runs>>
      BY <3>3 DEF TypeOK
    <3> QED
      BY <3>1, <3>2, <3>3 DEF Next, MainProgram, Activated, LL_ADC_Enable, Ready,
         blink_handler, TestInterval, TestFresh,
         Gyro, batt_startConver, batt_getBattery, EndConversion, vars
  <2>3. blink' \in [prev : 0..TICK_MOD-1, lit : BOOLEAN]
    <3>1. CASE blink_handler
      <4> DEFINE curr == ticks \div BlinkInterval
      <4>1. curr \in 0..TICK_MOD-1
        <5>1. ticks \in Nat /\ ticks <= TICK_MOD - 1
          BY <1>1 DEF TypeOK
        <5>2. curr \in 0..ticks
          BY <1>1, <5>1, IntervalType
        <5> HIDE DEF curr
        <5> QED
          BY <1>1, <5>1, <5>2
      <4>2. blink' = [prev |-> curr,
                      lit |-> IF curr # blink.prev THEN curr % 2 = 0 ELSE blink.lit]
        BY <3>1 DEF blink_handler
      <4> HIDE DEF curr
      <4>3. blink'.lit \in BOOLEAN
        <5>1. CASE curr # blink.prev
          <6>1. blink'.lit = (curr % 2 = 0)
            BY <4>2, <5>1
          <6> QED
            BY <6>1
        <5>2. CASE curr = blink.prev
          <6>1. blink'.lit = blink.lit
            BY <4>2, <5>2
          <6> QED
            BY <6>1 DEF TypeOK
        <5> QED
          BY <5>1, <5>2
      <4> QED
        BY <4>1, <4>2, <4>3
    <3>2. CASE UNCHANGED blink
      BY <3>2 DEF TypeOK
    <3> QED
      BY <3>1, <3>2 DEF Next, MainProgram, Activated, LL_ADC_Enable, Ready,
         SysTick_Handler, TestInterval, TestFresh, Stamp,
         Gyro, batt_startConver, batt_getBattery, EndConversion, vars
  <2> QED
    BY <2>1, <2>2, <2>3 DEF TypeOK, ConverterType
<1> QED
  BY <1>2, <1>3, Invariance, PTL DEF Spec
=============================================================================
