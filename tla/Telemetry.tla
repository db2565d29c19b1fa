------------------------------ MODULE Telemetry ------------------------------
(***************************************************************************)
(* The firmware's main program (app/main.c): adc_activate, which turns the *)
(* two converters on, and then the main loop, blink_handler and            *)
(* telem_handler (common/handlers.c), paced by the SysTick count, with the *)
(* battery measurements telem_handler runs (driver/battery.c), one         *)
(* conversion at a time on converters that are ready and that finish when  *)
(* they will.                                                              *)
(*                                                                         *)
(* `ticks' is volatile: each place that names it reads it again, and the   *)
(* SysTick interrupt may come between any two reads.  getGyroXYZ and       *)
(* gyro_read_xyz, which telem_handler calls first and which may take any   *)
(* time, are the module GyroSpi; lidar_readDist has no effect.             *)
(***************************************************************************)
EXTENDS Integers

CONSTANTS
  TICK_MOD,        (* 2^32: ticks is a uint32_t                            *)
  BlinkInterval,   (* 500                                                  *)
  TelemInterval    (* 1000                                                 *)

ASSUME TelemetryAssumption ==
  /\ BlinkInterval \in Nat \ {0}
  /\ TelemInterval \in Nat \ {0, 1}
  /\ TICK_MOD \in Nat
  /\ TelemInterval < TICK_MOD

-----------------------------------------------------------------------------
(* The measurements and their wiring, from include/board_config.h. *)
Measurements == {"vbatt_1s", "vbatt_2s", "vbatt_3s", "curr_meas"}
ADCs == {"ADC3", "ADC4"}

Wiring ==
  [vbatt_1s  |-> [adc |-> "ADC4", ch |-> 3, seq |-> 1],
   vbatt_2s  |-> [adc |-> "ADC3", ch |-> 5, seq |-> 1],
   vbatt_3s  |-> [adc |-> "ADC4", ch |-> 4, seq |-> 2],
   curr_meas |-> [adc |-> "ADC4", ch |-> 5, seq |-> 1]]

NextConv ==
  [vbatt_1s |-> "vbatt_2s", vbatt_2s |-> "vbatt_3s",
   vbatt_3s |-> "curr_meas", curr_meas |-> "vbatt_1s"]

(* A converted sample is known by the input it was taken from. *)
NoSample == [adc |-> "none", ch |-> 0]
Sample == {NoSample} \union [adc : ADCs, ch : {3, 4, 5}]

VARIABLES
  pc,              (* where the main program is                            *)
  ticks,           (* the SysTick count                                    *)
  last_tick,       (* telem_handler's static                               *)
  blink,           (* blink_handler's prev, and whether the LED is lit     *)
  curr_conv, start_adc, battery_val,
  adc,             (* each converter: its power, rank 1's channel, whether *)
                   (* a conversion is on, its EOC flag and data register   *)
  runs             (* history: runs of telemetry since the count last     *)
                   (* reached a multiple of TelemInterval                  *)

batt == <<curr_conv, start_adc, battery_val>>
vars == <<pc, ticks, last_tick, blink, batt, adc, runs>>

(* A converter that is off has ADEN clear; one that is starting has it set *)
(* and ADRDY not yet.  Nothing turns one off again.                        *)
Power == {"off", "starting", "ready"}

(* adc_config has put channel 5 in rank 1 of both, and adc_activate is     *)
(* about to begin.                                                         *)
Init ==
  /\ pc = "activate"
  /\ ticks \in 1..TICK_MOD-1
  /\ last_tick = 0
  /\ blink = [prev |-> 0, lit |-> FALSE]
  /\ curr_conv = "vbatt_1s"
  /\ start_adc = TRUE
  /\ battery_val = [m \in Measurements |-> NoSample]
  /\ adc = [a \in ADCs |-> [power |-> "off", rank1 |-> 5, on |-> FALSE, eoc |-> FALSE,
                            data |-> NoSample]]
  /\ runs = 0

-----------------------------------------------------------------------------
(* adc_activate turns ADC3 on and waits until it is ready, then ADC4.  How *)
(* long its calibrations and its two delays take is left to SysTick.       *)
LL_ADC_Enable(a) ==
  /\ pc = "activate"
  /\ adc[a].power = "off"
  /\ a = "ADC4" => adc["ADC3"].power = "ready"
  /\ adc' = [adc EXCEPT ![a].power = "starting"]
  /\ UNCHANGED <<pc, ticks, last_tick, blink, batt, runs>>

(* The converter sets ADRDY. *)
Ready(a) ==
  /\ adc[a].power = "starting"
  /\ adc' = [adc EXCEPT ![a].power = "ready"]
  /\ UNCHANGED <<pc, ticks, last_tick, blink, batt, runs>>

(* Mutant: the second block of adc_activate tests ADC3 too. *)
Activated_OneOnly ==
  /\ pc = "activate"
  /\ adc["ADC3"].power = "ready"
  /\ pc' = "blink"
  /\ UNCHANGED <<ticks, last_tick, blink, batt, adc, runs>>

Activated ==
  /\ pc = "activate"
  /\ \A a \in ADCs : adc[a].power = "ready"
  /\ pc' = "blink"
  /\ UNCHANGED <<ticks, last_tick, blink, batt, adc, runs>>

-----------------------------------------------------------------------------
(* Mutant: the count does not wrap. *)
SysTick_Handler_Unbounded ==
  /\ ticks' = ticks + 1
  /\ runs' = IF ticks' % TelemInterval = 0 THEN 0 ELSE runs
  /\ UNCHANGED <<pc, last_tick, blink, batt, adc>>

SysTick_Handler ==
  /\ ticks' = (ticks + 1) % TICK_MOD
  /\ runs' = IF ticks' % TelemInterval = 0 THEN 0 ELSE runs
  /\ UNCHANGED <<pc, last_tick, blink, batt, adc>>

blink_handler ==
  /\ pc = "blink"
  /\ LET curr == ticks \div BlinkInterval
     IN  blink' = [prev |-> curr,
                   lit  |-> IF curr # blink.prev THEN curr % 2 = 0 ELSE blink.lit]
  /\ pc' = "interval"
  /\ UNCHANGED <<ticks, last_tick, batt, adc, runs>>

(* telem_handler: `!(ticks % interval)', then `ticks != last_tick', then   *)
(* `last_tick = ticks': three reads.                                       *)
TestInterval ==
  /\ pc = "interval"
  /\ pc' = IF ticks % TelemInterval = 0 THEN "fresh" ELSE "blink"
  /\ UNCHANGED <<ticks, last_tick, blink, batt, adc, runs>>

(* Mutant: no look at last_tick. *)
TestFresh_Always ==
  /\ pc = "fresh"
  /\ pc' = "stamp"
  /\ UNCHANGED <<ticks, last_tick, blink, batt, adc, runs>>

TestFresh ==
  /\ pc = "fresh"
  /\ pc' = IF ticks # last_tick THEN "stamp" ELSE "blink"
  /\ UNCHANGED <<ticks, last_tick, blink, batt, adc, runs>>

Stamp ==
  /\ pc = "stamp"
  /\ last_tick' = ticks
  /\ runs' = runs + 1
  /\ pc' = "gyro"
  /\ UNCHANGED <<ticks, blink, batt, adc>>

Gyro ==
  /\ pc = "gyro"
  /\ pc' = "start"
  /\ UNCHANGED <<ticks, last_tick, blink, batt, adc, runs>>

-----------------------------------------------------------------------------
(* Mutant: the channel is not put in its rank. *)
Started_KeepsChannel(wire, a) ==
  [a EXCEPT !.on = @ \/ a.power # "off"]

(* adc_ConversionStart.  The sequencer has length 1: a channel written to  *)
(* rank 2 is not converted.  A converter that is off or has a conversion   *)
(* on declines, and the caller is not told.                                *)
Started(wire, a) ==
  LET accepts == a.power # "off" /\ ~a.on
  IN  [a EXCEPT !.rank1 = IF wire.seq = 1 THEN wire.ch ELSE @,
                !.on = @ \/ accepts]

(* Mutant: a conversion is started whether or not one is waited for. *)
batt_startConver_Always ==
  /\ pc = "start"
  /\ pc' = "get"
  /\ start_adc' = FALSE
  /\ adc' = [adc EXCEPT ![Wiring[curr_conv].adc] = Started(Wiring[curr_conv], @)]
  /\ UNCHANGED <<ticks, last_tick, blink, curr_conv, battery_val, runs>>

batt_startConver ==
  /\ pc = "start"
  /\ pc' = "get"
  /\ start_adc' = FALSE
  /\ adc' = IF start_adc
            THEN [adc EXCEPT ![Wiring[curr_conv].adc] = Started(Wiring[curr_conv], @)]
            ELSE adc
  /\ UNCHANGED <<ticks, last_tick, blink, curr_conv, battery_val, runs>>

(* Reading the data register clears the flag too. *)
batt_getBattery ==
  /\ pc = "get"
  /\ pc' = "blink"
  /\ LET a == Wiring[curr_conv].adc
     IN  \/ /\ adc[a].eoc
            /\ adc' = [adc EXCEPT ![a].eoc = FALSE]
            /\ battery_val' = [battery_val EXCEPT ![curr_conv] = adc[a].data]
            /\ curr_conv' = NextConv[curr_conv]
            /\ start_adc' = TRUE
         \/ /\ ~adc[a].eoc
            /\ UNCHANGED <<batt, adc>>
  /\ UNCHANGED <<ticks, last_tick, blink, runs>>

(* The converter ends a conversion. *)
EndConversion(a) ==
  /\ adc[a].on
  /\ adc' = [adc EXCEPT ![a].on = FALSE, ![a].eoc = TRUE,
                        ![a].data = [adc |-> a, ch |-> adc[a].rank1]]
  /\ UNCHANGED <<pc, ticks, last_tick, blink, batt, runs>>

MainProgram ==
  \/ \E a \in ADCs : LL_ADC_Enable(a)
  \/ Activated
  \/ blink_handler
  \/ TestInterval \/ TestFresh \/ Stamp \/ Gyro
  \/ batt_startConver \/ batt_getBattery

Next ==
  \/ MainProgram
  \/ SysTick_Handler
  \/ \E a \in ADCs : Ready(a) \/ EndConversion(a)

(* The main program runs on, converters become ready and conversions end.  *)
(* Nothing is assumed of how the loop and the count are paced.             *)
Spec ==
  /\ Init /\ [][Next]_vars
  /\ WF_vars(MainProgram)
  /\ \A a \in ADCs : WF_vars(Ready(a)) /\ WF_vars(EndConversion(a))

-----------------------------------------------------------------------------
TypeOK ==
  /\ pc \in {"activate", "blink", "interval", "fresh", "stamp", "gyro", "start", "get"}
  /\ ticks \in 0..TICK_MOD-1
  /\ last_tick \in 0..TICK_MOD-1
  /\ blink \in [prev : 0..TICK_MOD-1, lit : BOOLEAN]
  /\ curr_conv \in Measurements
  /\ start_adc \in BOOLEAN
  /\ battery_val \in [Measurements -> Sample]
  /\ adc \in [ADCs -> [power : Power, rank1 : {3, 4, 5}, on : BOOLEAN, eoc : BOOLEAN,
                       data : Sample]]
  /\ runs \in Nat

(* telem_handler's test of `ticks != last_tick' is there so that telemetry *)
(* runs once for each multiple of the interval however often the loop      *)
(* comes round in that tick.  A tick between its first and second read of  *)
(* the count lets a second run through; never a third, since that run      *)
(* stamps a count that is no multiple.                                     *)
TwicePerInterval == runs <= 2

(* One conversion at a time, and its result belongs to the measurement     *)
(* that waits for it: no converter holds a result when the next            *)
(* measurement is about to start, and only the one being waited for works. *)
ResultsBelong ==
  \A a \in ADCs :
    adc[a].on \/ adc[a].eoc => /\ ~start_adc
                               /\ a = Wiring[curr_conv].adc
                               /\ ~(adc[a].on /\ adc[a].eoc)

(* While a measurement is waited for, a converter works on it or is done:  *)
(* though adc_ConversionStart may decline and batt_startConver goes on as  *)
(* if it had not, that never happens, and the sequence of measurements     *)
(* cannot stall.                                                           *)
NeverStalls ==
  ~start_adc => \E a \in ADCs : adc[a].on \/ adc[a].eoc

SampledFrom(m) ==
  battery_val[m] \in {NoSample, [adc |-> Wiring[m].adc, ch |-> Wiring[m].ch]}

(* What is recorded for a measurement in rank 1 was taken from its own     *)
(* input, though two of them share a converter with a third that leaves    *)
(* rank 1 as it finds it.                                                  *)
RankOneSamples == \A m \in Measurements : Wiring[m].seq = 1 => SampledFrom(m)

(* The same of every measurement: battery_val[2], which battery.c calls    *)
(* the 3s voltage, is sampled from the 3s input.                           *)
AllSamples == \A m \in Measurements : SampledFrom(m)

(* As long as telemetry keeps running, however seldom, every measurement   *)
(* is waited for again and again: none holds the others up.                *)
KeepsMeasuring ==
  []<>(pc = "stamp") => \A m \in Measurements : []<>(curr_conv = m)
=============================================================================
