---- MODULE FanControl ----
(***************************************************************************)
(* The humidity controller: the analyzer that turns one humidity sample a  *)
(* second into a short-term and a long-term trend                          *)
(* (humidity_controller/humidity_analizer.c) and the fan's state machine   *)
(* that reads the trend once a second (humidity_controller/fan_fsm.c).     *)
(*                                                                         *)
(* A trend is a pulse: humidity_analyze clears both verdicts on every call *)
(* and sets them only on the call that completes an average or a window,   *)
(* so the fan sees a verdict in exactly one of its updates.  Nothing under *)
(* src/ calls the two functions yet; the owner is modelled as a loop that  *)
(* calls them in turn once a second and that may ask a fan that is off to  *)
(* start.                                                                  *)
(***************************************************************************)
EXTENDS Integers

CONSTANTS
    Samples,            \* humidity values of the sensor
    MAX_SCALE_VAL,      \* upper end of the humidity scale
    AVERAGE_SAMPLING_S, \* samples of one average
    MAX_HUM_RATE_COUNT, \* averages of one long-term window
    ACCEL_THRESHOLD,
    RISE_THRESHOLD,
    FAN_MIN_RUNTIME_S,
    FAN_MAX_RUNTIME_S

ASSUME SamplesAssumption == Samples \subseteq 0..MAX_SCALE_VAL
ASSUME ScaleAssumption == MAX_SCALE_VAL \in Nat
ASSUME SamplingAssumption == AVERAGE_SAMPLING_S \in Nat \ {0}
ASSUME WindowAssumption == MAX_HUM_RATE_COUNT \in Nat \ {0}
ASSUME ThresholdAssumption == ACCEL_THRESHOLD \in Nat /\ RISE_THRESHOLD \in Nat
ASSUME RuntimeAssumption == FAN_MIN_RUNTIME_S \in Nat \ {0} /\ FAN_MAX_RUNTIME_S \in Nat \ {0}

VARIABLES
    ha,     \* the HumidityAnalyzer
    fc,     \* the FanController
    turn,   \* which of the two calls the owner makes next
    base,   \* history: the average at which the current window began
    ran,    \* history: updates since the fan left FAN_V1
    calm    \* history: updates since the fan saw the fall it waits on

vars == <<ha, fc, turn, base, ran, calm>>

Trends == {"MEASURING", "STABLE", "RISING", "FALLING"}
FanStates == {"FAN_OFF", "FAN_V1", "FAN_V2", "FAN_MIN_TIME", "FAN_MAX_TIME"}

\* The ranges of the analyzer's fields.  On a scale of 1000 every one of
\* them fits its 16 or 32 bits, so the model uses plain integers.
Humidities == 0..MAX_SCALE_VAL
Rates == -MAX_SCALE_VAL..MAX_SCALE_VAL
Sums == 0..(AVERAGE_SAMPLING_S * MAX_SCALE_VAL)
Counts == 0..(AVERAGE_SAMPLING_S - 1)
RateCounts == 0..(MAX_HUM_RATE_COUNT - 1)

Analyzers == [humidity_sum : Sums,
              humidity_count : Counts,
              avg_humidity : Humidities,
              humidity_rate : Rates,
              long_term_rate : Rates,
              rate_count : RateCounts,
              acc_state : Trends,
              growth_state : Trends,
              measure_init : BOOLEAN]

FanControllers == [runtime_seconds : Nat, stop_time : Nat, fan_state : FanStates]

Fan(state, runtime, stop) ==
    [fan_state |-> state, runtime_seconds |-> runtime, stop_time |-> stop]

Init == /\ ha = [humidity_sum |-> 0, humidity_count |-> 0, avg_humidity |-> 0,
                 humidity_rate |-> 0, long_term_rate |-> 0, rate_count |-> 0,
                 acc_state |-> "MEASURING", growth_state |-> "MEASURING",
                 measure_init |-> FALSE]
        /\ fc = Fan("FAN_OFF", 0, 0)
        /\ turn = "analyze"
        /\ base = 0
        /\ ran = 0
        /\ calm = 0

----
(* humidity_analyze *)

\* The sample does not complete an average: it is only added.
Collecting(h) == [ha EXCEPT !.growth_state = "MEASURING",
                            !.acc_state = "MEASURING",
                            !.humidity_sum = @ + h,
                            !.humidity_count = @ + 1]

NewAvg(h) == (ha.humidity_sum + h) \div AVERAGE_SAMPLING_S
NewRate(h) == NewAvg(h) - ha.avg_humidity
NewAccel(h) == NewRate(h) - ha.humidity_rate

CollectSample(h) ==
    /\ ha.humidity_count + 1 < AVERAGE_SAMPLING_S
    /\ ha' = Collecting(h)
    /\ UNCHANGED base

FirstAverage(h) ==
    /\ ha.humidity_count + 1 >= AVERAGE_SAMPLING_S
    /\ ~ha.measure_init
    /\ ha' = [ha EXCEPT !.growth_state = "MEASURING",
                        !.acc_state = "MEASURING",
                        !.humidity_sum = 0,
                        !.humidity_count = 0,
                        !.avg_humidity = NewAvg(h),
                        !.humidity_rate = 0,
                        !.long_term_rate = 0,
                        !.rate_count = 0,
                        !.measure_init = TRUE]
    /\ base' = NewAvg(h)

ShortTrend(rate, accel) ==
    CASE accel >= ACCEL_THRESHOLD /\ rate > 0 -> "RISING"
      [] accel <= -ACCEL_THRESHOLD /\ rate < 0 -> "FALLING"
      [] OTHER -> "STABLE"

LongTrend(sum) ==
    CASE sum > RISE_THRESHOLD -> "RISING"
      [] sum < -RISE_THRESHOLD -> "FALLING"
      [] OTHER -> "STABLE"

\* A further average inside the window, and the one that completes it.
NextAverage(h) ==
    /\ ha.humidity_count + 1 >= AVERAGE_SAMPLING_S
    /\ ha.measure_init
    /\ ha.rate_count + 1 < MAX_HUM_RATE_COUNT
    /\ ha' = [ha EXCEPT !.growth_state = "MEASURING",
                        !.acc_state = ShortTrend(NewRate(h), NewAccel(h)),
                        !.humidity_sum = 0,
                        !.humidity_count = 0,
                        !.avg_humidity = NewAvg(h),
                        !.humidity_rate = NewRate(h),
                        !.long_term_rate = @ + NewRate(h),
                        !.rate_count = @ + 1]
    /\ UNCHANGED base

\* Mutant: the sum of the rates is not reset with the window.
LastAverageKeepsSum(h) ==
    /\ ha.humidity_count + 1 >= AVERAGE_SAMPLING_S
    /\ ha.measure_init
    /\ ha.rate_count + 1 >= MAX_HUM_RATE_COUNT
    /\ ha' = [ha EXCEPT !.growth_state = LongTrend(ha.long_term_rate + NewRate(h)),
                        !.acc_state = ShortTrend(NewRate(h), NewAccel(h)),
                        !.humidity_sum = 0,
                        !.humidity_count = 0,
                        !.avg_humidity = NewAvg(h),
                        !.humidity_rate = NewRate(h),
                        !.long_term_rate = @ + NewRate(h),
                        !.rate_count = 0]
    /\ base' = NewAvg(h)

LastAverage(h) ==
    /\ ha.humidity_count + 1 >= AVERAGE_SAMPLING_S
    /\ ha.measure_init
    /\ ha.rate_count + 1 >= MAX_HUM_RATE_COUNT
    /\ ha' = [ha EXCEPT !.growth_state = LongTrend(ha.long_term_rate + NewRate(h)),
                        !.acc_state = ShortTrend(NewRate(h), NewAccel(h)),
                        !.humidity_sum = 0,
                        !.humidity_count = 0,
                        !.avg_humidity = NewAvg(h),
                        !.humidity_rate = NewRate(h),
                        !.long_term_rate = 0,
                        !.rate_count = 0]
    /\ base' = NewAvg(h)

Analyze(h) ==
    /\ turn = "analyze"
    /\ turn' = "update"
    /\ \/ CollectSample(h)
       \/ FirstAverage(h)
       \/ NextAverage(h)
       \/ LastAverage(h)
    /\ UNCHANGED <<fc, ran, calm>>

----
(* fan_controller_update *)

humidity_rise == ha.growth_state = "RISING" \/ ha.acc_state = "RISING"

FanOff ==
    /\ fc.fan_state = "FAN_OFF"
    /\ UNCHANGED <<fc, ran, calm>>

FanV1 ==
    /\ fc.fan_state = "FAN_V1"
    /\ IF humidity_rise
         THEN /\ fc' = Fan("FAN_V2", 0, fc.stop_time)
              /\ ran' = 0
         ELSE UNCHANGED <<fc, ran>>
    /\ UNCHANGED calm

Falling == ha.growth_state = "FALLING" /\ ha.acc_state # "RISING"

FanV2 ==
    /\ fc.fan_state = "FAN_V2"
    /\ ran' = ran + 1
    /\ LET runtime == fc.runtime_seconds + 1 IN
       \/ /\ runtime >= FAN_MAX_RUNTIME_S
          /\ fc' = Fan("FAN_MAX_TIME", runtime, fc.stop_time)
          /\ UNCHANGED calm
       \/ /\ runtime < FAN_MAX_RUNTIME_S
          /\ Falling
          /\ fc' = Fan("FAN_MIN_TIME", runtime, runtime + FAN_MIN_RUNTIME_S)
          /\ calm' = 0
       \/ /\ runtime < FAN_MAX_RUNTIME_S
          /\ ~Falling
          /\ fc' = Fan(fc.fan_state, runtime, fc.stop_time)
          /\ UNCHANGED calm

\* Mutant: a rise restarts the fan's clock.
FanMinTimeRestarts ==
    /\ fc.fan_state = "FAN_MIN_TIME"
    /\ ran' = ran + 1
    /\ calm' = calm + 1
    /\ LET runtime == fc.runtime_seconds + 1 IN
       \/ /\ humidity_rise
          /\ fc' = Fan("FAN_V2", 0, fc.stop_time)
       \/ /\ ~humidity_rise
          /\ runtime >= fc.stop_time
          /\ fc' = Fan("FAN_OFF", runtime, fc.stop_time)
       \/ /\ ~humidity_rise
          /\ runtime < fc.stop_time
          /\ fc' = Fan(fc.fan_state, runtime, fc.stop_time)

FanMinTime ==
    /\ fc.fan_state = "FAN_MIN_TIME"
    /\ ran' = ran + 1
    /\ calm' = calm + 1
    /\ LET runtime == fc.runtime_seconds + 1 IN
       \/ /\ humidity_rise
          /\ fc' = Fan("FAN_V2", runtime, fc.stop_time)
       \/ /\ ~humidity_rise
          /\ runtime >= fc.stop_time
          /\ fc' = Fan("FAN_OFF", runtime, fc.stop_time)
       \/ /\ ~humidity_rise
          /\ runtime < fc.stop_time
          /\ fc' = Fan(fc.fan_state, runtime, fc.stop_time)

\* Mutant: reaching the limit does not switch the fan off.
FanMaxTimeStays ==
    /\ fc.fan_state = "FAN_MAX_TIME"
    /\ UNCHANGED <<fc, ran, calm>>

FanMaxTime ==
    /\ fc.fan_state = "FAN_MAX_TIME"
    /\ fc' = Fan("FAN_OFF", 0, 0)
    /\ UNCHANGED <<ran, calm>>

Update ==
    /\ turn = "update"
    /\ turn' = "analyze"
    /\ \/ FanOff
       \/ FanV1
       \/ FanV2
       \/ FanMinTime
       \/ FanMaxTime
    /\ UNCHANGED <<ha, base>>

\* External: the owner starts a fan that is off (no function under src/
\* leaves FAN_OFF).
Start ==
    /\ turn = "analyze"
    /\ fc.fan_state = "FAN_OFF"
    /\ fc' = Fan("FAN_V1", fc.runtime_seconds, fc.stop_time)
    /\ UNCHANGED <<ha, turn, base, ran, calm>>

Next == Start \/ Update \/ \E h \in Samples : Analyze(h)

Spec == Init /\ [][Next]_vars

\* The owner keeps its period: both calls happen again and again.
FairSpec == Spec /\ WF_vars(Update) /\ WF_vars(\E h \in Samples : Analyze(h))

----
(* Properties *)

\* Every field stays in its range; in particular every average is on the
\* scale, every rate fits int16_t and the fan's limits are natural numbers.
TypeOK == /\ ha \in Analyzers
          /\ fc \in FanControllers
          /\ turn \in {"analyze", "update"}
          /\ base \in Humidities
          /\ ran \in Nat
          /\ calm \in Nat

\* The sum of rates that humidity_analyze keeps over a window is always the
\* change of the average since the window began, although it is reset in two
\* places and the first average is treated apart.
SumIsChange == ha.long_term_rate = ha.avg_humidity - base

\* A long-term verdict is given only at the end of a window and tells how
\* the average moved over that window: RISING after a rise above the
\* threshold, FALLING after a fall below it, STABLE otherwise; and the window
\* then starts anew at the current average.
WindowVerdict ==
    [][turn = "analyze" /\ turn' = "update" /\ ha'.growth_state # "MEASURING" =>
          /\ ha.measure_init
          /\ base' = ha'.avg_humidity
          /\ (ha'.growth_state = "RISING") <=> (ha'.avg_humidity - base > RISE_THRESHOLD)
          /\ (ha'.growth_state = "FALLING") <=> (base - ha'.avg_humidity > RISE_THRESHOLD)]_vars

Running == fc.fan_state \in {"FAN_V2", "FAN_MIN_TIME", "FAN_MAX_TIME"}

\* The fan's clock counts the whole run, across every change between FAN_V2
\* and FAN_MIN_TIME, and the run ends at the latest one minimum time after
\* the limit: FAN_MIN_TIME entered just below the limit is not cut short.
RunIsBounded ==
    Running => /\ ran = fc.runtime_seconds
               /\ ran <= FAN_MAX_RUNTIME_S + FAN_MIN_RUNTIME_S

\* The fan goes off only when it ran for the maximum time, or a full minimum
\* time after the fall it saw, with no rise in the update that stops it.
StopsOnlyWhenDry ==
    [][fc.fan_state # "FAN_OFF" /\ fc'.fan_state = "FAN_OFF" =>
          \/ ran >= FAN_MAX_RUNTIME_S
          \/ calm' >= FAN_MIN_RUNTIME_S /\ ~humidity_rise]_vars

\* A fan that runs at the second speed is off some time later, whatever the
\* humidity does.
RunEnds == fc.fan_state = "FAN_V2" ~> fc.fan_state = "FAN_OFF"

----
(* The inductive invariant behind the properties above. *)

\* The samples collected so far are on the scale.
SumFits == ha.humidity_sum \in 0..(ha.humidity_count * MAX_SCALE_VAL)

\* What each state of a running fan knows about its clock.
ClockInv ==
    /\ fc.fan_state = "FAN_V2" =>
          /\ ran = fc.runtime_seconds
          /\ fc.runtime_seconds < FAN_MAX_RUNTIME_S + FAN_MIN_RUNTIME_S
    /\ fc.fan_state = "FAN_MIN_TIME" =>
          /\ ran = fc.runtime_seconds
          /\ fc.runtime_seconds < fc.stop_time
          /\ fc.stop_time < FAN_MAX_RUNTIME_S + FAN_MIN_RUNTIME_S
          /\ fc.stop_time = (fc.runtime_seconds - calm) + FAN_MIN_RUNTIME_S
    /\ fc.fan_state = "FAN_MAX_TIME" =>
          /\ ran = fc.runtime_seconds
          /\ FAN_MAX_RUNTIME_S <= fc.runtime_seconds
          /\ fc.runtime_seconds <= FAN_MAX_RUNTIME_S + FAN_MIN_RUNTIME_S

\* The controller's inductive invariant.
FanInv == TypeOK /\ SumFits /\ SumIsChange /\ ClockInv

====
