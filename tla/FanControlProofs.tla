---- MODULE FanControlProofs ----
(***************************************************************************)
(* Proofs about the humidity controller for every length of the averages   *)
(* and windows, every threshold and every limit of the run time.           *)
(***************************************************************************)
EXTENDS FanControl, TLAPS

\* The average of n values on a scale of m is on the scale.
LEMMA AverageOnScale ==
    ASSUME NEW n \in Nat \ {0}, NEW m \in Nat, NEW s \in Nat, s <= n * m
    PROVE  s \div n \in 0..m
<1> DEFINE q == s \div n
<1>1. q \in Int /\ n * q <= s /\ s < n * q + n
  BY Z3
<1>2. q >= 0
  BY <1>1, Z3
<1>3. q <= m
  <2>1. SUFFICES ASSUME q >= m + 1 PROVE FALSE
    BY <1>1
  <2>2. n * q >= n * (m + 1)
    BY <1>1, <2>1, Z3
  <2>3. n * (m + 1) = n * m + n
    BY Z3
  <2> QED
    BY <1>1, <2>2, <2>3
<1> QED
  BY <1>1, <1>2, <1>3

\* A sum that is below k * m grows by at most m with one more sample.
LEMMA OneMoreSample ==
    ASSUME NEW k \in Nat, NEW m \in Nat, NEW s \in 0..(k * m), NEW h \in 0..m
    PROVE  s + h \in 0..((k + 1) * m)
<1>1. (k + 1) * m = k * m + m
  BY Z3
<1> QED
  BY <1>1, Z3

LEMMA ProductMonotonic ==
    ASSUME NEW k \in Nat, NEW n \in Nat, NEW m \in Nat, k <= n
    PROVE  k * m <= n * m
  BY Z3

----
\* The members of the enumerations.
LEMMA Enums ==
    /\ "MEASURING" \in Trends
    /\ {"FAN_OFF", "FAN_V1", "FAN_V2", "FAN_MIN_TIME", "FAN_MAX_TIME"} = FanStates
  BY DEF Trends, FanStates

LEMMA InitFanInv == Init => FanInv
<1> SUFFICES ASSUME Init PROVE FanInv
  OBVIOUS
<1>1. 0 \in Sums /\ 0 \in Counts /\ 0 \in Humidities /\ 0 \in Rates /\ 0 \in RateCounts
  <2>1. AVERAGE_SAMPLING_S * MAX_SCALE_VAL \in Nat
    BY SamplingAssumption, ScaleAssumption
  <2> QED
    BY <2>1, SamplingAssumption, ScaleAssumption, WindowAssumption
    DEF Sums, Counts, Humidities, Rates, RateCounts
<1>2. TypeOK
  BY <1>1, Enums DEF Fan, Init, TypeOK, Analyzers, FanControllers
<1>3. SumFits
  BY ScaleAssumption DEF Init, SumFits
<1>4. SumIsChange /\ ClockInv
  BY DEF Fan, Init, SumIsChange, ClockInv
<1> QED
  BY <1>2, <1>3, <1>4 DEF FanInv

\* The analyzer's fields in a state of the invariant.
LEMMA AnalyzerFacts ==
    ASSUME FanInv
    PROVE  /\ ha \in Analyzers
           /\ ha.humidity_count \in Nat
           /\ ha.humidity_count + 1 <= AVERAGE_SAMPLING_S
           /\ ha.avg_humidity \in Humidities
           /\ ha.humidity_rate \in Int
           /\ ha.rate_count \in Nat
           /\ ha.long_term_rate = ha.avg_humidity - base
           /\ base \in Humidities
           /\ base \in Int /\ ha.avg_humidity \in Int
<1>1. ha \in Analyzers /\ base \in Humidities /\ ha.long_term_rate = ha.avg_humidity - base
  BY DEF FanInv, TypeOK, SumIsChange
<1>2. /\ ha.humidity_count \in Counts /\ ha.avg_humidity \in Humidities
      /\ ha.humidity_rate \in Rates /\ ha.rate_count \in RateCounts
  BY <1>1 DEF Analyzers
<1> QED
  BY <1>1, <1>2, SamplingAssumption, ScaleAssumption, WindowAssumption
  DEF Counts, Humidities, Rates, RateCounts

\* What a call of humidity_analyze needs to know about its numbers.
LEMMA SampleFacts ==
    ASSUME FanInv, NEW h \in Samples
    PROVE  /\ ha.humidity_sum + h \in 0..((ha.humidity_count + 1) * MAX_SCALE_VAL)
           /\ ha.humidity_sum + h \in Sums
           /\ NewAvg(h) \in Humidities
           /\ NewAvg(h) \in Int
           /\ NewRate(h) \in Rates
           /\ NewRate(h) \in Int
           /\ NewAccel(h) \in Int
           /\ ha.long_term_rate + NewRate(h) = NewAvg(h) - base
           /\ NewAvg(h) - base \in Rates
<1>1. h \in 0..MAX_SCALE_VAL
  BY SamplesAssumption
<1>3. ha.humidity_sum + h \in 0..((ha.humidity_count + 1) * MAX_SCALE_VAL)
  BY <1>1, AnalyzerFacts, OneMoreSample, ScaleAssumption DEF FanInv, SumFits
<1>4. (ha.humidity_count + 1) * MAX_SCALE_VAL <= AVERAGE_SAMPLING_S * MAX_SCALE_VAL
  BY AnalyzerFacts, ProductMonotonic, ScaleAssumption, SamplingAssumption
<1>5. ha.humidity_sum + h \in 0..(AVERAGE_SAMPLING_S * MAX_SCALE_VAL)
  <2>1. (ha.humidity_count + 1) * MAX_SCALE_VAL \in Nat /\ AVERAGE_SAMPLING_S * MAX_SCALE_VAL \in Nat
    BY AnalyzerFacts, ScaleAssumption, SamplingAssumption
  <2> QED
    BY <1>3, <1>4, <2>1
<1>6. NewAvg(h) \in Humidities
  BY <1>5, AverageOnScale, SamplingAssumption, ScaleAssumption DEF NewAvg, Humidities
<1>7. /\ NewAvg(h) \in Int /\ NewRate(h) \in Rates /\ NewRate(h) \in Int
      /\ NewAvg(h) - base \in Rates
  BY <1>6, AnalyzerFacts, ScaleAssumption DEF NewRate, Humidities, Rates
<1>8. NewAccel(h) \in Int /\ ha.long_term_rate + NewRate(h) = NewAvg(h) - base
  BY <1>7, AnalyzerFacts DEF NewAccel, NewRate
<1> QED
  BY <1>3, <1>5, <1>6, <1>7, <1>8 DEF Sums

LEMMA TrendTypes ==
    \A r, a : ShortTrend(r, a) \in Trends /\ LongTrend(r) \in Trends
  BY DEF ShortTrend, LongTrend, Trends

LEMMA AnalyzeFanInv ==
    ASSUME FanInv, NEW h \in Samples, Analyze(h)
    PROVE  FanInv'
<1>1. /\ fc' = fc /\ ran' = ran /\ calm' = calm /\ turn' = "update"
  BY DEF Analyze
<1>2. ClockInv' /\ fc' \in FanControllers /\ ran' \in Nat /\ calm' \in Nat /\ turn' \in {"analyze", "update"}
  BY <1>1 DEF FanInv, ClockInv, TypeOK
<1>3. 0 \in Sums /\ 0 \in Counts /\ 0 \in Rates /\ 0 \in RateCounts
  <2>1. AVERAGE_SAMPLING_S * MAX_SCALE_VAL \in Nat
    BY SamplingAssumption, ScaleAssumption
  <2> QED
    BY <2>1, SamplingAssumption, ScaleAssumption, WindowAssumption DEF Sums, Counts, Rates, RateCounts
<1>4. ASSUME CollectSample(h)
      PROVE  ha' \in Analyzers /\ base' \in Humidities /\ SumFits' /\ SumIsChange'
  <2>1. ha' = Collecting(h) /\ base' = base /\ ha.humidity_count + 1 < AVERAGE_SAMPLING_S
    BY <1>4 DEF CollectSample
  <2>2. ha'.humidity_sum = ha.humidity_sum + h /\ ha'.humidity_count = ha.humidity_count + 1
    BY <2>1, AnalyzerFacts DEF Collecting, Analyzers
  <2>3. ha.humidity_count + 1 \in Counts
    BY <2>1, AnalyzerFacts, SamplingAssumption DEF Counts
  <2>4. ha' \in Analyzers
    BY <2>1, <2>3, AnalyzerFacts, SampleFacts, Enums DEF Collecting, Analyzers
  <2>5. SumFits'
    BY <2>2, SampleFacts DEF SumFits
  <2>6. SumIsChange'
    BY <2>1, AnalyzerFacts DEF SumIsChange, Collecting, Analyzers
  <2> QED
    BY <2>1, <2>4, <2>5, <2>6, AnalyzerFacts
<1>5. ASSUME FirstAverage(h) \/ NextAverage(h) \/ LastAverage(h)
      PROVE  base' \in Humidities /\ SumFits' /\ SumIsChange'
  <2>1. /\ ha'.humidity_sum = 0 /\ ha'.humidity_count = 0
        /\ ha'.avg_humidity = NewAvg(h)
        /\ \/ ha'.long_term_rate = 0 /\ base' = NewAvg(h)
           \/ ha'.long_term_rate = ha.long_term_rate + NewRate(h) /\ base' = base
    BY <1>5, AnalyzerFacts DEF FirstAverage, NextAverage, LastAverage, Analyzers
  <2>2. 0 * MAX_SCALE_VAL = 0
    BY ScaleAssumption
  <2>3. SumFits'
    BY <2>1, <2>2 DEF SumFits
  <2>4. SumIsChange'
    BY <2>1, AnalyzerFacts, SampleFacts DEF SumIsChange
  <2> QED
    BY <2>1, <2>3, <2>4, AnalyzerFacts, SampleFacts
<1>6. ASSUME FirstAverage(h) PROVE ha' \in Analyzers
  BY <1>3, <1>6, AnalyzerFacts, SampleFacts, Enums DEF FirstAverage, Analyzers
<1>7. ASSUME NextAverage(h) PROVE ha' \in Analyzers
  <2>1. ha.rate_count + 1 \in RateCounts
    BY <1>7, AnalyzerFacts, WindowAssumption DEF NextAverage, RateCounts
  <2>2. ha.long_term_rate + NewRate(h) \in Rates
    BY SampleFacts
  <2> QED
    BY <1>3, <1>7, <2>1, <2>2, AnalyzerFacts, SampleFacts, TrendTypes, Enums DEF NextAverage, Analyzers
<1>8. ASSUME LastAverage(h) PROVE ha' \in Analyzers
  BY <1>3, <1>8, AnalyzerFacts, SampleFacts, TrendTypes DEF LastAverage, Analyzers
<1> QED
  BY <1>2, <1>4, <1>5, <1>6, <1>7, <1>8 DEF Analyze, FanInv, TypeOK

LEMMA UpdateFanInv ==
    ASSUME FanInv, Update
    PROVE  FanInv'
<1>1. ha' = ha /\ base' = base /\ turn' = "analyze"
  BY DEF Update
<1>2. ha' \in Analyzers /\ base' \in Humidities /\ SumFits' /\ SumIsChange'
  BY <1>1 DEF FanInv, TypeOK, SumFits, SumIsChange
<1>3. fc \in FanControllers /\ ran \in Nat /\ calm \in Nat /\ ClockInv
  BY DEF FanInv, TypeOK
<1>4. fc.runtime_seconds \in Nat /\ fc.stop_time \in Nat /\ fc.runtime_seconds + 1 \in Nat
  BY <1>3 DEF FanControllers
<1> DEFINE T == fc' \in FanControllers /\ ran' \in Nat /\ calm' \in Nat
<1>5. ASSUME FanOff PROVE T /\ ClockInv'
  BY <1>3, <1>5 DEF FanOff, ClockInv
<1>6. ASSUME FanV1 PROVE T /\ ClockInv'
  <2>1. T
    BY <1>3, <1>6, Enums DEF Fan, FanV1, FanControllers
  <2>2. ClockInv'
    BY <1>3, <1>6, RuntimeAssumption DEF Fan, FanV1, FanControllers, ClockInv
  <2> QED
    BY <2>1, <2>2
<1>7. ASSUME FanV2 PROVE T /\ ClockInv'
  <2>1. fc.runtime_seconds + 1 + FAN_MIN_RUNTIME_S \in Nat
    BY <1>4, RuntimeAssumption
  <2>2. T
    BY <1>3, <1>4, <1>7, <2>1, Enums DEF Fan, FanV2, FanControllers
  <2>3. ClockInv'
    BY <1>3, <1>4, <1>7, RuntimeAssumption DEF Fan, FanV2, FanControllers, ClockInv
  <2> QED
    BY <2>2, <2>3
<1>8. ASSUME FanMinTime PROVE T /\ ClockInv'
  <2>1. T
    BY <1>3, <1>4, <1>8, Enums DEF Fan, FanMinTime, FanControllers
  <2>2. ClockInv'
    BY <1>3, <1>4, <1>8, RuntimeAssumption DEF Fan, FanMinTime, FanControllers, ClockInv
  <2> QED
    BY <2>1, <2>2
<1>9. ASSUME FanMaxTime PROVE T /\ ClockInv'
  BY <1>3, <1>9, Enums DEF Fan, FanMaxTime, FanControllers, ClockInv
<1> QED
  BY <1>1, <1>2, <1>5, <1>6, <1>7, <1>8, <1>9 DEF Update, FanInv, TypeOK

LEMMA StartFanInv ==
    ASSUME FanInv, Start
    PROVE  FanInv'
<1>1. fc \in FanControllers /\ fc' = Fan("FAN_V1", fc.runtime_seconds, fc.stop_time)
  BY DEF Start, FanInv, TypeOK
<1>2. fc' \in FanControllers /\ fc'.fan_state = "FAN_V1"
  BY <1>1, Enums DEF Fan, FanControllers
<1>3. ClockInv'
  BY <1>2 DEF ClockInv
<1> QED
  BY <1>2, <1>3 DEF Start, FanInv, TypeOK, SumFits, SumIsChange

\* FanInv is an invariant of the humidity controller.
LEMMA FanInvariant == Spec => []FanInv
<1>1. FanInv /\ [Next]_vars => FanInv'
  <2> SUFFICES ASSUME FanInv, [Next]_vars PROVE FanInv'
    OBVIOUS
  <2>1. CASE UNCHANGED vars
    BY <2>1 DEF FanInv, TypeOK, SumFits, SumIsChange, ClockInv, vars
  <2> QED
    BY <2>1, AnalyzeFanInv, UpdateFanInv, StartFanInv DEF Next
<1> QED
  BY InitFanInv, <1>1, PTL DEF Spec

----
\* Every field of the analyzer and of the fan stays in its range, for every
\* scale and window length: the averages never leave the scale and the rates
\* never leave what int16_t holds.
THEOREM FanTypeCorrect == Spec => []TypeOK
  BY FanInvariant, PTL DEF FanInv

\* The sum of rates that humidity_analyze keeps is the change of the average
\* since the window began.
THEOREM SumIsChangeHolds == Spec => []SumIsChange
  BY FanInvariant, PTL DEF FanInv

\* fan_controller_update counts the whole run and ends it within the maximum
\* plus the minimum time.
THEOREM RunIsBoundedHolds == Spec => []RunIsBounded
<1>1. FanInv => RunIsBounded
  BY RuntimeAssumption DEF FanInv, TypeOK, FanControllers, ClockInv, RunIsBounded, Running
<1> QED
  BY <1>1, FanInvariant, PTL

\* The verdict that ends a window of humidity_analyze says how the average
\* moved over that window.
THEOREM WindowVerdictHolds == Spec => WindowVerdict
<1> DEFINE V == turn = "analyze" /\ turn' = "update" /\ ha'.growth_state # "MEASURING" =>
          /\ ha.measure_init
          /\ base' = ha'.avg_humidity
          /\ (ha'.growth_state = "RISING") <=> (ha'.avg_humidity - base > RISE_THRESHOLD)
          /\ (ha'.growth_state = "FALLING") <=> (base - ha'.avg_humidity > RISE_THRESHOLD)
<1>1. ASSUME FanInv, [Next]_vars PROVE [V]_vars
  <2>1. SUFFICES ASSUME Next, turn = "analyze", turn' = "update", ha'.growth_state # "MEASURING"
                 PROVE  V
    BY <1>1
  <2>2. PICK h \in Samples : Analyze(h)
    BY <2>1 DEF Next, Start, Update
  <2>3. LastAverage(h)
    BY <1>1, <2>1, <2>2, AnalyzerFacts
    DEF Analyze, CollectSample, Collecting, FirstAverage, NextAverage, Analyzers
  <2>4. /\ ha.measure_init
        /\ base' = NewAvg(h)
        /\ ha'.avg_humidity = NewAvg(h)
        /\ ha'.growth_state = LongTrend(NewAvg(h) - base)
    BY <1>1, <2>3, AnalyzerFacts, SampleFacts DEF LastAverage, Analyzers
  <2>5. NewAvg(h) \in Int /\ base \in Int
    BY <1>1, AnalyzerFacts, SampleFacts
  <2>6. /\ (LongTrend(NewAvg(h) - base) = "RISING") <=> (NewAvg(h) - base > RISE_THRESHOLD)
        /\ (LongTrend(NewAvg(h) - base) = "FALLING") <=> (base - NewAvg(h) > RISE_THRESHOLD)
    BY <2>5, ThresholdAssumption DEF LongTrend
  <2> QED
    BY <2>4, <2>6
<1> QED
  BY <1>1, FanInvariant, PTL DEF Spec, WindowVerdict

\* The fan goes off only after the maximum time or a full minimum time after
\* the fall that fan_controller_update saw.
THEOREM StopsOnlyWhenDryHolds == Spec => StopsOnlyWhenDry
<1> DEFINE S == fc.fan_state # "FAN_OFF" /\ fc'.fan_state = "FAN_OFF" =>
                   \/ ran >= FAN_MAX_RUNTIME_S
                   \/ calm' >= FAN_MIN_RUNTIME_S /\ ~humidity_rise
<1>1. ASSUME FanInv, [Next]_vars PROVE [S]_vars
  <2>1. SUFFICES ASSUME Next, fc.fan_state # "FAN_OFF", fc'.fan_state = "FAN_OFF"
                 PROVE  S
    BY <1>1
  <2>2. Update
    BY <2>1 DEF Next, Analyze, Start
  <2>3. fc \in FanControllers /\ ran \in Nat /\ calm \in Nat /\ ClockInv
    BY <1>1 DEF FanInv, TypeOK
  <2>4. FanMinTime \/ FanMaxTime
    BY <2>1, <2>2, <2>3 DEF Update, Fan, FanOff, FanV1, FanV2, FanControllers
  <2>5. CASE FanMaxTime
    BY <2>3, <2>5, RuntimeAssumption DEF Fan, FanMaxTime, ClockInv, FanControllers
  <2>6. CASE FanMinTime
    <3>1. ~humidity_rise /\ fc.runtime_seconds + 1 >= fc.stop_time /\ calm' = calm + 1
      BY <2>1, <2>3, <2>6 DEF Fan, FanMinTime, FanControllers
    <3>2. fc.stop_time = (fc.runtime_seconds - calm) + FAN_MIN_RUNTIME_S
      BY <2>3, <2>6 DEF Fan, FanMinTime, ClockInv
    <3>3. calm + 1 >= FAN_MIN_RUNTIME_S
      BY <2>3, <3>1, <3>2, RuntimeAssumption DEF FanControllers
    <3> QED
      BY <3>1, <3>3
  <2> QED
    BY <2>4, <2>5, <2>6
<1> QED
  BY <1>1, FanInvariant, PTL DEF Spec, StopsOnlyWhenDry

====
