---- MODULE ButtonsProofs ----
(***************************************************************************)
(* Proofs about the buttons for any number of buttons, any times, polls    *)
(* however late and a device_gpio_init at any time.                        *)
(***************************************************************************)
EXTENDS Buttons, TLAPS

\* What get_inp_state answers, in terms of its time and level.
LEMMA StateMeaning ==
    ASSUME NEW t \in Int, NEW a \in BOOLEAN
    PROVE  /\ State(t, a) = "GPIO_HELD" => a /\ t > HELD_TIME
           /\ State(t, a) = "GPIO_CLICK" => ~a /\ t > DEBOUNCE_TIME
           /\ State(t, a) = "GPIO_ACTIVE" => a /\ t >= 0 /\ t <= HELD_TIME
           /\ a /\ t > HELD_TIME => State(t, a) = "GPIO_HELD"
           /\ ~a /\ t > DEBOUNCE_TIME => State(t, a) = "GPIO_CLICK"
  BY TimesAssumption DEF State

LEMMA LaterType ==
    ASSUME NEW q \in 0..HELD_TIME, NEW g \in Nat
    PROVE  /\ Later(q, g) \in 0..HELD_TIME
           /\ Later(q, g) < HELD_TIME => Later(q, g) = q + g
           /\ Later(q, g) <= q + g
  BY TimesAssumption DEF Later

LEMMA CappedType ==
    ASSUME NEW q \in Nat
    PROVE  /\ Capped(q) \in 0..HELD_TIME + 1
           /\ Capped(q) = q \/ Capped(q) > HELD_TIME
  BY TimesAssumption DEF Capped

LEMMA InitButtonsInv == Init => ButtonsInv
<1> SUFFICES ASSUME Init PROVE ButtonsInv
  OBVIOUS
<1>1. PICK clock \in Clocks : since = [b \in Buttons |-> clock - START_TIME]
  BY DEF Init
<1>0. /\ released = [b \in Buttons |-> IF since[b] > 0 THEN Capped(since[b]) ELSE 0]
      /\ level = {} /\ report = Nothing /\ gap = 0 /\ quiet = 0 /\ deaf = 0 /\ tick = 0
  BY DEF Init
<1>2. \A b \in Buttons : /\ since[b] = clock - START_TIME /\ since[b] \in Int
                         /\ since[b] >= -START_TIME
  BY <1>1, TimesAssumption, ClocksAssumption
<1>3. \A b \in Buttons : /\ released[b] = IF since[b] > 0 THEN Capped(since[b]) ELSE 0
                         /\ released[b] \in 0..HELD_TIME + 1
                         /\ since[b] <= released[b] \/ released[b] > HELD_TIME
  <2> SUFFICES ASSUME NEW b \in Buttons
               PROVE  /\ released[b] = IF since[b] > 0 THEN Capped(since[b]) ELSE 0
                      /\ released[b] \in 0..HELD_TIME + 1
                      /\ since[b] <= released[b] \/ released[b] > HELD_TIME
    OBVIOUS
  <2>1. released[b] = IF since[b] > 0 THEN Capped(since[b]) ELSE 0
    BY <1>0
  <2>2. since[b] > 0 => /\ Capped(since[b]) \in 0..HELD_TIME + 1
                        /\ Capped(since[b]) = since[b] \/ Capped(since[b]) > HELD_TIME
    BY <1>2, CappedType
  <2> QED
    BY <1>2, <2>1, <2>2, TimesAssumption
<1>4. released \in [Buttons -> 0..HELD_TIME + 1]
  <2>1. released = [b \in Buttons |-> released[b]]
    BY <1>0
  <2> QED
    BY <1>3, <2>1
<1>5. TypeOK
  <2>1. since \in [Buttons -> Int]
    BY <1>1, <1>2
  <2>2. report \in [held : SUBSET Buttons, click : SUBSET Buttons]
    BY <1>0 DEF Nothing
  <2>3. 0 \in 0..HELD_TIME /\ level \subseteq Buttons /\ gap \in Gaps \union {0} /\ tick \in 0..1
    BY <1>0, TimesAssumption
  <2> QED
    BY <1>0, <1>2, <1>4, <2>1, <2>2, <2>3 DEF TypeOK
<1>6. TimeFromRelease
  BY <1>3 DEF TimeFromRelease
<1>7. SilenceLasts
  BY TimesAssumption DEF Init, SilenceLasts, Elapsed
<1> QED
  BY <1>5, <1>6, <1>7 DEF ButtonsInv

----
\* The facts about one poll on which the invariant and the properties rest:
\* t is the time of each button at the poll.
LEMMA PollFacts ==
    ASSUME ButtonsInv, NEW g \in Gaps, NEW pressed \in SUBSET Buttons,
           NEW t, t = [b \in Buttons |-> since[b] + g]
    PROVE  /\ g \in Nat /\ g >= 1
           /\ \A b \in Buttons : t[b] \in Int /\ t[b] = since[b] + g
           /\ Held(t, pressed) \subseteq {b \in Buttons : b \in pressed /\ t[b] > HELD_TIME}
           /\ \A b \in Buttons : b \in pressed /\ t[b] > HELD_TIME => b \in Held(t, pressed)
           /\ Clicked(t, pressed) \subseteq {b \in Buttons : t[b] >= 0 /\ (b \in pressed \/ t[b] > DEBOUNCE_TIME)}
           /\ \A b \in Buttons : b \notin pressed /\ t[b] > DEBOUNCE_TIME => b \in Clicked(t, pressed)
<1>1. g \in Nat /\ g >= 1
  BY GapsAssumption, TimesAssumption
<1>2. \A b \in Buttons : t[b] \in Int /\ t[b] = since[b] + g
  BY <1>1 DEF ButtonsInv, TypeOK
<1>3. \A b \in Buttons : (b \in pressed) \in BOOLEAN
  OBVIOUS
<1>4. ASSUME NEW b \in Held(t, pressed) PROVE b \in Buttons /\ b \in pressed /\ t[b] > HELD_TIME
  <2>1. b \in Buttons /\ State(t[b], b \in pressed) = "GPIO_HELD"
    BY <1>4 DEF Held
  <2> QED
    BY <1>2, <1>3, <2>1, StateMeaning
<1>5. ASSUME NEW b \in Buttons, b \in pressed, t[b] > HELD_TIME PROVE b \in Held(t, pressed)
  <2>1. State(t[b], b \in pressed) = "GPIO_HELD"
    BY <1>2, <1>3, <1>5, StateMeaning
  <2> QED
    BY <2>1 DEF Held
<1>6. ASSUME NEW b \in Clicked(t, pressed)
      PROVE  b \in Buttons /\ t[b] >= 0 /\ (b \in pressed \/ t[b] > DEBOUNCE_TIME)
  <2>1. b \in Buttons /\ State(t[b], b \in pressed) \in {"GPIO_CLICK", "GPIO_ACTIVE"}
    BY <1>6 DEF Clicked
  <2>2. t[b] \in Int
    BY <1>2, <2>1
  <2>3. CASE State(t[b], b \in pressed) = "GPIO_CLICK"
    <3>1. t[b] > DEBOUNCE_TIME
      BY <1>3, <2>1, <2>2, <2>3, StateMeaning
    <3> QED
      BY <2>1, <2>2, <3>1, TimesAssumption
  <2>4. CASE State(t[b], b \in pressed) = "GPIO_ACTIVE"
    BY <1>3, <2>1, <2>2, <2>4, StateMeaning
  <2> QED
    BY <2>1, <2>3, <2>4
<1>7. ASSUME NEW b \in Buttons, b \notin pressed, t[b] > DEBOUNCE_TIME PROVE b \in Clicked(t, pressed)
  <2>1. State(t[b], b \in pressed) = "GPIO_CLICK"
    BY <1>2, <1>3, <1>7, StateMeaning
  <2> QED
    BY <2>1 DEF Clicked
<1> QED
  BY <1>1, <1>2, <1>4, <1>5, <1>6, <1>7

\* During the silence that the last report began, a poll reports nothing.
LEMMA ReportEndsSilence ==
    ASSUME ButtonsInv, NEW g \in Gaps, NEW pressed \in SUBSET Buttons,
           NEW t, t = [b \in Buttons |-> since[b] + g],
           Held(t, pressed) \union Clicked(t, pressed) # {}
    PROVE  Later(Elapsed, g) >= deaf
<1>1. PICK b \in Held(t, pressed) \union Clicked(t, pressed) : TRUE
  OBVIOUS
<1>2. g \in Nat
  BY GapsAssumption, TimesAssumption
<1>3. b \in Buttons /\ t[b] \in Int /\ t[b] = since[b] + g /\ t[b] >= 0
  <2>1. CASE b \in Held(t, pressed)
    <3>1. b \in Buttons /\ t[b] \in Int /\ t[b] = since[b] + g /\ t[b] > HELD_TIME
      BY <2>1, PollFacts
    <3> QED
      BY <3>1, TimesAssumption
  <2>2. CASE b \in Clicked(t, pressed)
    BY <2>2, PollFacts
  <2> QED
    BY <1>1, <2>1, <2>2
<1>4. Elapsed \in 0..HELD_TIME /\ deaf \in 0..HELD_TIME /\ since[b] \in Int
  BY <1>3, TimesAssumption DEF ButtonsInv, TypeOK, Elapsed
<1>5. Elapsed < deaf => since[b] <= Elapsed - deaf
  BY <1>3 DEF ButtonsInv, SilenceLasts
<1>6. Later(Elapsed, g) \in 0..HELD_TIME /\ (Later(Elapsed, g) < HELD_TIME => Later(Elapsed, g) = Elapsed + g)
  BY <1>2, <1>4, LaterType
<1> QED
  BY <1>2, <1>3, <1>4, <1>5, <1>6, TimesAssumption

LEMMA PollButtonsInv ==
    ASSUME ButtonsInv, NEW g \in Gaps, NEW pressed \in SUBSET Buttons, Poll(g, pressed)
    PROVE  ButtonsInv'
<1>1. PICK t : t = [b \in Buttons |-> since[b] + g]
  OBVIOUS
<1>2. PICK held : held = Held(t, pressed)
  OBVIOUS
<1>3. PICK click : click = Clicked(t, pressed)
  OBVIOUS
<1>5. /\ since' = Rest(t, pressed, held, click)
      /\ level' = pressed
      /\ report' = [held |-> held, click |-> click]
      /\ gap' = g
      /\ released' = [b \in Buttons |-> IF b \in pressed THEN Capped(released[b] + g) ELSE 0]
      /\ quiet' = Later(Elapsed, g)
      /\ deaf' = IF held \union click # {} THEN Silence(held) ELSE deaf
  BY <1>1, <1>2, <1>3 DEF Poll
<1>6. /\ g \in Nat /\ g >= 1
      /\ \A b \in Buttons : t[b] \in Int /\ t[b] = since[b] + g
      /\ held \subseteq Buttons /\ click \subseteq Buttons
      /\ \A b \in Buttons : b \in pressed /\ t[b] > HELD_TIME => b \in held
      /\ \A b \in Buttons : b \notin pressed /\ t[b] > DEBOUNCE_TIME => b \in click
  BY <1>1, <1>2, <1>3, PollFacts
<1>7. Silence(held) \in 0..HELD_TIME
  BY TimesAssumption DEF Silence
<1>8. Elapsed \in 0..HELD_TIME
  BY TimesAssumption DEF ButtonsInv, TypeOK, Elapsed
<1>9. \A b \in Buttons : since'[b] = IF held \union click # {} THEN -Silence(held)
                                     ELSE IF t[b] >= 0 /\ b \notin pressed /\ t[b] <= DEBOUNCE_TIME THEN 0
                                     ELSE t[b]
  BY <1>5 DEF Rest, Sampled
<1>10. \A b \in Buttons :
         /\ released[b] + g \in Nat
         /\ released'[b] = IF b \in pressed THEN Capped(released[b] + g) ELSE 0
         /\ released'[b] \in 0..HELD_TIME + 1
         /\ b \in pressed => released'[b] = released[b] + g \/ released'[b] > HELD_TIME
  <2> SUFFICES ASSUME NEW b \in Buttons
               PROVE  /\ released[b] + g \in Nat
                      /\ released'[b] = IF b \in pressed THEN Capped(released[b] + g) ELSE 0
                      /\ released'[b] \in 0..HELD_TIME + 1
                      /\ b \in pressed => released'[b] = released[b] + g \/ released'[b] > HELD_TIME
    OBVIOUS
  <2>1. released[b] \in 0..HELD_TIME + 1
    BY DEF ButtonsInv, TypeOK
  <2>2. released[b] + g \in Nat
    BY <1>6, <2>1, TimesAssumption
  <2>3. released'[b] = IF b \in pressed THEN Capped(released[b] + g) ELSE 0
    BY <1>5
  <2> QED
    BY <2>2, <2>3, CappedType, TimesAssumption
<1>12. g \in Nat
  BY <1>6
<1>13. ASSUME NEW b \in Buttons
       PROVE  /\ since'[b] \in Int /\ since'[b] <= HELD_TIME
              /\ since'[b] >= -HELD_TIME \/ since'[b] >= -START_TIME
  <2>1. since'[b] \in Int
    BY <1>6, <1>7, <1>9, TimesAssumption
  <2>2. since'[b] <= HELD_TIME
    BY <1>6, <1>7, <1>9, TimesAssumption
  <2>3. since'[b] >= -HELD_TIME \/ since'[b] >= -START_TIME
    <3>1. since[b] \in Int /\ (since[b] >= -HELD_TIME \/ since[b] >= -START_TIME)
      BY DEF ButtonsInv, TypeOK
    <3> QED
      BY <1>6, <1>7, <1>9, <3>1, TimesAssumption
  <2> QED
    BY <2>1, <2>2, <2>3
<1>14. TypeOK'
  <2>1. since' \in [Buttons -> Int]
    <3>1. since' = [b \in Buttons |-> since'[b]]
      BY <1>5 DEF Rest
    <3> QED
      BY <1>13, <3>1
  <2>2. released' \in [Buttons -> 0..HELD_TIME + 1]
    <3>1. released' = [b \in Buttons |-> released'[b]]
      BY <1>5
    <3> QED
      BY <1>10, <3>1
  <2>3. level' \subseteq Buttons /\ gap' \in Gaps
    BY <1>5
  <2>4. report' \in [held : SUBSET Buttons, click : SUBSET Buttons]
    BY <1>5, <1>6
  <2>5. quiet' \in 0..HELD_TIME
    BY <1>5, <1>8, <1>12, LaterType
  <2>6. deaf' \in 0..HELD_TIME
    BY <1>5, <1>7 DEF ButtonsInv, TypeOK
  <2>7. tick' \in 0..1
    BY DEF Poll, ButtonsInv, TypeOK
  <2> QED
    BY <1>13, <2>1, <2>2, <2>3, <2>4, <2>5, <2>6, <2>7 DEF TypeOK
<1>15. TimeFromRelease'
  <2> SUFFICES ASSUME NEW b \in Buttons
               PROVE  since'[b] <= released'[b] \/ released'[b] > HELD_TIME
    BY DEF TimeFromRelease
  <2>1. /\ since[b] \in Int /\ released[b] \in 0..HELD_TIME + 1
        /\ since[b] <= released[b] \/ released[b] > HELD_TIME
    BY DEF ButtonsInv, TypeOK, TimeFromRelease
  <2>2. released'[b] \in 0..HELD_TIME + 1
    BY <1>10
  <2>3. CASE since'[b] <= 0
    BY <1>13, <2>2, <2>3, TimesAssumption
  <2>4. CASE ~(since'[b] <= 0)
    <3>1. held \union click = {} /\ since'[b] = t[b] /\ t[b] > 0
      BY <1>6, <1>7, <1>9, <1>13, <2>4, TimesAssumption
    <3>2. b \in pressed
      <4>1. SUFFICES ASSUME b \notin pressed PROVE FALSE
        OBVIOUS
      <4>2. ~(t[b] > DEBOUNCE_TIME)
        BY <1>6, <3>1, <4>1
      <4> QED
        BY <1>6, <1>9, <2>4, <3>1, <4>1, <4>2, TimesAssumption
    <3>3. released'[b] = released[b] + g \/ released'[b] > HELD_TIME
      BY <1>10, <3>2
    <3> QED
      BY <1>6, <2>1, <2>2, <3>1, <3>3, TimesAssumption
  <2> QED
    BY <2>3, <2>4
<1>16. SilenceLasts'
  <2> SUFFICES ASSUME NEW b \in Buttons, Elapsed' < deaf'
               PROVE  since'[b] <= Elapsed' - deaf'
    BY DEF SilenceLasts
  <2>1. CASE held \union click # {}
    <3>1. report' # Nothing
      BY <1>5, <2>1 DEF Nothing
    <3>2. Elapsed' = 0 /\ deaf' = Silence(held) /\ since'[b] = -Silence(held)
      BY <1>5, <1>9, <2>1, <3>1 DEF Elapsed
    <3> QED
      BY <1>7, <3>2
  <2>2. CASE held \union click = {}
    <3>1. report' = Nothing
      BY <1>5, <2>2 DEF Nothing
    <3>2. Elapsed' = Later(Elapsed, g) /\ deaf' = deaf
      BY <1>5, <2>2, <3>1 DEF Elapsed
    <3>3. deaf \in 0..HELD_TIME /\ since[b] \in Int /\ (Elapsed < deaf => since[b] <= Elapsed - deaf)
      BY DEF ButtonsInv, TypeOK, SilenceLasts
    <3>4. Later(Elapsed, g) < HELD_TIME
      BY <1>8, <1>12, <3>2, <3>3, LaterType, TimesAssumption
    <3>5. Later(Elapsed, g) = Elapsed + g
      BY <1>8, <1>12, <3>4, LaterType
    <3>6. since[b] <= Elapsed - deaf /\ t[b] < 0 /\ t[b] = since[b] + g
      BY <1>6, <1>8, <3>2, <3>3, <3>5
    <3>7. since'[b] = t[b]
      BY <1>6, <1>9, <2>2, <3>6
    <3> QED
      BY <1>6, <1>8, <3>2, <3>3, <3>5, <3>6, <3>7
  <2> QED
    BY <2>1, <2>2
<1> QED
  BY <1>14, <1>15, <1>16 DEF ButtonsInv

\* ButtonsInv is an invariant of the buttons.
LEMMA ButtonsInvariant == Spec => []ButtonsInv
<1>1. ButtonsInv /\ [Next]_vars => ButtonsInv'
  <2> SUFFICES ASSUME ButtonsInv, [Next]_vars PROVE ButtonsInv'
    OBVIOUS
  <2>1. CASE UNCHANGED vars
    BY <2>1 DEF ButtonsInv, TypeOK, TimeFromRelease, SilenceLasts, Elapsed, vars
  <2> QED
    BY <2>1, PollButtonsInv DEF Next
<1> QED
  BY InitButtonsInv, <1>1, PTL DEF Spec

----
\* The times of get_inp_state stay within the longest silence and HELD_TIME.
THEOREM ButtonsTypeCorrect == Spec => []TypeOK
  BY ButtonsInvariant, PTL DEF ButtonsInv

\* device_read_but_handler reports no button as clicked that a poll of the last
\* DEBOUNCE_TIME found released, unless it is pressed now, however late the polls
\* are and whenever device_gpio_init ran.
THEOREM ClicksArePressesHolds == Spec => ClicksArePresses
<1> DEFINE C == \A b \in report'.click \ level' : released[b] + gap' > DEBOUNCE_TIME
<1>1. ASSUME ButtonsInv, [Next]_vars PROVE [C]_vars
  <2>1. SUFFICES ASSUME NEW g \in Gaps, NEW pressed \in SUBSET Buttons, Poll(g, pressed)
                 PROVE  C
    BY <1>1 DEF Next
  <2>2. PICK t : t = [b \in Buttons |-> since[b] + g]
    OBVIOUS
  <2>3. report'.click = Clicked(t, pressed) /\ level' = pressed /\ gap' = g
    BY <2>1, <2>2 DEF Poll
  <2>4. ASSUME NEW b \in Clicked(t, pressed), b \notin pressed
        PROVE  released[b] + g > DEBOUNCE_TIME
    <3>1. b \in Buttons /\ t[b] > DEBOUNCE_TIME /\ t[b] = since[b] + g /\ g \in Nat
      BY <1>1, <2>2, <2>4, PollFacts
    <3>2. /\ since[b] \in Int /\ released[b] \in 0..HELD_TIME + 1
          /\ since[b] <= released[b] \/ released[b] > HELD_TIME
      BY <1>1, <3>1 DEF ButtonsInv, TypeOK, TimeFromRelease
    <3> QED
      BY <3>1, <3>2, TimesAssumption
  <2> QED
    BY <2>3, <2>4
<1> QED
  BY <1>1, ButtonsInvariant, PTL DEF Spec, ClicksArePresses

\* device_read_but_handler reports a button as held only when it is pressed and
\* no poll of the last HELD_TIME found it released.
THEOREM HeldMeansHeldHolds == Spec => HeldMeansHeld
<1> DEFINE H == \A b \in report'.held : b \in level' /\ released[b] + gap' > HELD_TIME
<1>1. ASSUME ButtonsInv, [Next]_vars PROVE [H]_vars
  <2>1. SUFFICES ASSUME NEW g \in Gaps, NEW pressed \in SUBSET Buttons, Poll(g, pressed)
                 PROVE  H
    BY <1>1 DEF Next
  <2>2. PICK t : t = [b \in Buttons |-> since[b] + g]
    OBVIOUS
  <2>3. report'.held = Held(t, pressed) /\ level' = pressed /\ gap' = g
    BY <2>1, <2>2 DEF Poll
  <2>4. ASSUME NEW b \in Held(t, pressed)
        PROVE  b \in pressed /\ released[b] + g > HELD_TIME
    <3>1. /\ b \in Buttons /\ b \in pressed /\ t[b] > HELD_TIME
          /\ t[b] = since[b] + g /\ g \in Nat /\ g >= 1
      BY <1>1, <2>2, <2>4, PollFacts
    <3>2. /\ since[b] \in Int /\ released[b] \in 0..HELD_TIME + 1
          /\ since[b] <= released[b] \/ released[b] > HELD_TIME
      BY <1>1, <3>1 DEF ButtonsInv, TypeOK, TimeFromRelease
    <3> QED
      BY <3>1, <3>2, TimesAssumption
  <2> QED
    BY <2>3, <2>4
<1> QED
  BY <1>1, ButtonsInvariant, PTL DEF Spec, HeldMeansHeld

\* After a report device_read_but_handler posts nothing during the silence.
THEOREM QuietAfterReportHolds == Spec => QuietAfterReport
<1>1. ASSUME ButtonsInv, [Next]_vars PROVE [report' # Nothing => quiet' >= deaf]_vars
  <2>1. SUFFICES ASSUME NEW g \in Gaps, NEW pressed \in SUBSET Buttons, Poll(g, pressed), report' # Nothing
                 PROVE  quiet' >= deaf
    BY <1>1 DEF Next
  <2>2. PICK t : t = [b \in Buttons |-> since[b] + g]
    OBVIOUS
  <2>3. report' = [held |-> Held(t, pressed), click |-> Clicked(t, pressed)] /\ quiet' = Later(Elapsed, g)
    BY <2>1, <2>2 DEF Poll
  <2>4. Held(t, pressed) \union Clicked(t, pressed) # {}
    BY <2>1, <2>3 DEF Nothing
  <2> QED
    BY <1>1, <2>2, <2>3, <2>4, ReportEndsSilence
<1> QED
  BY <1>1, ButtonsInvariant, PTL DEF Spec, QuietAfterReport

====
