---- MODULE Buttons ----
(***************************************************************************)
(* The front panel's buttons (device_gpio/button_reader.c, device_gpio.c). *)
(* A periodic event calls device_read_but_handler, which samples every     *)
(* button with get_inp_state and posts one EVN_BUT_PRESS with the bits of  *)
(* all buttons that were clicked or held.  After a report all buttons are  *)
(* deaf for a while: their start_active_time lies in the future.           *)
(*                                                                         *)
(* Time is relative: since[b] is cur_time - start_active_time of button b, *)
(* negative while the button is deaf, so a run may go on for ever.  The    *)
(* wrap of the 32-bit ms_counter after 49 days is outside the model.       *)
(***************************************************************************)
EXTENDS Integers, FiniteSets

CONSTANTS
    NumButtons,
    DEBOUNCE_TIME,
    HELD_TIME,
    START_TIME,
    Gaps,       \* possible times between two polls
    Clocks      \* possible values of ms_counter at device_gpio_init

ASSUME ButtonsAssumption == NumButtons \in Nat \ {0}
ASSUME TimesAssumption == /\ DEBOUNCE_TIME \in Nat \ {0}
                          /\ HELD_TIME \in Nat /\ DEBOUNCE_TIME <= HELD_TIME
                          /\ START_TIME \in Nat
\* device_gpio_init asks for a poll every 75 ms, DEBOUNCE_TIME; a busy event
\* task makes it as late as it likes.
ASSUME GapsAssumption == Gaps \subseteq Nat \ {0}
ASSUME ClocksAssumption == Clocks \subseteq Nat

VARIABLES
    since,      \* time since each button's start_active_time
    level,      \* the buttons that were pressed at the last poll
    report,     \* the bits of the EVN_BUT_PRESS posted by the last poll
    gap,        \* the time from the poll before to the last poll
    released,   \* history: time from the last poll that found each button not
                \* pressed to the last poll
    quiet,      \* history: time from the report before it to the last poll
    deaf,       \* history: how long the last report silences the buttons
    tick        \* history: changes with every poll, so that no poll stutters

vars == <<since, level, report, gap, released, quiet, deaf, tick>>

Buttons == 1..NumButtons
Nothing == [held |-> {}, click |-> {}]

\* Times over HELD_TIME make no difference to a button.
Capped(t) == IF t > HELD_TIME THEN HELD_TIME + 1 ELSE t

\* device_conf_gpio_in stores START_TIME itself, whatever ms_counter shows by
\* then.  Before the first poll a button counts as found released at START_TIME,
\* or now, when that is still to come.
Init == /\ \E clock \in Clocks : since = [b \in Buttons |-> clock - START_TIME]
        /\ released = [b \in Buttons |-> IF since[b] > 0 THEN Capped(since[b]) ELSE 0]
        /\ level = {}
        /\ report = Nothing
        /\ gap = 0
        /\ quiet = 0
        /\ deaf = 0
        /\ tick = 0

----
(* get_inp_state at time t after start_active_time *)

State(t, active) ==
    CASE t < 0 -> "GPIO_INACTIVE"
      [] t >= 0 /\ active /\ t > HELD_TIME -> "GPIO_HELD"
      [] t >= 0 /\ active /\ t <= HELD_TIME -> "GPIO_ACTIVE"
      [] t >= 0 /\ ~active /\ t > DEBOUNCE_TIME -> "GPIO_CLICK"
      [] t >= 0 /\ ~active /\ t <= DEBOUNCE_TIME -> "GPIO_INACTIVE"

\* Mutant: an idle button does not restart its time.
SampledNoRestart(t, active) == t

\* Mutant: every sample restarts the time.
SampledRestart(t, active) == IF t >= 0 THEN 0 ELSE t

\* The new start_active_time: an idle button restarts its time.
Sampled(t, active) ==
    IF t >= 0 /\ ~active /\ t <= DEBOUNCE_TIME THEN 0 ELSE t

----
(* device_read_but_handler *)

Held(t, pressed) == {b \in Buttons : State(t[b], b \in pressed) = "GPIO_HELD"}

\* A button that is merely active counts as clicked when a button before it
\* in the list was held or clicked.
Clicked(t, pressed) ==
    {b \in Buttons :
        \/ State(t[b], b \in pressed) = "GPIO_CLICK"
        \/ /\ State(t[b], b \in pressed) = "GPIO_ACTIVE"
           /\ \E c \in 1..(b - 1) : State(t[c], c \in pressed) \in {"GPIO_HELD", "GPIO_CLICK"}}

Silence(held) == IF held # {} THEN HELD_TIME ELSE DEBOUNCE_TIME

\* start_active_time after the poll, relative to the poll.
Rest(t, pressed, held, click) ==
    [b \in Buttons |-> IF held \union click # {} THEN -Silence(held)
                       ELSE Sampled(t[b], b \in pressed)]

\* Capped at HELD_TIME, the longest silence.
Later(q, g) == IF q + g > HELD_TIME THEN HELD_TIME ELSE q + g

Elapsed == IF report = Nothing THEN quiet ELSE 0

Poll(g, pressed) ==
    LET t == [b \in Buttons |-> since[b] + g]
        held == Held(t, pressed)
        click == Clicked(t, pressed)
    IN  /\ since' = Rest(t, pressed, held, click)
        /\ level' = pressed
        /\ report' = [held |-> held, click |-> click]
        /\ gap' = g
        /\ released' = [b \in Buttons |-> IF b \in pressed
                                          THEN Capped(released[b] + g) ELSE 0]
        /\ quiet' = Later(Elapsed, g)
        /\ deaf' = IF held \union click # {} THEN Silence(held) ELSE deaf
        /\ tick' = 1 - tick

Next == \E g \in Gaps, pressed \in SUBSET Buttons : Poll(g, pressed)

Spec == Init /\ [][Next]_vars

\* EVN_READ_GPIO is started with FOREVER.
FairSpec == Spec /\ WF_vars(Next)

----
(* Properties *)

\* A button's start_active_time is never farther in the future than the
\* longest silence, and a button is reported before its time passes HELD_TIME,
\* but for the time that has gone by when device_gpio_init runs.
TypeOK == /\ since \in [Buttons -> Int]
          /\ \A b \in Buttons : /\ since[b] >= -HELD_TIME \/ since[b] >= -START_TIME
                                /\ \/ since[b] <= HELD_TIME
                                   \/ \E clock \in Clocks : since[b] = clock - START_TIME
          /\ level \subseteq Buttons
          /\ report \in [held : SUBSET Buttons, click : SUBSET Buttons]
          /\ gap \in Gaps \union {0}
          /\ released \in [Buttons -> 0..HELD_TIME + 1]
          /\ quiet \in 0..HELD_TIME
          /\ deaf \in 0..HELD_TIME
          /\ tick \in 0..1

\* No phantom clicks: a button that device_read_but_handler reports as clicked
\* is pressed now, or no poll of the last DEBOUNCE_TIME found it released, also
\* when another button's report has moved its start_active_time.  While the polls
\* are never more than DEBOUNCE_TIME apart, that is a press; one late poll, or a
\* device_gpio_init after START_TIME, is enough for a click of an idle button.
ClicksArePresses ==
    [][\A b \in report'.click \ level' : released[b] + gap' > DEBOUNCE_TIME]_vars

\* A button is reported as held only when it is pressed and no poll of the last
\* HELD_TIME found it released.
HeldMeansHeld ==
    [][\A b \in report'.held : b \in level' /\ released[b] + gap' > HELD_TIME]_vars

\* After a report the handler posts nothing, for any button, during the
\* time of silence: HELD_TIME if a button was held, else DEBOUNCE_TIME.
QuietAfterReport ==
    [][report' # Nothing => quiet' >= deaf]_vars

\* A button that stays pressed while no other is, is reported as held again
\* and again, if the polls keep their period from some time on: a late poll
\* takes the other buttons for clicked and silences all of them.
HoldIsReported ==
    \A b \in Buttons :
        <>[](level = {b} /\ gap <= DEBOUNCE_TIME) => []<>(report.held = {b})

----
(* The inductive invariant behind the safety properties. *)

\* The time of a button never runs ahead of the time since it was last found
\* released.
TimeFromRelease ==
    \A b \in Buttons : since[b] <= released[b] \/ released[b] > HELD_TIME

\* While the last report's silence lasts, every button's start_active_time
\* lies in the future.
SilenceLasts ==
    \A b \in Buttons : Elapsed < deaf => since[b] <= Elapsed - deaf

ButtonsInv == TypeOK /\ TimeFromRelease /\ SilenceLasts

====
