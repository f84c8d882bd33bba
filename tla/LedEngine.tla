------------------------------ MODULE LedEngine ------------------------------
(***************************************************************************)
(* The LED engine of the lamp, src/app/user/user_led.c, as operators on a   *)
(* record that holds the engine's static variables and the globals          *)
(* r..w, r_now..w_now and on of user_main.c:                                *)
(*                                                                         *)
(*   on             the switch, 0 or 1                                     *)
(*   saved          r g b w, "the colour before switching off"             *)
(*   now            r_now .. w_now, the colour the lamp is to show          *)
(*   old            r_old .. w_old, the colour the last fade started from   *)
(*   real           r_real .. w_real, the colour shown, fades included      *)
(*   step, h        the static counters of user_led_timer_func              *)
(*   timer          what timer_led runs: nothing, the hue wheel or a fade   *)
(*   led_init_flag  the PWM driver has been started                         *)
(*   duty, pins     what the PWM driver was told: duty and pin per channel  *)
(*                                                                         *)
(* One callback may call user_led_set several times, so the operations are  *)
(* functions from record to record that the callers compose.                *)
(***************************************************************************)
EXTENDS Colours

CONSTANTS
    LED_GRADIENT_STEP,  \* frames of a fade (100)
    HUE_STEP,           \* degrees the hue wheel turns per tick (3)
    HUE_MAX,            \* the last hue before the wheel wraps (360)
    HueColour,          \* HueColour[h]: what HSL2RGB(h, 255, 10) returns
    White               \* (0,0,0,255), the colour of a lamp just powered on

ASSUME EngineAssumption ==
    /\ LED_GRADIENT_STEP \in 1 .. (U8 - 1)
    /\ HUE_MAX \in Nat
    /\ HUE_STEP \in 1 .. HUE_MAX
    /\ HueColour \in [0 .. HUE_MAX -> Colour \ {Black}]
    /\ White \in Colour \ {Black}

-----------------------------------------------------------------------------
(***************************************************************************)
(* Arithmetic: C's integer division truncates towards zero, and storing an  *)
(* int into a uint8_t keeps it modulo U8.                                   *)
(***************************************************************************)

TruncDiv(a, b) == IF a >= 0 THEN a \div b ELSE -((-a) \div b)

\* Mutant: the difference of two levels taken as unsigned.
UnsignedFadeLevel(o, n, s) ==
    (o + (((n - o) % U8) * s) \div LED_GRADIENT_STEP) % U8

\* Frame number s of the fade of one channel from level o to level n.
FadeLevel(o, n, s) == (o + TruncDiv((n - o) * s, LED_GRADIENT_STEP)) % U8

FadeFrame(l, s) ==
    [ch \in Channels |-> FadeLevel(l.old[ch], l.now[ch], s)]

\* Level to PWM duty; 255 gives 22222, the whole period of pwm_init(1000, ..).
Duty(level) == (level * 40000) \div 459

DutyOf(c) == [ch \in Channels |-> Duty(c[ch])]

-----------------------------------------------------------------------------
(***************************************************************************)
(* Pins.  gpio[][] has a row for GPIO 0 to 15; the rows of the pins that     *)
(* cannot drive a LED start with 0.                                         *)
(***************************************************************************)

LastTablePin == 15

UsablePins == (0 .. LastTablePin) \ {1, 3, 6, 7, 8, 11}

\* A configured pin passes user_led_gpio_item when it is at most 16.  Row 16 is
\* behind the table: behindTable says whether the word found there is non-zero.
PinAccepted(p, behindTable) ==
    /\ p <= LastTablePin + 1
    /\ IF p <= LastTablePin THEN p \in UsablePins ELSE behindTable

user_led_gpio_ok(pins, behindTable) ==
    \A ch \in Channels : PinAccepted(pins[ch], behindTable)

\* user_led_gpio_config: all pins or none; pwm_init starts with duty 0.
user_led_gpio_config(l, pins, behindTable) ==
    IF user_led_gpio_ok(pins, behindTable)
    THEN [l EXCEPT !.led_init_flag = TRUE, !.pins = pins, !.duty = DutyOf(Black)]
    ELSE l

-----------------------------------------------------------------------------
(***************************************************************************)
(* Showing and setting colours.                                             *)
(***************************************************************************)

\* Mutant: the PWM driver is told before it is started.
EagerSetTemp(l, val) == [l EXCEPT !.real = val, !.duty = DutyOf(val)]

user_led_set_temp(l, val) ==
    [l EXCEPT !.real = val,
              !.duty = IF l.led_init_flag THEN DutyOf(val) ELSE @]

\* Mutant: the end of a fade forgets to reset step.
FadeTickKeepingStep(l) ==
    LET step  == (l.step + 1) % U8
        shown == user_led_set_temp(l, FadeFrame(l, step))
    IN  IF step >= LED_GRADIENT_STEP
        THEN [user_led_set_temp(shown, l.now) EXCEPT !.step = step, !.timer = "idle"]
        ELSE [shown EXCEPT !.step = step]

\* Mutant: the fade ends one frame early and leaves the target out.
ShortFadeTick(l) ==
    LET step  == (l.step + 1) % U8
        shown == user_led_set_temp(l, FadeFrame(l, step))
    IN  IF step >= LED_GRADIENT_STEP - 1
        THEN [shown EXCEPT !.step = 0, !.timer = "idle"]
        ELSE [shown EXCEPT !.step = step]

\* The fade branch of user_led_timer_func (arg0 = 2).
FadeTick(l) ==
    LET step  == (l.step + 1) % U8
        shown == user_led_set_temp(l, FadeFrame(l, step))
    IN  IF step >= LED_GRADIENT_STEP
        THEN [user_led_set_temp(shown, l.now) EXCEPT !.step = 0, !.timer = "idle"]
        ELSE [shown EXCEPT !.step = step]

\* Mutant: black is remembered like any other colour.
SetTargetSavingBlack(l, val) ==
    [l EXCEPT !.on = IF val = Black THEN 0 ELSE 1, !.now = val, !.saved = val]

\* Mutant: black does not clear the switch.
SetTargetLeavingOn(l, val) ==
    IF val = Black
    THEN [l EXCEPT !.now = Black]
    ELSE [l EXCEPT !.on = 1, !.now = val, !.saved = val]

\* Mutant: switching off remembers the frame of the fade that is shown.
SetTargetSavingShown(l, val) ==
    IF val = Black
    THEN [l EXCEPT !.on = 0, !.now = Black,
                   !.saved = IF l.real = Black THEN @ ELSE l.real]
    ELSE [l EXCEPT !.on = 1, !.now = val, !.saved = val]

\* Both branches of user_led_set switch the lamp and remember a lit colour.
SetTarget(l, val) ==
    IF val = Black
    THEN [l EXCEPT !.on = 0, !.now = Black]
    ELSE [l EXCEPT !.on = 1, !.now = val, !.saved = val]

\* user_led_set without gradient: timer_led and step are left alone.
SetAtOnce(l, val) == user_led_set_temp(SetTarget(l, val), val)

\* Mutant: a new fade goes on from where the last one started.
SetGradientKeepingOld(l, val) == [FadeTick(SetTarget(l, val)) EXCEPT !.timer = "fade"]

\* Mutant: a new fade counts its frames from the beginning.
SetGradientFromStepZero(l, val) ==
    [FadeTick([SetTarget(l, val) EXCEPT !.old = l.real, !.step = 0])
        EXCEPT !.timer = "fade"]

\* user_led_set with gradient: the first frame at once, then timer_led.
SetGradient(l, val) ==
    [FadeTick([SetTarget(l, val) EXCEPT !.old = l.real]) EXCEPT !.timer = "fade"]

user_led_set(l, val, is_gradient) ==
    IF is_gradient = 1 THEN SetGradient(l, val) ELSE SetAtOnce(l, val)

\* The hue-wheel branch of user_led_timer_func (arg0 = 1).
WheelTick(l) ==
    LET h == l.h + HUE_STEP
    IN  [user_led_set(l, HueColour[l.h], 0)
            EXCEPT !.h = IF h > HUE_MAX THEN h % HUE_MAX ELSE h]

user_led_timer_func(l) ==
    IF l.timer = "wheel" THEN WheelTick(l) ELSE FadeTick(l)

-----------------------------------------------------------------------------
(***************************************************************************)
(* Power-on: the static initial values, user_led_init with the configured   *)
(* pins, then user_led_mode_wificonfig in access-point mode or white light. *)
(***************************************************************************)

StaticState ==
    [on |-> 0, saved |-> White, now |-> Black, old |-> Black, real |-> Black,
     step |-> 0, h |-> 0, timer |-> "idle",
     led_init_flag |-> FALSE, duty |-> DutyOf(Black),
     pins |-> [ch \in Channels |-> 0]]

user_led_mode_wificonfig(l) == [l EXCEPT !.timer = "wheel"]

PowerOn(pins, behindTable, softap) ==
    LET l == user_led_gpio_config(StaticState, pins, behindTable)
    IN  IF softap THEN user_led_mode_wificonfig(l) ELSE user_led_set(l, White, 0)

LedState ==
    [on            : {0, 1},
     saved         : Colour,
     now           : Colour,
     old           : Colour,
     real          : Colour,
     step          : 0 .. (LED_GRADIENT_STEP - 1),
     h             : 0 .. HUE_MAX,
     timer         : {"idle", "wheel", "fade"},
     led_init_flag : BOOLEAN,
     duty          : [Channels -> Nat],
     pins          : [Channels -> Nat]]

=============================================================================
