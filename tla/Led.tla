--------------------------------- MODULE Led ---------------------------------
(***************************************************************************)
(* The LED engine at work: everything that calls into user_led.c, as one    *)
(* action per kind of call.  The SDK runs callbacks to completion, so a     *)
(* command is one step; the ticks of timer_led (every 10 ms) fall between   *)
(* the commands in any order.                                              *)
(***************************************************************************)
EXTENDS LedEngine

CONSTANTS
    Commands,           \* the colours that commands and time tasks ask for
    Green,              \* (0,51,0,0), shown when new pins are accepted
    PinChoices          \* the pin settings that commands ask for

ASSUME LedAssumption ==
    /\ Commands \subseteq Colour
    /\ Green \in Colour \ {Black}
    /\ PinChoices \subseteq [Channels -> Nat]

VARIABLE led            \* the record LedEngine describes

-----------------------------------------------------------------------------

\* The gpio command insists on different pins.
AllDifferent(pins) == \A c, d \in Channels : pins[c] = pins[d] => c = d

\* Flash bytes that were erased and not written again.
ErasedPins == [ch \in Channels |-> 255]

\* What user_config.gpio can hold at power-on: a setting accepted in an earlier
\* life, or erased bytes when power failed after the version byte was written.
BootPins ==
    {ErasedPins} \cup
    {pins \in PinChoices :
        AllDifferent(pins) /\ \E b \in BOOLEAN : user_led_gpio_ok(pins, b)}

Init ==
    \E pins \in BootPins, behindTable, softap \in BOOLEAN :
        led = PowerOn(pins, behindTable, softap)

\* The rgb and hsl commands, the time tasks and "on":0 (black).
SetColour ==
    \E val \in Commands, is_gradient \in {0, 1} :
        led' = user_led_set(led, val, is_gradient)

\* "on":1, and "on":-1 of a lamp that is off: back to the remembered colour.
SwitchOn ==
    \E is_gradient \in {0, 1} :
        led' = user_led_set(led, led.saved, is_gradient)

\* "on":0, "on":-1 of a lamp that is on, and the auto-off timer.
SwitchOff ==
    \E is_gradient \in {0, 1} :
        led' = user_led_set(led, Black, is_gradient)

\* The "gpio" command: four different pins, and green if they are accepted.
GpioCommand ==
    \E pins \in PinChoices, behindTable \in BOOLEAN :
        /\ AllDifferent(pins)
        /\ user_led_gpio_ok(pins, behindTable)
        /\ led' = user_led_set(user_led_gpio_config(led, pins, behindTable), Green, 0)

\* timer_led fires.
TimerTick ==
    /\ led.timer # "idle"
    /\ led' = user_led_timer_func(led)

\* A restart command, an OTA update or a power cut: all of RAM is lost.
Reboot ==
    \E pins \in BootPins, behindTable, softap \in BOOLEAN :
        led' = PowerOn(pins, behindTable, softap)

Next ==
    \/ SetColour
    \/ SwitchOn
    \/ SwitchOff
    \/ GpioCommand
    \/ TimerTick
    \/ Reboot

\* os_timer_arm(.., 10, 1) repeats until it is disarmed: the SDK keeps firing
\* it.  Nothing is assumed about the commands.
Fairness == WF_led(TimerTick)

SafeSpec == Init /\ [][Next]_led

Spec == SafeSpec /\ Fairness

-----------------------------------------------------------------------------
(***************************************************************************)
(* Properties.                                                             *)
(***************************************************************************)

\* The record keeps its shape; in particular step stays below 100 and hue
\* within the wheel, so neither static counter of user_led_timer_func wraps.
TypeOK == led \in LedState

\* "r g b w: the colour before switching off, must not be all 0"
\* (user_main.c:14): switching on can never leave the lamp dark.
SavedNotBlack == led.saved # Black

\* The switch, the target and the remembered colour agree after every
\* callback: on means that the target is the remembered colour, off that the
\* target is black (user_led.c:181-206, 215-231).
SwitchAgrees ==
    led.now = IF led.on = 1 THEN led.saved ELSE Black

\* When no fade runs the lamp shows its target and the next fade will start
\* with frame 1: an immediate command, the wheel and the end of a fade all
\* leave step = 0 behind, and none of them leaves the lamp in between.
SettledShowsTarget ==
    led.timer # "fade" => led.real = led.now /\ led.step = 0

\* A fade never leaves the colours between its start and its target: no
\* uint8_t wraps and the signed division does not overshoot, also when
\* commands change the target or restart the fade half-way (user_led.c:68-73).
FadeEnvelope ==
    led.timer = "fade" => led.real \in Box(led.old, led.now)

\* The PWM driver was told the colour the engine believes is shown, also
\* across pwm_init, which resets the duties of a lamp that may be lit; before
\* the first accepted pin setting it was told nothing (user_led.c:134-165).
DutyShowsReal ==
    led.duty = DutyOf(IF led.led_init_flag THEN led.real ELSE Black)

\* Switching off, at once or gradually, in the middle of a fade or not, keeps
\* the colour that the lamp was showing or heading for; only a reboot resets it.
OffRemembersTarget ==
    [][led.on = 1 /\ led'.on = 0 => led'.saved = led.now \/ Reboot]_led

\* Once a frame of the running fade is shown, the next tick only brings the
\* lamp nearer to its target, in every channel.
FadeApproaches ==
    [][ TimerTick /\ led.timer = "fade" /\ led.real = FadeFrame(led, led.step)
        => led'.real \in Box(led.real, led.now) ]_led

\* However often commands restart a fade, the lamp shows its target again and
\* again: step only grows until a fade ends, because no command resets it.
ShowsTargetAgain == []<>(led.real = led.now)

Lamp == INSTANCE Lamp WITH
    power  <- led.on,
    colour <- led.saved,
    from   <- led.old,
    shown  <- led.real

\* The engine implements the abstract lamp.
ImplementsLamp == Lamp!Spec

\* What user_led.c:147 says of a colour set without gradient, "takes effect at
\* once", and user_config.h:77 of r_now, "the colour displayed now": when the
\* lamp shows its target and the target does not change, it goes on showing it.
ShownTargetStays ==
    [][ led.real = led.now /\ led'.now = led.now => led'.real = led.real ]_led

=============================================================================
