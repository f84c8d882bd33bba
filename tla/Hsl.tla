--------------------------------- MODULE Hsl ---------------------------------
(***************************************************************************)
(* The colour conversion of src/app/user/user_led.c, and a client that uses  *)
(* it: the lamp reports every colour in hsl as well, and what it reported    *)
(* may be sent back to it.                                                  *)
(*                                                                         *)
(* The code computes in doubles.  Here a double is the rational number it    *)
(* stands for, written as a numerator over a denominator that the operator   *)
(* names, with one exception: a value that is to be truncated and should be  *)
(* a whole number may come out just below it.                               *)
(***************************************************************************)
EXTENDS Integers

CONSTANT Samples        \* the colours that are set by rgb

Level == 0 .. 255

Rgb == [r : Level, g : Level, b : Level]

Hsl == [h : 0 .. 360, s : Level, l : Level]

ASSUME SamplesAssumption == Samples \subseteq Rgb

VARIABLES
    asked,              \* the colour set by rgb
    report,             \* the hsl of the reply
    shown,              \* the colour set when the reply's hsl is sent back
    phase               \* "asked", "reported" or "sent back"

vars == <<asked, report, shown, phase>>

Larger(x, y) == IF x > y THEN x ELSE y

Smaller(x, y) == IF x < y THEN x ELSE y

\* (uint8_t) or (uint16_t) of n / d, for n >= 0.
Truncated(n, d) ==
    {n \div d} \cup IF n > 0 /\ n % d = 0 THEN {n \div d - 1} ELSE {}

-----------------------------------------------------------------------------
(***************************************************************************)
(* RGB2HSL.                                                                *)
(***************************************************************************)

Brightest(c) == Larger(c.r, Larger(c.g, c.b))

Darkest(c) == Smaller(c.r, Smaller(c.g, c.b))

Spread(c) == Brightest(c) - Darkest(c)

\* Mutant: a hue between blue and red stays negative.
SignedHueTimesSpread(c) ==
    IF c.r = Brightest(c) THEN 60 * (c.g - c.b)
    ELSE IF c.g = Brightest(c) THEN 120 * Spread(c) + 60 * (c.b - c.r)
    ELSE 240 * Spread(c) + 60 * (c.r - c.g)

\* H in degrees, times Spread; it never exceeds the circle.
HueTimesSpread(c) ==
    LET d == Spread(c)
        H == IF c.r = Brightest(c) THEN 60 * (c.g - c.b)
             ELSE IF c.g = Brightest(c) THEN 120 * d + 60 * (c.b - c.r)
             ELSE 240 * d + 60 * (c.r - c.g)
    IN  IF H < 0 THEN H + 360 * d ELSE H

\* Mutant: one divisor for dark and for bright colours.
DarkDivisor(c) == Brightest(c) + Darkest(c)

\* What S * 255 has 255 * Spread divided by.
SaturationDivisor(c) ==
    LET sum == Brightest(c) + Darkest(c)
    IN  IF sum < 255 THEN sum ELSE 510 - sum

RGB2HSL(c) ==
    [h : IF Spread(c) = 0 THEN {0} ELSE Truncated(HueTimesSpread(c), Spread(c)),
     s : IF Spread(c) = 0 THEN {0} ELSE Truncated(255 * Spread(c), SaturationDivisor(c)),
     l : Truncated(Brightest(c) + Darkest(c), 2)]

-----------------------------------------------------------------------------
(***************************************************************************)
(* HSL2RGB.  var_1 and var_2 are in units of 1 / 255^2.                      *)
(***************************************************************************)

Var2(s, l) == IF 2 * l < 255 THEN l * (255 + s) ELSE 255 * (l + s) - s * l

Var1(s, l) == 510 * l - Var2(s, l)

\* vH, in degrees, brought back to one turn.
OneTurn(deg) ==
    LET up == IF deg < 0 THEN deg + 360 ELSE deg
    IN  IF up > 360 THEN up - 360 ELSE up

\* Times 60.  Where two cases meet they agree, so it does not matter on which
\* side of the border a rounded vH falls.
Hue2RGB(v1, v2, vH) ==
    LET deg == OneTurn(vH)
    IN  IF deg < 60 THEN 60 * v1 + (v2 - v1) * deg
        ELSE IF deg < 180 THEN 60 * v2
        ELSE IF deg < 240 THEN 60 * v1 + (v2 - v1) * (240 - deg)
        ELSE 60 * v1

\* (uint8_t) (255.0 * n + 0.5), for n in units of 1 / (60 * 255^2).
Rounded(n) == Truncated(2 * n + 15300, 30600)

\* Mutant: a grey keeps the range 0 to 1 of L.
UnscaledGrey(h, s, l, shift) ==
    IF s = 0 THEN {(2 * l + 255) \div 510}
    ELSE Rounded(Hue2RGB(Var1(s, l), Var2(s, l), h + shift))

\* The primary that is shift degrees behind in the circle.
Primary(h, s, l, shift) ==
    IF s = 0 THEN {l} ELSE Rounded(Hue2RGB(Var1(s, l), Var2(s, l), h + shift))

InCircle(h) == IF h > 360 THEN h % 360 ELSE h

\* Mutant: red and blue take each other's third of the circle.
HSL2BGR(h, s, l) ==
    [r : Primary(InCircle(h), s, l, -120),
     g : Primary(InCircle(h), s, l, 0),
     b : Primary(InCircle(h), s, l, 120)]

HSL2RGB(h, s, l) ==
    [r : Primary(InCircle(h), s, l, 120),
     g : Primary(InCircle(h), s, l, 0),
     b : Primary(InCircle(h), s, l, -120)]

-----------------------------------------------------------------------------
(***************************************************************************)
(* The client.                                                             *)
(***************************************************************************)

Init ==
    /\ asked \in Samples
    /\ report = [h |-> 0, s |-> 0, l |-> 0]
    /\ shown = asked
    /\ phase = "asked"

\* The reply to a light command.
Report ==
    /\ phase = "asked"
    /\ report' \in RGB2HSL(shown)
    /\ phase' = "reported"
    /\ UNCHANGED <<asked, shown>>

\* A light command with what was reported.
SendBack ==
    /\ phase = "reported"
    /\ shown' \in HSL2RGB(report.h, report.s, report.l)
    /\ phase' = "sent back"
    /\ UNCHANGED <<asked, report>>

Next == Report \/ SendBack

Spec == Init /\ [][Next]_vars

-----------------------------------------------------------------------------
(***************************************************************************)
(* Properties.                                                             *)
(***************************************************************************)

Primaries == {"r", "g", "b"}

\* No conversion to an unsigned type is out of range, which C leaves undefined:
\* hues stay within the circle and every level fits a uint8_t.
TypeOK ==
    /\ asked \in Samples
    /\ report \in Hsl
    /\ shown \in Rgb
    /\ phase \in {"asked", "reported", "sent back"}

\* Truncating H, S and L to integers moves no channel by more than seven levels
\* when the reported colour is sent back (user_led.c:304-306, 344-346).
SentBackIsNear ==
    \A p \in Primaries : shown[p] - asked[p] \in -7 .. 7

\* It never swaps two primaries, as a slip between the thirds of the circle in
\* one of the two directions would: the stronger one stays the stronger.
OrderKept ==
    \A p, q \in Primaries : asked[p] > asked[q] => shown[p] >= shown[q]

\* It switches the lamp off only if hardly anything was lit: black means "off"
\* to user_led_set, whatever rounding made the colour black.
LitStaysLit == Brightest(asked) >= 3 => Brightest(shown) > 0

=============================================================================
