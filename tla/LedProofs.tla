------------------------------ MODULE LedProofs ------------------------------
(***************************************************************************)
(* The invariants of the LED engine hold for every number of channels,       *)
(* integer width, fade length and hue wheel, and the engine implements the  *)
(* safety part of the abstract lamp.                                        *)
(***************************************************************************)
EXTENDS Led, TLAPS

-----------------------------------------------------------------------------
(***************************************************************************)
(* Arithmetic of one channel.                                               *)
(***************************************************************************)

\* A share s/S of a distance is no more than the distance, and all of it at S.
LEMMA Share ==
    ASSUME NEW a \in Nat, NEW S \in Nat, S > 0, NEW s \in 0 .. S
    PROVE  /\ (a * s) \div S \in 0 .. a
           /\ (a * S) \div S = a
<1> DEFINE q == (a * s) \div S
<1>1. a * s \in Nat /\ a * s <= a * S
  OBVIOUS
<1>2. q \in Nat /\ S * q <= a * s
  BY <1>1
<1>3. S * q <= a * S
  BY <1>1, <1>2
<1>4. q <= a
  BY <1>2, <1>3
<1>5. (a * S) \div S = a
  OBVIOUS
<1> QED
  BY <1>2, <1>4, <1>5

\* Truncating towards zero keeps a frame between the two ends, so that storing
\* it into a uint8_t changes nothing; the last frame is the target.
LEMMA FadeLevelBetween ==
    ASSUME NEW o \in Level, NEW n \in Level, NEW s \in 0 .. LED_GRADIENT_STEP
    PROVE  /\ FadeLevel(o, n, s) \in Level
           /\ Within(o, FadeLevel(o, n, s), n)
           /\ FadeLevel(o, n, LED_GRADIENT_STEP) = n
           /\ n >= o => FadeLevel(o, n, s) = o + ((n - o) * s) \div LED_GRADIENT_STEP
           /\ n < o => FadeLevel(o, n, s) = o - ((o - n) * s) \div LED_GRADIENT_STEP
<1> USE ColoursAssumption, EngineAssumption DEF Level
<1> DEFINE S == LED_GRADIENT_STEP
           up == n - o
           down == o - n
<1>1. S \in Nat /\ S > 0
  OBVIOUS
<1>2. CASE n >= o
  <2>1. up \in Nat
    BY <1>2
  <2>2. (up * s) \div S \in 0 .. up /\ (up * S) \div S = up
    BY <1>1, <2>1, Share
  <2>3. up * s >= 0 /\ up * S >= 0
    BY <1>1, <2>1
  <2>4. /\ TruncDiv(up * s, S) = (up * s) \div S
        /\ TruncDiv(up * S, S) = (up * S) \div S
    BY <2>3 DEF TruncDiv
  <2>5. /\ o + TruncDiv(up * s, S) \in o .. n
        /\ o + TruncDiv(up * S, S) = n
    BY <2>1, <2>2, <2>4
  <2>6. \A x \in Level : x % U8 = x
    OBVIOUS
  <2>7. /\ FadeLevel(o, n, s) = (o + TruncDiv(up * s, S)) % U8
        /\ FadeLevel(o, n, LED_GRADIENT_STEP) = (o + TruncDiv(up * S, S)) % U8
    BY DEF FadeLevel
  <2> HIDE DEF up, down, S
  <2>8. /\ FadeLevel(o, n, s) = o + TruncDiv(up * s, S)
        /\ FadeLevel(o, n, LED_GRADIENT_STEP) = n
    BY <2>5, <2>6, <2>7
  <2>9. FadeLevel(o, n, s) = o + (up * s) \div S
    BY <2>4, <2>8
  <2>10. ~(n < o)
    BY <1>2
  <2> QED
    BY <2>5, <2>8, <2>9, <2>10 DEF Within, up, S
<1>3. CASE n < o
  <2>1. down \in Nat /\ down > 0
    BY <1>3
  <2>2. (down * s) \div S \in 0 .. down /\ (down * S) \div S = down
    BY <1>1, <2>1, Share
  <2>3. up * s = -(down * s) /\ up * S = -(down * S)
    <3>1. \A d \in Int, k \in Int : (-d) * k = -(d * k)
      OBVIOUS
    <3>2. up = -down /\ down \in Int /\ s \in Int /\ S \in Int
      BY <1>1
    <3> HIDE DEF up, down, S
    <3> QED
      BY <3>1, <3>2
  <2>4. /\ TruncDiv(up * s, S) = -((down * s) \div S)
        /\ TruncDiv(up * S, S) = -((down * S) \div S)
    <3>1. ASSUME NEW p \in Nat
          PROVE  TruncDiv(-p, S) = -(p \div S)
      BY <1>1 DEF TruncDiv
    <3>2. down * s \in Nat /\ down * S \in Nat
      BY <1>1, <2>1
    <3> QED
      BY <2>3, <3>1, <3>2
  <2>5. /\ o + TruncDiv(up * s, S) \in n .. o
        /\ o + TruncDiv(up * S, S) = n
    BY <2>1, <2>2, <2>4
  <2>6. \A x \in Level : x % U8 = x
    OBVIOUS
  <2>7. /\ FadeLevel(o, n, s) = (o + TruncDiv(up * s, S)) % U8
        /\ FadeLevel(o, n, LED_GRADIENT_STEP) = (o + TruncDiv(up * S, S)) % U8
    BY DEF FadeLevel
  <2> HIDE DEF up, down, S
  <2>8. /\ FadeLevel(o, n, s) = o + TruncDiv(up * s, S)
        /\ FadeLevel(o, n, LED_GRADIENT_STEP) = n
    BY <2>5, <2>6, <2>7
  <2>9. FadeLevel(o, n, s) = o - (down * s) \div S
    BY <2>2, <2>4, <2>8
  <2>10. ~(n >= o)
    BY <1>3
  <2> QED
    BY <2>5, <2>8, <2>9, <2>10 DEF Within, down, S
<1> QED
  BY <1>2, <1>3

\* A larger share of a distance is no smaller.
LEMMA ShareGrows ==
    ASSUME NEW a \in Nat, NEW S \in Nat, S > 0, NEW s \in Nat
    PROVE  (a * s) \div S <= (a * (s + 1)) \div S
<1> DEFINE p == a * s
           q == a * (s + 1)
<1>1. p \in Nat /\ q \in Nat /\ p <= q
  OBVIOUS
<1> HIDE DEF p, q
<1>2. /\ p \div S \in Nat /\ S * (p \div S) <= p
      /\ q \div S \in Nat /\ q < S * ((q \div S) + 1)
  BY <1>1
<1>3. S * (p \div S) < S * ((q \div S) + 1)
  BY <1>1, <1>2
<1>4. \A i, j \in Nat : S * i < S * j => i < j
  OBVIOUS
<1>5. p \div S < (q \div S) + 1
  BY <1>2, <1>3, <1>4
<1> QED
  BY <1>2, <1>5 DEF p, q

\* Each frame of a fade lies between the frame before it and the target.
LEMMA FadeLevelApproaches ==
    ASSUME NEW o \in Level, NEW n \in Level, NEW s \in 0 .. (LED_GRADIENT_STEP - 1)
    PROVE  Within(FadeLevel(o, n, s), FadeLevel(o, n, s + 1), n)
<1> DEFINE S == LED_GRADIENT_STEP
<1>1. /\ S \in Nat /\ S > 0 /\ s \in Nat /\ s \in 0 .. S /\ s + 1 \in 0 .. S
      /\ o \in Nat /\ n \in Nat
  BY ColoursAssumption, EngineAssumption DEF Level
<1>2. /\ FadeLevel(o, n, s + 1) \in Level /\ FadeLevel(o, n, s) \in Level
      /\ Within(o, FadeLevel(o, n, s + 1), n)
  BY <1>1, FadeLevelBetween
<1>3. CASE n >= o
  <2>1. n - o \in Nat
    BY <1>1, <1>3
  <2>2. ((n - o) * s) \div S <= ((n - o) * (s + 1)) \div S
    BY <1>1, <2>1, ShareGrows
  <2>3. /\ FadeLevel(o, n, s) = o + ((n - o) * s) \div S
        /\ FadeLevel(o, n, s + 1) = o + ((n - o) * (s + 1)) \div S
    BY <1>1, <1>3, FadeLevelBetween
  <2>4. ((n - o) * s) \div S \in 0 .. (n - o) /\ ((n - o) * (s + 1)) \div S \in 0 .. (n - o)
    BY <1>1, <2>1, Share
  <2> QED
    BY <1>1, <2>1, <2>2, <2>3, <2>4 DEF Within
<1>4. CASE n < o
  <2>1. o - n \in Nat
    BY <1>1, <1>4
  <2>2. ((o - n) * s) \div S <= ((o - n) * (s + 1)) \div S
    BY <1>1, <2>1, ShareGrows
  <2>3. /\ FadeLevel(o, n, s) = o - ((o - n) * s) \div S
        /\ FadeLevel(o, n, s + 1) = o - ((o - n) * (s + 1)) \div S
    BY <1>1, <1>4, FadeLevelBetween
  <2>4. ((o - n) * s) \div S \in 0 .. (o - n) /\ ((o - n) * (s + 1)) \div S \in 0 .. (o - n)
    BY <1>1, <2>1, Share
  <2> QED
    BY <1>1, <2>1, <2>2, <2>3, <2>4 DEF Within
<1> QED
  BY <1>1, <1>3, <1>4

-----------------------------------------------------------------------------
(***************************************************************************)
(* The operations of the engine, on any record.                             *)
(***************************************************************************)

\* The remembered colour, the switch and the target agree.
Core(l) ==
    /\ l \in LedState
    /\ l.saved # Black
    /\ l.now = IF l.on = 1 THEN l.saved ELSE Black

DutyRight(l) == l.duty = DutyOf(IF l.led_init_flag THEN l.real ELSE Black)

\* Enough about the duties to show a colour: nothing before the PWM is set up.
DutyKnown(l) == l.led_init_flag \/ l.duty = DutyOf(Black)

\* Where the light is with respect to the target.
LightRight(l) ==
    IF l.timer = "fade"
    THEN l.real \in Box(l.old, l.now)
    ELSE l.real = l.now /\ l.step = 0

Good(l) == Core(l) /\ DutyRight(l) /\ LightRight(l)

LEMMA DutyOfType == ASSUME NEW c \in Colour PROVE DutyOf(c) \in [Channels -> Nat]
  BY ColoursAssumption DEF Colour, Level, DutyOf, Duty

LEMMA BlackIsColour == Black \in Colour
  BY ColoursAssumption DEF Black, Colour, Level

LEMMA FadeFrameBetween ==
    ASSUME NEW l \in LedState, NEW s \in 0 .. LED_GRADIENT_STEP
    PROVE  FadeFrame(l, s) \in Box(l.old, l.now)
<1>1. l.old \in Colour /\ l.now \in Colour
  BY DEF LedState
<1>2. \A ch \in Channels : l.old[ch] \in Level /\ l.now[ch] \in Level
  BY <1>1 DEF Colour
<1>3. \A ch \in Channels : /\ FadeFrame(l, s)[ch] \in Level
                           /\ Within(l.old[ch], FadeFrame(l, s)[ch], l.now[ch])
  BY <1>2, FadeLevelBetween DEF FadeFrame
<1>4. FadeFrame(l, s) \in Colour
  BY <1>3 DEF FadeFrame, Colour
<1> QED
  BY <1>3, <1>4 DEF Box

LEMMA TargetInBox ==
    ASSUME NEW c \in Colour, NEW d \in Colour PROVE d \in Box(c, d)
  BY DEF Box, Within, Colour, Level

\* Showing a colour changes nothing but what is shown.
LEMMA SetTempShows ==
    ASSUME NEW l, Core(l), DutyKnown(l), NEW val \in Colour
    PROVE  LET n == user_led_set_temp(l, val)
           IN  /\ Core(n) /\ DutyRight(n)
               /\ n.real = val
               /\ n = [l EXCEPT !.real = n.real, !.duty = n.duty]
<1> DEFINE n == user_led_set_temp(l, val)
           duty == IF l.led_init_flag THEN DutyOf(val) ELSE l.duty
<1>1. duty \in [Channels -> Nat]
  BY DutyOfType DEF Core, LedState
<1>2. n = [l EXCEPT !.real = val, !.duty = duty]
  BY DEF user_led_set_temp, Core, LedState
<1>3. n \in LedState
  BY <1>1, <1>2 DEF Core, LedState
<1>4. /\ n.real = val /\ n.duty = duty
      /\ n.on = l.on /\ n.saved = l.saved /\ n.now = l.now
      /\ n.led_init_flag = l.led_init_flag
  BY <1>2 DEF Core, LedState
<1> QED
  BY <1>2, <1>3, <1>4 DEF Core, DutyRight, DutyKnown

\* A tick of a fade shows a frame between the fade's ends; the last frame is
\* the target and stops the timer, the others leave it running.
LEMMA FadeTickFrames ==
    ASSUME NEW l, Core(l), DutyRight(l)
    PROVE  LET n == FadeTick(l)
           IN  /\ Core(n) /\ DutyRight(n)
               /\ n.on = l.on /\ n.saved = l.saved /\ n.now = l.now /\ n.old = l.old
               /\ n.real \in Box(n.old, n.now)
               /\ n.real \in {FadeFrame(l, l.step + 1), n.now}
               /\ \/ n.timer = "idle" /\ n.real = n.now /\ n.step = 0
                  \/ n.timer = l.timer
<1> DEFINE s     == (l.step + 1) % U8
           frame == FadeFrame(l, s)
           shown == user_led_set_temp(l, frame)
           last  == user_led_set_temp(shown, l.now)
           n     == FadeTick(l)
<1>1. s = l.step + 1 /\ s \in 1 .. LED_GRADIENT_STEP
  <2>1. l.step \in 0 .. (LED_GRADIENT_STEP - 1)
    BY DEF Core, LedState
  <2>2. \A x \in Nat : x < U8 => x % U8 = x
    BY ColoursAssumption
  <2> QED
    BY <2>1, <2>2, ColoursAssumption, EngineAssumption
<1>2. frame \in Box(l.old, l.now) /\ frame \in Colour
  BY <1>1, FadeFrameBetween DEF Core, Box
<1>3. l.now \in Colour /\ l.old \in Colour
  BY DEF Core, LedState
<1>4. /\ Core(shown) /\ DutyRight(shown) /\ shown.real = frame
      /\ shown = [l EXCEPT !.real = shown.real, !.duty = shown.duty]
  BY <1>2, SetTempShows, ZenonT(60) DEF DutyRight, DutyKnown
<1>5. CASE s >= LED_GRADIENT_STEP
  <2>1. /\ Core(last) /\ DutyRight(last) /\ last.real = l.now
        /\ last = [shown EXCEPT !.real = last.real, !.duty = last.duty]
    BY <1>3, <1>4, SetTempShows, ZenonT(60) DEF DutyRight, DutyKnown
  <2>2. n = [last EXCEPT !.step = 0, !.timer = "idle"]
    BY <1>5 DEF FadeTick
  <2>3. /\ last.on = l.on /\ last.saved = l.saved /\ last.now = l.now
        /\ last.old = l.old
    BY <1>4, <2>1, ZenonT(60) DEF Core, LedState
  <2>4. /\ n \in LedState
        /\ n.on = last.on /\ n.saved = last.saved /\ n.now = last.now
        /\ n.old = last.old /\ n.real = last.real /\ n.duty = last.duty
        /\ n.led_init_flag = last.led_init_flag
        /\ n.timer = "idle" /\ n.step = 0
    <3>1. 0 \in 0 .. (LED_GRADIENT_STEP - 1)
      BY EngineAssumption
    <3> QED
      BY <2>1, <2>2, <3>1 DEF Core, LedState
  <2>5. n.real \in Box(n.old, n.now)
    BY <1>3, <2>1, <2>3, <2>4, TargetInBox
  <2> QED
    BY <2>1, <2>3, <2>4, <2>5 DEF Core, DutyRight
<1>6. CASE ~(s >= LED_GRADIENT_STEP)
  <2>1. n = [shown EXCEPT !.step = s]
    BY <1>6 DEF FadeTick
  <2>2. s \in 0 .. (LED_GRADIENT_STEP - 1)
    BY <1>1, <1>6, EngineAssumption
  <2>3. /\ shown.on = l.on /\ shown.saved = l.saved /\ shown.now = l.now
        /\ shown.old = l.old /\ shown.timer = l.timer
    BY <1>4 DEF Core, LedState
  <2>4. /\ n \in LedState
        /\ n.on = shown.on /\ n.saved = shown.saved /\ n.now = shown.now
        /\ n.old = shown.old /\ n.real = shown.real /\ n.duty = shown.duty
        /\ n.led_init_flag = shown.led_init_flag /\ n.timer = shown.timer
    BY <1>4, <2>1, <2>2 DEF Core, LedState
  <2>5. n.real \in Box(n.old, n.now)
    BY <1>2, <1>4, <2>3, <2>4
  <2> QED
    BY <1>1, <1>4, <2>3, <2>4, <2>5 DEF Core, DutyRight
<1> QED
  BY <1>5, <1>6

\* What the abstract lamp allows an order to do to switch and colour.
Ordered(l, n) ==
    \/ n.on = 1 /\ n.saved \in Colour \ {Black}
    \/ n.on = 0 /\ n.saved = l.saved

LEMMA SetTargetOrders ==
    ASSUME NEW l, Core(l), NEW val \in Colour
    PROVE  LET n == SetTarget(l, val)
           IN  /\ Core(n) /\ Ordered(l, n)
               /\ n.duty = l.duty /\ n.led_init_flag = l.led_init_flag
               /\ n.now = val /\ n.real = l.real /\ n.old = l.old
               /\ n.step = l.step /\ n.timer = l.timer
               /\ n.on = 0 => n.saved = l.saved
<1> DEFINE n == SetTarget(l, val)
<1>1. CASE val = Black
  <2>1. n = [l EXCEPT !.on = 0, !.now = Black]
    BY <1>1 DEF SetTarget
  <2>2. n \in LedState
    BY <2>1, BlackIsColour DEF Core, LedState
  <2>3. /\ n.on = 0 /\ n.now = Black /\ n.saved = l.saved /\ n.real = l.real
        /\ n.old = l.old /\ n.step = l.step /\ n.timer = l.timer
        /\ n.duty = l.duty /\ n.led_init_flag = l.led_init_flag
    BY <2>1 DEF Core, LedState
  <2> QED
    BY <1>1, <2>2, <2>3 DEF Core, Ordered
<1>2. CASE val # Black
  <2>1. n = [l EXCEPT !.on = 1, !.now = val, !.saved = val]
    BY <1>2 DEF SetTarget
  <2>2. n \in LedState
    BY <2>1 DEF Core, LedState
  <2>3. /\ n.on = 1 /\ n.now = val /\ n.saved = val /\ n.real = l.real
        /\ n.old = l.old /\ n.step = l.step /\ n.timer = l.timer
        /\ n.duty = l.duty /\ n.led_init_flag = l.led_init_flag
    BY <2>1 DEF Core, LedState
  <2> QED
    BY <1>2, <2>2, <2>3 DEF Core, Ordered
<1> QED
  BY <1>1, <1>2

\* A colour set at once: shown, or, while a fade runs, shown until its next tick.
LEMMA SetAtOnceGood ==
    ASSUME NEW l, Core(l), DutyKnown(l), LightRight(l), NEW val \in Colour
    PROVE  LET n == SetAtOnce(l, val)
           IN  /\ Good(n) /\ Ordered(l, n)
               /\ n.real = n.now /\ n.old = l.old
               /\ n.on = 0 => n.saved = l.saved
<1> DEFINE t == SetTarget(l, val)
           n == SetAtOnce(l, val)
<1>1. /\ Core(t) /\ DutyKnown(t) /\ Ordered(l, t)
      /\ t.now = val /\ t.old = l.old /\ t.step = l.step /\ t.timer = l.timer
      /\ t.on = 0 => t.saved = l.saved
  BY SetTargetOrders DEF DutyKnown
<1>2. /\ Core(n) /\ DutyRight(n) /\ n.real = val
      /\ n = [t EXCEPT !.real = n.real, !.duty = n.duty]
  BY <1>1, SetTempShows DEF SetAtOnce
<1>3. /\ n.on = t.on /\ n.saved = t.saved /\ n.now = t.now /\ n.old = t.old
      /\ n.step = t.step /\ n.timer = t.timer
  BY <1>1, <1>2 DEF Core, LedState
<1>4. n.old \in Colour
  BY <1>2 DEF Core, LedState
<1>5. n.timer = "fade" => n.real \in Box(n.old, n.now)
  BY <1>1, <1>2, <1>3, <1>4, TargetInBox
<1>6. n.timer # "fade" => n.step = 0
  BY <1>1, <1>3 DEF LightRight
<1> QED
  BY <1>1, <1>2, <1>3, <1>5, <1>6 DEF Good, LightRight, Ordered

\* A colour set gradually: the fade starts from the colour shown.
LEMMA SetGradientGood ==
    ASSUME NEW l, Good(l), NEW val \in Colour
    PROVE  LET n == SetGradient(l, val)
           IN  /\ Good(n) /\ Ordered(l, n)
               /\ n.real \in Box(n.old, n.now) /\ n.old = l.real
               /\ n.on = 0 => n.saved = l.saved
<1> DEFINE t == SetTarget(l, val)
           u == [t EXCEPT !.old = l.real]
           f == FadeTick(u)
           n == SetGradient(l, val)
<1>1. /\ Core(t) /\ DutyRight(t) /\ Ordered(l, t) /\ t.real = l.real
      /\ t.on = 0 => t.saved = l.saved
  BY SetTargetOrders DEF Good, DutyRight
<1>2. /\ Core(u) /\ DutyRight(u) /\ u.old = l.real
      /\ u.on = t.on /\ u.saved = t.saved /\ u.now = t.now
  BY <1>1 DEF Good, Core, LedState, DutyRight
<1>3. /\ Core(f) /\ DutyRight(f)
      /\ f.on = u.on /\ f.saved = u.saved /\ f.now = u.now /\ f.old = u.old
      /\ f.real \in Box(f.old, f.now)
  BY <1>2, FadeTickFrames
<1>4. n = [f EXCEPT !.timer = "fade"]
  BY DEF SetGradient
<1>5. /\ n \in LedState /\ n.timer = "fade"
      /\ n.on = f.on /\ n.saved = f.saved /\ n.now = f.now /\ n.old = f.old
      /\ n.real = f.real /\ n.duty = f.duty /\ n.led_init_flag = f.led_init_flag
  BY <1>3, <1>4 DEF Core, LedState
<1> QED
  BY <1>1, <1>2, <1>3, <1>5 DEF Good, Core, DutyRight, LightRight, Ordered

\* What a command does, in the terms of the abstract lamp: an order that the
\* light follows at once or by frames.
Followed(l, n) ==
    /\ Ordered(l, n)
    /\ \/ n.real = n.now /\ n.old = l.old
       \/ n.real \in Box(n.old, n.now) /\ n.old = l.real
    /\ n.on = 0 => n.saved = l.saved

LEMMA SetGood ==
    ASSUME NEW l, Good(l), NEW val \in Colour, NEW is_gradient \in {0, 1}
    PROVE  LET n == user_led_set(l, val, is_gradient)
           IN  Good(n) /\ Followed(l, n)
<1>1. CASE is_gradient = 1
  BY <1>1, SetGradientGood DEF user_led_set, Followed
<1>2. CASE is_gradient = 0
  BY <1>2, SetAtOnceGood DEF user_led_set, Followed, Good, DutyRight, DutyKnown
<1> QED
  BY <1>1, <1>2

LEMMA WheelGood ==
    ASSUME NEW l, Good(l)
    PROVE  Good(WheelTick(l)) /\ Followed(l, WheelTick(l))
<1> DEFINE s == user_led_set(l, HueColour[l.h], 0)
           h == IF l.h + HUE_STEP > HUE_MAX THEN (l.h + HUE_STEP) % HUE_MAX
                ELSE l.h + HUE_STEP
           n == WheelTick(l)
<1>1. l.h \in 0 .. HUE_MAX
  BY DEF Good, Core, LedState
<1>2. HueColour[l.h] \in Colour
  BY <1>1, EngineAssumption
<1>3. Good(s) /\ Followed(l, s)
  BY <1>2, SetGood
<1>4. h \in 0 .. HUE_MAX
  <2>1. HUE_MAX \in Nat /\ HUE_MAX > 0 /\ HUE_STEP \in Nat
    BY EngineAssumption
  <2>2. \A x \in Nat, m \in Nat : m > 0 => x % m \in 0 .. m
    OBVIOUS
  <2>3. (l.h + HUE_STEP) % HUE_MAX \in 0 .. HUE_MAX
    BY <1>1, <2>1, <2>2
  <2> QED
    BY <1>1, <2>1, <2>3
<1>5. n = [s EXCEPT !.h = h]
  BY DEF WheelTick
<1>6. /\ n \in LedState
      /\ n.on = s.on /\ n.saved = s.saved /\ n.now = s.now /\ n.old = s.old
      /\ n.real = s.real /\ n.duty = s.duty /\ n.led_init_flag = s.led_init_flag
      /\ n.step = s.step /\ n.timer = s.timer
  BY <1>3, <1>4, <1>5 DEF Good, Core, LedState
<1> QED
  BY <1>3, <1>6 DEF Good, Core, DutyRight, LightRight, Followed, Ordered

\* New pins reset the duties; the colour set next repairs them.
LEMMA GpioConfigCore ==
    ASSUME NEW l, Good(l), NEW pins \in [Channels -> Nat], NEW b \in BOOLEAN
    PROVE  LET n == user_led_gpio_config(l, pins, b)
           IN  /\ Core(n) /\ DutyKnown(n) /\ LightRight(n)
               /\ n.on = l.on /\ n.saved = l.saved /\ n.now = l.now
               /\ n.old = l.old /\ n.real = l.real /\ n.step = l.step
               /\ n.timer = l.timer
               /\ l.real = Black => DutyRight(n)
<1> DEFINE n == user_led_gpio_config(l, pins, b)
<1>1. CASE user_led_gpio_ok(pins, b)
  <2>1. n = [l EXCEPT !.led_init_flag = TRUE, !.pins = pins, !.duty = DutyOf(Black)]
    BY <1>1 DEF user_led_gpio_config
  <2>2. DutyOf(Black) \in [Channels -> Nat]
    BY BlackIsColour, DutyOfType
  <2>3. n \in LedState
    BY <2>1, <2>2 DEF Good, Core, LedState
  <2>4. /\ n.led_init_flag /\ n.duty = DutyOf(Black)
        /\ n.on = l.on /\ n.saved = l.saved /\ n.now = l.now
        /\ n.old = l.old /\ n.real = l.real /\ n.step = l.step
        /\ n.timer = l.timer
    BY <2>1 DEF Good, Core, LedState
  <2> QED
    BY <2>3, <2>4 DEF Good, Core, DutyKnown, LightRight, DutyRight
<1>2. CASE ~user_led_gpio_ok(pins, b)
  BY <1>2 DEF user_led_gpio_config, Good, DutyRight, DutyKnown
<1> QED
  BY <1>1, <1>2

LEMMA GpioCommandGood ==
    ASSUME NEW l, Good(l), NEW pins \in [Channels -> Nat], NEW b \in BOOLEAN
    PROVE  LET n == user_led_set(user_led_gpio_config(l, pins, b), Green, 0)
           IN  Good(n) /\ Followed(l, n)
<1> DEFINE g == user_led_gpio_config(l, pins, b)
<1>1. /\ Core(g) /\ DutyKnown(g) /\ LightRight(g)
      /\ g.old = l.old /\ g.saved = l.saved
  BY GpioConfigCore
<1>2. user_led_set(g, Green, 0) = SetAtOnce(g, Green)
  BY DEF user_led_set
<1> QED
  BY <1>1, <1>2, SetAtOnceGood, LedAssumption DEF Followed, Ordered

\* A lamp just powered on, in the terms of the abstract lamp.
Fresh(n) ==
    /\ n.saved = White
    /\ n.old = Black
    /\ n.real = n.now

LEMMA PowerOnGood ==
    ASSUME NEW pins \in [Channels -> Nat], NEW b \in BOOLEAN, NEW softap \in BOOLEAN
    PROVE  Good(PowerOn(pins, b, softap)) /\ Fresh(PowerOn(pins, b, softap))
<1> DEFINE z == StaticState
           l == user_led_gpio_config(z, pins, b)
           n == PowerOn(pins, b, softap)
<1>1. White \in Colour /\ White # Black
  BY EngineAssumption
<1>2. z \in LedState
  <2>1. 0 \in 0 .. (LED_GRADIENT_STEP - 1) /\ 0 \in 0 .. HUE_MAX
    BY EngineAssumption
  <2>2. DutyOf(Black) \in [Channels -> Nat]
    BY BlackIsColour, DutyOfType
  <2> QED
    BY <1>1, <2>1, <2>2, BlackIsColour DEF StaticState, LedState
<1>3. Good(z) /\ z.saved = White /\ z.old = Black /\ z.real = Black /\ z.now = Black
  BY <1>1, <1>2 DEF StaticState, Good, Core, DutyRight, LightRight
<1>4. /\ Good(l) /\ l.saved = White /\ l.old = Black /\ l.real = Black
      /\ l.now = Black /\ l.step = 0 /\ l.timer = "idle"
  BY <1>3, GpioConfigCore DEF Good, StaticState
<1>5. CASE softap
  <2>1. n = [l EXCEPT !.timer = "wheel"]
    BY <1>5 DEF PowerOn, user_led_mode_wificonfig
  <2>2. n \in LedState
    BY <1>4, <2>1 DEF Good, Core, LedState
  <2>3. /\ n.timer = "wheel" /\ n.on = l.on /\ n.saved = l.saved /\ n.now = l.now
        /\ n.old = l.old /\ n.real = l.real /\ n.step = l.step
        /\ n.duty = l.duty /\ n.led_init_flag = l.led_init_flag
    BY <1>4, <2>1 DEF Good, Core, LedState
  <2> QED
    BY <1>4, <2>2, <2>3 DEF Good, Core, DutyRight, LightRight, Fresh
<1>6. CASE ~softap
  <2>1. n = SetAtOnce(l, White)
    BY <1>6 DEF PowerOn, user_led_set
  <2>2. Good(n) /\ n.real = n.now /\ n.old = Black
    BY <1>1, <1>4, <2>1, SetAtOnceGood DEF Good, DutyRight, DutyKnown
  <2>3. n.saved = White
    BY <1>1, <1>4, <2>1
    DEF SetAtOnce, SetTarget, user_led_set_temp, Good, Core, LedState
  <2> QED
    BY <2>2, <2>3 DEF Fresh
<1> QED
  BY <1>5, <1>6

-----------------------------------------------------------------------------
(***************************************************************************)
(* The specification.                                                      *)
(***************************************************************************)

IInv == Good(led)

\* What one step of the lamp can be.
Stepped ==
    \/ Followed(led, led')
    \/ /\ led'.on = led.on /\ led'.saved = led.saved /\ led'.old = led.old
       /\ led'.real \in Box(led.old, led.now)
    \/ Fresh(led') /\ Reboot
    \/ led' = led

LEMMA BootPinsAreNaturals == BootPins \subseteq [Channels -> Nat]
  BY LedAssumption DEF BootPins, ErasedPins

LEMMA InitGood == Init => IInv /\ Fresh(led)
  BY PowerOnGood, BootPinsAreNaturals DEF Init, IInv

LEMMA NextGood == IInv /\ [Next]_led => IInv' /\ Stepped
<1> SUFFICES ASSUME IInv, [Next]_led PROVE IInv' /\ Stepped
  OBVIOUS
<1> USE DEF IInv, Stepped
<1>1. CASE SetColour
  <2>1. PICK val \in Commands, is_gradient \in {0, 1} :
            led' = user_led_set(led, val, is_gradient)
    BY <1>1 DEF SetColour
  <2> QED
    BY <2>1, SetGood, LedAssumption
<1>2. CASE SwitchOn
  <2>1. PICK is_gradient \in {0, 1} : led' = user_led_set(led, led.saved, is_gradient)
    BY <1>2 DEF SwitchOn
  <2>2. led.saved \in Colour
    BY DEF Good, Core, LedState
  <2> QED
    BY <2>1, <2>2, SetGood
<1>3. CASE SwitchOff
  <2>1. PICK is_gradient \in {0, 1} : led' = user_led_set(led, Black, is_gradient)
    BY <1>3 DEF SwitchOff
  <2> QED
    BY <2>1, SetGood, BlackIsColour
<1>4. CASE GpioCommand
  <2>1. PICK pins \in PinChoices, b \in BOOLEAN :
            led' = user_led_set(user_led_gpio_config(led, pins, b), Green, 0)
    BY <1>4 DEF GpioCommand
  <2> QED
    BY <2>1, GpioCommandGood, LedAssumption
<1>5. CASE TimerTick
  <2>1. led.timer # "idle" /\ led' = user_led_timer_func(led)
    BY <1>5 DEF TimerTick
  <2>2. CASE led.timer = "wheel"
    BY <2>1, <2>2, WheelGood DEF user_led_timer_func
  <2>3. CASE led.timer = "fade"
    <3>1. led' = FadeTick(led)
      BY <2>1, <2>3 DEF user_led_timer_func
    <3>2. /\ Core(led') /\ DutyRight(led')
          /\ led'.on = led.on /\ led'.saved = led.saved /\ led'.old = led.old
          /\ led'.now = led.now
          /\ led'.real \in Box(led'.old, led'.now)
          /\ \/ led'.timer = "idle" /\ led'.real = led'.now /\ led'.step = 0
             \/ led'.timer = led.timer
      BY <3>1, FadeTickFrames DEF Good
    <3> QED
      BY <2>3, <3>2 DEF Good, LightRight
  <2> QED
    BY <2>1, <2>2, <2>3 DEF Good, Core, LedState
<1>6. CASE Reboot
  <2>1. PICK pins \in BootPins, b \in BOOLEAN, softap \in BOOLEAN :
            led' = PowerOn(pins, b, softap)
    BY <1>6 DEF Reboot
  <2> QED
    BY <1>6, <2>1, PowerOnGood, BootPinsAreNaturals
<1>7. CASE UNCHANGED led
  BY <1>7
<1> QED
  BY <1>1, <1>2, <1>3, <1>4, <1>5, <1>6, <1>7 DEF Next

LEMMA IInvAlways == Spec => []IInv
  BY InitGood, NextGood, PTL DEF Spec, SafeSpec

-----------------------------------------------------------------------------

\* The static counters of user_led_timer_func and every level stay in range.
THEOREM TypeCorrect == Spec => []TypeOK
<1>1. IInv => TypeOK
  BY DEF IInv, Good, Core, TypeOK
<1> QED
  BY <1>1, IInvAlways, PTL

\* However the lamp was switched off, switching it on again makes light: the
\* remembered colour is never black.
THEOREM SavedNeverBlack == Spec => []SavedNotBlack
<1>1. IInv => SavedNotBlack
  BY DEF IInv, Good, Core, SavedNotBlack
<1> QED
  BY <1>1, IInvAlways, PTL

\* The switch, the target and the remembered colour agree between callbacks.
THEOREM SwitchFollowsTarget == Spec => []SwitchAgrees
<1>1. IInv => SwitchAgrees
  BY DEF IInv, Good, Core, SwitchAgrees
<1> QED
  BY <1>1, IInvAlways, PTL

\* No command, tick or pin setting leaves the lamp between two colours without
\* a fade that goes on.
THEOREM NothingStopsHalfWay == Spec => []SettledShowsTarget
<1>1. IInv => SettledShowsTarget
  BY DEF IInv, Good, LightRight, SettledShowsTarget
<1> QED
  BY <1>1, IInvAlways, PTL

\* The uint8_t and int16_t arithmetic of a fade never leaves the colours
\* between its ends, for every number of levels and frames.
THEOREM FadesStayBetween == Spec => []FadeEnvelope
<1>1. IInv => FadeEnvelope
  BY DEF IInv, Good, LightRight, FadeEnvelope
<1> QED
  BY <1>1, IInvAlways, PTL

\* The PWM driver always has the duties of the colour the engine believes in.
THEOREM DutyFollows == Spec => []DutyShowsReal
<1>1. IInv => DutyShowsReal
  BY DEF IInv, Good, DutyRight, DutyShowsReal
<1> QED
  BY <1>1, IInvAlways, PTL

\* Switching off keeps the colour the lamp showed or was heading for.
THEOREM SwitchingOffRemembers == Spec => OffRemembersTarget
<1>1. IInv /\ [Next]_led =>
          [led.on = 1 /\ led'.on = 0 => led'.saved = led.now \/ Reboot]_led
  <2> SUFFICES ASSUME IInv, [Next]_led, led.on = 1, led'.on = 0, ~Reboot
               PROVE  led'.saved = led.now
    OBVIOUS
  <2>1. led.now = led.saved
    BY DEF IInv, Good, Core
  <2>2. led'.saved = led.saved
    BY NextGood DEF Stepped, Followed
  <2> QED
    BY <2>1, <2>2
<1> QED
  BY <1>1, IInvAlways, PTL DEF Spec, SafeSpec, OffRemembersTarget

\* A fade that nothing disturbs moves towards its target in every channel with
\* every tick: rounding never makes the light turn back.
THEOREM FadesApproach == Spec => FadeApproaches
<1>1. IInv /\ [Next]_led =>
          [ TimerTick /\ led.timer = "fade" /\ led.real = FadeFrame(led, led.step)
            => led'.real \in Box(led.real, led.now) ]_led
  <2> SUFFICES ASSUME IInv, TimerTick, led.timer = "fade",
                      led.real = FadeFrame(led, led.step)
               PROVE  led'.real \in Box(led.real, led.now)
    OBVIOUS
  <2>1. /\ led.old \in Colour /\ led.now \in Colour /\ led.real \in Colour
        /\ led.step \in 0 .. (LED_GRADIENT_STEP - 1) /\ led \in LedState
    BY DEF IInv, Good, Core, LedState
  <2>2. /\ led'.now = led.now
        /\ led'.real \in {FadeFrame(led, led.step + 1), led.now}
    BY FadeTickFrames DEF IInv, Good, TimerTick, user_led_timer_func
  <2>3. CASE led'.real = led.now
    BY <2>1, <2>3, TargetInBox
  <2>4. CASE led'.real = FadeFrame(led, led.step + 1)
    <3>1. led.step + 1 \in 0 .. LED_GRADIENT_STEP
      BY <2>1, EngineAssumption, ColoursAssumption
    <3>2. led'.real \in Colour
      BY <2>1, <2>4, <3>1, FadeFrameBetween DEF Box
    <3>3. \A ch \in Channels :
              Within(led.real[ch], FadeFrame(led, led.step + 1)[ch], led.now[ch])
      <4> SUFFICES ASSUME NEW ch \in Channels
                   PROVE  Within(led.real[ch], FadeFrame(led, led.step + 1)[ch], led.now[ch])
        OBVIOUS
      <4>1. led.old[ch] \in Level /\ led.now[ch] \in Level
        BY <2>1 DEF Colour
      <4>2. /\ led.real[ch] = FadeLevel(led.old[ch], led.now[ch], led.step)
            /\ FadeFrame(led, led.step + 1)[ch]
                   = FadeLevel(led.old[ch], led.now[ch], led.step + 1)
        BY DEF FadeFrame
      <4> QED
        BY <2>1, <4>1, <4>2, FadeLevelApproaches
    <3> QED
      BY <2>4, <3>2, <3>3 DEF Box
  <2> QED
    BY <2>2, <2>3, <2>4
<1> QED
  BY <1>1, IInvAlways, PTL DEF Spec, SafeSpec, FadeApproaches

\* Every behaviour of the engine is one of the abstract lamp, which has no
\* timer, no step counter and no r_now; that the light arrives is left to TLC.
THEOREM EngineRefinesLamp == Spec => Lamp!SafeSpec
<1> USE DEF Lamp!Black, Lamp!Colour, Lamp!Level, Lamp!Box, Lamp!Within, Lamp!Lit,
            Black, Colour, Level, Box, Within
<1>1. Init => Lamp!Init
  <2> SUFFICES ASSUME Init PROVE Lamp!Init
    OBVIOUS
  <2>1. Good(led) /\ Fresh(led)
    BY InitGood DEF IInv
  <2> QED
    BY <2>1 DEF Lamp!Init, Lamp!Target, Fresh, Good, Core, LedState
<1>2. IInv /\ IInv' /\ [Next]_led => [Lamp!Next]_(Lamp!vars)
  <2> SUFFICES ASSUME IInv, IInv', [Next]_led PROVE [Lamp!Next]_(Lamp!vars)
    OBVIOUS
  <2>1. Lamp!Target = led.now /\ Lamp!Target' = led'.now
    BY DEF IInv, Good, Core, Lamp!Target
  <2>2. led'.real \in Colour /\ led'.saved \in Lamp!Lit /\ led'.on \in {0, 1}
    BY DEF IInv, Good, Core, LedState
  <2>3. CASE Followed(led, led')
    <3>1. Lamp!Order
      BY <2>2, <2>3 DEF Lamp!Order, Followed, Ordered
    <3>2. Lamp!Jump \/ Lamp!Glide
      BY <2>1, <2>3, <3>1 DEF Lamp!Jump, Lamp!Glide, Followed
    <3> QED
      BY <3>2 DEF Lamp!Next
  <2>4. CASE /\ led'.on = led.on /\ led'.saved = led.saved /\ led'.old = led.old
             /\ led'.real \in Box(led.old, led.now)
    <3>1. Lamp!Frame
      BY <2>1, <2>4 DEF Lamp!Frame
    <3> QED
      BY <3>1 DEF Lamp!Next
  <2>5. CASE Fresh(led')
    <3>1. Lamp!Restart
      BY <2>1, <2>2, <2>5 DEF Lamp!Restart, Fresh
    <3> QED
      BY <3>1 DEF Lamp!Next
  <2>6. CASE led' = led
    BY <2>6 DEF Lamp!vars
  <2> QED
    BY <2>3, <2>4, <2>5, <2>6, NextGood DEF Stepped
<1> QED
  BY <1>1, <1>2, IInvAlways, PTL DEF Spec, SafeSpec, Lamp!SafeSpec

=============================================================================
