------------------------------ MODULE HslProofs ------------------------------
(***************************************************************************)
(* Both conversions stay within their types for every colour.  On its way    *)
(* through hsl and back no colour that is bright enough becomes black, no    *)
(* two primaries are swapped, and none moves by more than seven levels.      *)
(***************************************************************************)
EXTENDS Hsl, TLAPS

-----------------------------------------------------------------------------
(***************************************************************************)
(* Levels, hues and truncation.                                             *)
(***************************************************************************)

\* A level is an integer from 0 to 255.
LEMMA LevelIs == \A x : x \in Level <=> x \in Int /\ 0 <= x /\ x <= 255
BY DEF Level

\* A degree of the circle is an integer from 0 to 360.
LEMMA DegreeIs == \A x : x \in 0 .. 360 <=> x \in Int /\ 0 <= x /\ x <= 360
OBVIOUS

\* The channels of a colour as numbers.
LEMMA RgbIs ==
    ASSUME NEW c \in Rgb
    PROVE  /\ c.r \in Int /\ 0 <= c.r /\ c.r <= 255
           /\ c.g \in Int /\ 0 <= c.g /\ c.g <= 255
           /\ c.b \in Int /\ 0 <= c.b /\ c.b <= 255
BY LevelIs DEF Rgb

\* The hue of a report as a number.
LEMMA HslIs ==
    ASSUME NEW x \in Hsl
    PROVE  x.h \in Nat /\ x.h <= 360 /\ x.s \in Level /\ x.l \in Level
<1>1. x.h \in 0 .. 360 /\ x.s \in Level /\ x.l \in Level
  BY DEF Hsl
<1> QED
  BY <1>1, DegreeIs

\* A fraction truncates to a natural number that does not exceed it.
LEMMA TruncatedBelow ==
    ASSUME NEW n \in Nat, NEW d \in Nat \ {0}, NEW x \in Truncated(n, d)
    PROVE  x \in Nat /\ d * x <= n
<1> DEFINE q == n \div d
<1>1. q \in Nat /\ n % d \in Nat /\ n = d * q + (n % d)
  OBVIOUS
<1>2. x = q \/ (x = q - 1 /\ n > 0 /\ n % d = 0)
  BY DEF Truncated
<1> HIDE DEF q
<1>3. CASE x = q
  BY <1>1, <1>3
<1>4. CASE x = q - 1 /\ n > 0 /\ n % d = 0
  <2>1. q # 0
    BY <1>1, <1>4
  <2>2. d * x = d * q - d
    BY <1>1, <1>4
  <2> QED
    BY <1>1, <1>4, <2>1, <2>2
<1> QED
  BY <1>2, <1>3, <1>4

\* A common positive factor may be dropped from an inequality.
LEMMA Cancel ==
    ASSUME NEW d \in Nat \ {0}, NEW x \in Int, NEW m \in Int, d * x <= d * m
    PROVE  x <= m
<1>1. ASSUME x - m >= 1
      PROVE  d * (x - m) >= d
  BY <1>1
<1>2. d * (x - m) = d * x - d * m
  OBVIOUS
<1> QED
  BY <1>1, <1>2

\* A channel in units of 1 / (60 * 255^2) rounds to a level that is no smaller
\* than the whole levels it has.
LEMMA RoundedRange ==
    ASSUME NEW n \in Nat, n <= 3901500, NEW k \in Nat, 15300 * k <= n,
           NEW x \in Rounded(n)
    PROVE  x \in Level /\ x >= k
<1> DEFINE N == 2 * n + 15300
           q == N \div 30600
           m == N % 30600
<1>1. q \in Nat /\ m \in Nat /\ m < 30600 /\ N = 30600 * q + m
  OBVIOUS
<1>2. N \in Nat /\ N <= 7818300 /\ N >= 30600 * k + 15300
  OBVIOUS
<1>3. x = q \/ (x = q - 1 /\ m = 0)
  BY DEF Rounded, Truncated
<1> HIDE DEF N, q, m
<1>4. q <= 255 /\ q >= k
  BY <1>1, <1>2
<1>5. m = 0 => q - 1 >= k
  BY <1>1, <1>2
<1>6. x \in Int /\ 0 <= x /\ x <= 255 /\ x >= k
  BY <1>1, <1>3, <1>4, <1>5
<1> QED
  BY <1>6, LevelIs

-----------------------------------------------------------------------------
(***************************************************************************)
(* RGB2HSL.                                                                *)
(***************************************************************************)

\* The brightest and the darkest channel bound all three.
LEMMA Ends ==
    ASSUME NEW c \in Rgb
    PROVE  /\ Brightest(c) \in Nat /\ Brightest(c) <= 255
           /\ Darkest(c) \in Nat /\ Darkest(c) <= Brightest(c)
           /\ Spread(c) \in Nat
           /\ Darkest(c) <= c.r /\ c.r <= Brightest(c)
           /\ Darkest(c) <= c.g /\ c.g <= Brightest(c)
           /\ Darkest(c) <= c.b /\ c.b <= Brightest(c)
BY RgbIs DEF Brightest, Darkest, Spread, Larger, Smaller

\* H is an angle of the circle.
LEMMA HueRange ==
    ASSUME NEW c \in Rgb
    PROVE  HueTimesSpread(c) \in Nat /\ HueTimesSpread(c) <= 360 * Spread(c)
<1> DEFINE d == Spread(c)
           H == IF c.r = Brightest(c) THEN 60 * (c.g - c.b)
                ELSE IF c.g = Brightest(c) THEN 120 * d + 60 * (c.b - c.r)
                ELSE 240 * d + 60 * (c.r - c.g)
<1>1. /\ d \in Nat
      /\ c.g - c.b \in -d .. d /\ c.b - c.r \in -d .. d /\ c.r - c.g \in -d .. d
  BY Ends, RgbIs DEF Spread
<1>2. HueTimesSpread(c) = IF H < 0 THEN H + 360 * d ELSE H
  BY DEF HueTimesSpread
<1>3. H \in -60 * d .. 300 * d
  <2> HIDE DEF d
  <2> QED
    BY <1>1, RgbIs
<1> HIDE DEF d, H
<1>4. HueTimesSpread(c) \in Nat /\ HueTimesSpread(c) <= 360 * d
  BY <1>1, <1>2, <1>3
<1> QED
  BY <1>4 DEF d

\* Every report is a hue of the circle and two levels.
LEMMA ReportTyped ==
    ASSUME NEW c \in Rgb, NEW x \in RGB2HSL(c)
    PROVE  x \in Hsl
<1> DEFINE d == Spread(c)
           e == SaturationDivisor(c)
           n == HueTimesSpread(c)
           sum == Brightest(c) + Darkest(c)
<1>1. /\ x = [h |-> x.h, s |-> x.s, l |-> x.l]
      /\ x.h \in IF d = 0 THEN {0} ELSE Truncated(n, d)
      /\ x.s \in IF d = 0 THEN {0} ELSE Truncated(255 * d, e)
      /\ x.l \in Truncated(sum, 2)
  BY DEF RGB2HSL
<1>2. /\ d \in Nat /\ n \in Nat /\ n <= 360 * d
      /\ sum \in Nat /\ sum <= 510
  BY Ends, HueRange
<1>3. d # 0 => e \in Nat \ {0} /\ d <= e
  BY Ends DEF SaturationDivisor, Spread
<1> HIDE DEF d, e, n, sum
<1>4. x.h \in 0 .. 360
  <2>1. CASE d = 0
    BY <1>1, <2>1
  <2>2. CASE d # 0
    <3>1. d \in Nat \ {0} /\ x.h \in Truncated(n, d)
      BY <1>1, <1>2, <2>2
    <3>2. x.h \in Nat /\ d * x.h <= n
      BY <1>2, <3>1, TruncatedBelow
    <3>3. d * x.h <= d * 360
      BY <1>2, <3>1, <3>2
    <3>4. x.h <= 360
      BY <3>1, <3>2, <3>3, Cancel
    <3> QED
      BY <3>2, <3>4, DegreeIs
  <2> QED
    BY <2>1, <2>2
<1>5. x.s \in Level
  <2>1. CASE d = 0
    BY <1>1, <2>1, LevelIs
  <2>2. CASE d # 0
    <3>1. e \in Nat \ {0} /\ d <= e /\ x.s \in Truncated(255 * d, e)
      BY <1>1, <1>3, <2>2
    <3>2. 255 * d \in Nat
      BY <1>2
    <3>3. x.s \in Nat /\ e * x.s <= 255 * d
      BY <3>1, <3>2, TruncatedBelow
    <3>4. e * x.s <= e * 255
      BY <1>2, <3>1, <3>3
    <3>5. x.s <= 255
      BY <3>1, <3>3, <3>4, Cancel
    <3> QED
      BY <3>3, <3>5, LevelIs
  <2> QED
    BY <2>1, <2>2
<1>6. x.l \in Level
  <2>1. x.l \in Nat /\ 2 * x.l <= sum
    BY <1>1, <1>2, TruncatedBelow
  <2> QED
    BY <1>2, <2>1, LevelIs
<1> QED
  BY <1>1, <1>4, <1>5, <1>6 DEF Hsl

\* A colour with a channel of 3 or more has a lightness of at least 1.
LEMMA ReportLit ==
    ASSUME NEW c \in Rgb, Brightest(c) >= 3, NEW x \in RGB2HSL(c)
    PROVE  x.l >= 1
<1> DEFINE n == Brightest(c) + Darkest(c)
<1>1. n \in Nat /\ n >= 3
  BY Ends
<1>2. x.l \in Truncated(n, 2)
  BY DEF RGB2HSL
<1> HIDE DEF n
<1> QED
  BY <1>1, <1>2 DEF Truncated

-----------------------------------------------------------------------------
(***************************************************************************)
(* HSL2RGB.                                                                *)
(***************************************************************************)

\* The two ends between which a channel lies: the upper one is at least the
\* lightness.
LEMMA VarRange ==
    ASSUME NEW s \in Level, NEW l \in Level
    PROVE  /\ Var1(s, l) \in Nat /\ Var1(s, l) <= Var2(s, l)
           /\ Var2(s, l) \in Nat /\ Var2(s, l) <= 65025 /\ Var2(s, l) >= 255 * l
<1> DEFINE z == l * s
<1>1. s \in Int /\ 0 <= s /\ s <= 255 /\ l \in Int /\ 0 <= l /\ l <= 255
  BY LevelIs
<1>2. z \in Int /\ z >= 0 /\ s * l = z
  BY <1>1
<1>3. z <= 255 * s
  <2>1. (255 - l) * s >= 0
    BY <1>1
  <2> QED
    BY <1>1, <2>1
<1>4. z <= 255 * l
  <2>1. (255 - s) * l >= 0
    BY <1>1
  <2> QED
    BY <1>1, <2>1
<1>5. 65025 - 255 * s - 255 * l + z >= 0
  <2>1. (255 - l) * (255 - s) >= 0
    BY <1>1
  <2> QED
    BY <1>1, <2>1
<1>6. l * (255 + s) = 255 * l + z
  BY <1>1
<1>7. Var2(s, l) = IF 2 * l < 255 THEN 255 * l + z ELSE 255 * (l + s) - z
  BY <1>2, <1>6 DEF Var2
<1> HIDE DEF z
<1>8. /\ Var2(s, l) \in Nat /\ Var2(s, l) <= 65025
      /\ Var2(s, l) >= 255 * l /\ 510 * l - Var2(s, l) >= 0
  BY <1>1, <1>2, <1>3, <1>4, <1>5, <1>7
<1> QED
  BY <1>1, <1>8 DEF Var1

\* A position on the circle gives a value between the two ends, and the upper
\* end in the third of the circle around the channel's own hue.
LEMMA Hue2RGBRange ==
    ASSUME NEW v1 \in Nat, NEW v2 \in Nat, v1 <= v2, v2 <= 65025,
           NEW vH \in Int, -120 <= vH, vH <= 480
    PROVE  /\ Hue2RGB(v1, v2, vH) \in Nat /\ Hue2RGB(v1, v2, vH) <= 3901500
           /\ 60 <= OneTurn(vH) /\ OneTurn(vH) < 180 => Hue2RGB(v1, v2, vH) = 60 * v2
<1> DEFINE deg == OneTurn(vH)
           w == v2 - v1
<1>1. deg \in Int /\ 0 <= deg /\ deg <= 360
  BY DEF OneTurn
<1>2. w \in Nat /\ 60 * w = 60 * v2 - 60 * v1
  OBVIOUS
<1>3. Hue2RGB(v1, v2, vH) =
        IF deg < 60 THEN 60 * v1 + w * deg
        ELSE IF deg < 180 THEN 60 * v2
        ELSE IF deg < 240 THEN 60 * v1 + w * (240 - deg)
        ELSE 60 * v1
  BY DEF Hue2RGB
<1> HIDE DEF deg, w
<1>4. ASSUME NEW k \in Int, 0 <= k, k <= 60
      PROVE  /\ 60 * v1 + w * k \in Nat
             /\ 60 * v1 + w * k <= 3901500
  <2>1. w * k \in Nat
    BY <1>2, <1>4
  <2>2. w * (60 - k) >= 0 /\ w * (60 - k) = 60 * w - w * k
    BY <1>2, <1>4
  <2> QED
    BY <1>2, <2>1, <2>2
<1>5. CASE deg < 60
  BY <1>1, <1>3, <1>4, <1>5 DEF deg
<1>6. CASE deg >= 60 /\ deg < 180
  BY <1>1, <1>3, <1>6 DEF deg
<1>7. CASE deg >= 180 /\ deg < 240
  <2>1. 240 - deg \in Int /\ 0 <= 240 - deg /\ 240 - deg <= 60
    BY <1>1, <1>7
  <2>2. Hue2RGB(v1, v2, vH) = 60 * v1 + w * (240 - deg)
    BY <1>1, <1>3, <1>7
  <2> QED
    BY <1>1, <1>4, <1>7, <2>1, <2>2 DEF deg
<1>8. CASE deg >= 240
  BY <1>1, <1>3, <1>8 DEF deg
<1> QED
  BY <1>1, <1>5, <1>6, <1>7, <1>8

\* The hue is in the third of the circle of the channel with this shift.
InThird(h, shift) == 60 <= OneTurn(h + shift) /\ OneTurn(h + shift) < 180

\* Each channel is a level.  It is no smaller than the lightness when the hue
\* is in the channel's own third of the circle.
LEMMA PrimaryRange ==
    ASSUME NEW h \in Nat, h <= 360, NEW s \in Level, NEW l \in Level,
           NEW shift \in {-120, 0, 120}, NEW x \in Primary(h, s, l, shift)
    PROVE  /\ x \in Level
           /\ InThird(h, shift) => x >= l
<1>1. l \in Nat
  BY LevelIs
<1>2. CASE s = 0
  <2>1. x = l
    BY <1>2 DEF Primary
  <2> QED
    BY <1>1, <2>1
<1>3. CASE s # 0
  <2> DEFINE v1 == Var1(s, l)
             v2 == Var2(s, l)
             n == Hue2RGB(v1, v2, h + shift)
  <2>1. v1 \in Nat /\ v2 \in Nat /\ v1 <= v2 /\ v2 <= 65025 /\ v2 >= 255 * l
    BY VarRange
  <2>2. h + shift \in Int /\ -120 <= h + shift /\ h + shift <= 480
    OBVIOUS
  <2>3. x \in Rounded(n)
    BY <1>3 DEF Primary
  <2> HIDE DEF v1, v2
  <2>4. /\ n \in Nat /\ n <= 3901500
        /\ InThird(h, shift) => n = 60 * v2
    BY <2>1, <2>2, Hue2RGBRange DEF InThird
  <2> HIDE DEF n
  <2>5. x \in Level
    <3>1. 15300 * 0 <= n
      BY <2>4
    <3> QED
      BY <2>3, <2>4, <3>1, RoundedRange
  <2>6. ASSUME InThird(h, shift)
        PROVE  x >= l
    <3>1. 15300 * l <= n
      BY <1>1, <2>1, <2>4, <2>6
    <3> QED
      BY <1>1, <2>3, <2>4, <3>1, RoundedRange
  <2> QED
    BY <2>5, <2>6
<1> QED
  BY <1>2, <1>3

\* Some channel has every hue in its own third.
LEMMA OwnThird ==
    ASSUME NEW h \in Nat, h <= 360
    PROVE  \E shift \in {-120, 0, 120} : InThird(h, shift)
<1>1. CASE h < 60 \/ h >= 300
  <2>1. InThird(h, 120)
    BY <1>1 DEF OneTurn, InThird
  <2> QED
    BY <2>1
<1>2. CASE 60 <= h /\ h < 180
  <2>1. InThird(h, 0)
    BY <1>2 DEF OneTurn, InThird
  <2> QED
    BY <2>1
<1>3. CASE 180 <= h /\ h < 300
  <2>1. InThird(h, -120)
    BY <1>3 DEF OneTurn, InThird
  <2> QED
    BY <2>1
<1> QED
  BY <1>1, <1>2, <1>3

\* HSL2RGB gives three levels for every hue, of 16 bits or more, and the
\* brightest of them is no smaller than the lightness.
LEMMA ColourOfHsl ==
    ASSUME NEW h \in Nat, NEW s \in Level, NEW l \in Level,
           NEW c \in HSL2RGB(h, s, l)
    PROVE  c \in Rgb /\ Brightest(c) >= l
<1> DEFINE t == InCircle(h)
<1>1. t \in Nat /\ t <= 360
  BY DEF InCircle
<1>2. /\ c = [r |-> c.r, g |-> c.g, b |-> c.b]
      /\ c.r \in Primary(t, s, l, 120)
      /\ c.g \in Primary(t, s, l, 0)
      /\ c.b \in Primary(t, s, l, -120)
  BY DEF HSL2RGB
<1> HIDE DEF t
<1>3. c \in Rgb
  <2>1. c.r \in Level /\ c.g \in Level /\ c.b \in Level
    BY <1>1, <1>2, PrimaryRange
  <2> QED
    BY <1>2, <2>1 DEF Rgb
<1>4. c.r >= l \/ c.g >= l \/ c.b >= l
  <2>1. PICK shift \in {-120, 0, 120} : InThird(t, shift)
    BY <1>1, OwnThird
  <2> QED
    BY <1>1, <1>2, <2>1, PrimaryRange
<1>5. l \in Int
  BY LevelIs
<1> QED
  BY <1>3, <1>4, <1>5, Ends, RgbIs

\* The hue wheel of configuration mode, HSL2RGB(h, 255, 10), is never black
\* (user_led.c:58), which is what the engine assumes of HueColour.
THEOREM WheelIsLit ==
    ASSUME NEW h \in Nat, NEW c \in HSL2RGB(h, 255, 10)
    PROVE  c \in Rgb /\ Brightest(c) >= 10
<1>1. 255 \in Level /\ 10 \in Level
  BY LevelIs
<1> QED
  BY <1>1, ColourOfHsl

-----------------------------------------------------------------------------
(***************************************************************************)
(* The circle in sextants.  In each, one channel is the upper end, one the   *)
(* lower end, and the third lies in between, `away' degrees from where it is *)
(* the lower end.  A hue on a border belongs to both sextants.               *)
(***************************************************************************)
Sextant(h, high, mid, low, away) ==
    /\ 0 <= away /\ away <= 60
    /\ \/ high = "r" /\ mid = "g" /\ low = "b" /\ away = h
       \/ high = "g" /\ mid = "r" /\ low = "b" /\ away = 120 - h
       \/ high = "g" /\ mid = "b" /\ low = "r" /\ away = h - 120
       \/ high = "b" /\ mid = "g" /\ low = "r" /\ away = 240 - h
       \/ high = "b" /\ mid = "r" /\ low = "g" /\ away = h - 240
       \/ high = "r" /\ mid = "b" /\ low = "g" /\ away = 360 - h

\* Truncation takes away no more than one.
LEMMA TruncatedNear ==
    ASSUME NEW n \in Nat, NEW d \in Nat \ {0}, NEW x \in Truncated(n, d)
    PROVE  x \in Nat /\ n - d <= d * x /\ d * x <= n
<1> DEFINE q == n \div d
<1>1. q \in Nat /\ n % d \in Nat /\ n % d < d /\ n = d * q + (n % d)
  OBVIOUS
<1>2. x = q \/ (x = q - 1 /\ n > 0 /\ n % d = 0)
  BY DEF Truncated
<1> HIDE DEF q
<1>3. x = q - 1 => d * x = d * q - d
  BY <1>1
<1> QED
  BY <1>1, <1>2, <1>3, TruncatedBelow

\* A sextant in numbers: the hue h is in its sixty degrees, the ends are M and
\* m, and the middle channel is within one of its place, off / 60 above m.
Arc(high, mid, low, M, m, d, h, first, off) ==
    /\ high = M /\ low = m
    /\ first <= h /\ h <= first + 60
    /\ off - 60 * (mid - m) <= d /\ 60 * (mid - m) - off <= d

\* P is d times the truncated hue.
InOneSextant(r, g, b, M, m, d, h, P) ==
    \/ Arc(r, g, b, M, m, d, h, 0, P)
    \/ Arc(g, r, b, M, m, d, h, 60, 120 * d - P)
    \/ Arc(g, b, r, M, m, d, h, 120, P - 120 * d)
    \/ Arc(b, g, r, M, m, d, h, 180, 240 * d - P)
    \/ Arc(b, r, g, M, m, d, h, 240, P - 240 * d)
    \/ Arc(r, b, g, M, m, d, h, 300, 360 * d - P)

\* n is d times the exact hue.
LEMMA HueNumbers ==
    ASSUME NEW r \in Int, NEW g \in Int, NEW b \in Int, NEW M \in Int, NEW m \in Int,
           NEW d \in Nat \ {0}, NEW n \in Int, NEW h \in Nat, NEW P \in Int,
           d = M - m, M \in {r, g, b}, m \in {r, g, b},
           m <= r, r <= M, m <= g, g <= M, m <= b, b <= M,
           n = (IF r = M THEN (IF g < b THEN 360 * d - 60 * (b - g) ELSE 60 * (g - b))
                ELSE IF g = M THEN 120 * d + 60 * (b - r)
                ELSE 240 * d + 60 * (r - g)),
           P = d * h, n - d <= P, P <= n
    PROVE  InOneSextant(r, g, b, M, m, d, h, P)
<1>1. ASSUME NEW k \in Int
      PROVE  (d * k <= P => k <= h) /\ (P <= d * k => h <= k)
  BY <1>1, Cancel
<1>2. /\ d * 60 = 60 * d /\ d * 120 = 120 * d /\ d * 180 = 180 * d
      /\ d * 240 = 240 * d /\ d * 300 = 300 * d /\ d * 360 = 360 * d
  OBVIOUS
<1>3. /\ 60 * d <= P => 60 <= h
      /\ P <= 60 * d => h <= 60
  BY <1>1, <1>2
<1>4. /\ 120 * d <= P => 120 <= h
      /\ P <= 120 * d => h <= 120
  BY <1>1, <1>2
<1>5. /\ 180 * d <= P => 180 <= h
      /\ P <= 180 * d => h <= 180
  BY <1>1, <1>2
<1>6. /\ 240 * d <= P => 240 <= h
      /\ P <= 240 * d => h <= 240
  BY <1>1, <1>2
<1>7. /\ 300 * d <= P => 300 <= h
      /\ P <= 300 * d => h <= 300
  BY <1>1, <1>2
<1>8. P <= 360 * d => h <= 360
  BY <1>1, <1>2
<1>9. CASE r = M /\ g >= b
  BY <1>3, <1>9 DEF InOneSextant, Arc
<1>10. CASE r = M /\ g < b
  BY <1>7, <1>8, <1>10 DEF InOneSextant, Arc
<1>11. CASE r # M /\ g = M
  BY <1>3, <1>4, <1>5, <1>11 DEF InOneSextant, Arc
<1>12. CASE r # M /\ g # M
  BY <1>5, <1>6, <1>7, <1>12 DEF InOneSextant, Arc
<1> QED
  BY <1>9, <1>10, <1>11, <1>12

\* The hue of a colour falls, also when it is truncated too far, into a sextant
\* in which its channels have that order, and at about the middle one's place.
Placed(c, h, high, mid, low, away) ==
    /\ Sextant(h, high, mid, low, away)
    /\ c[high] = Brightest(c) /\ c[low] = Darkest(c)
    /\ Spread(c) * away - 60 * (c[mid] - c[low]) <= Spread(c)
    /\ 60 * (c[mid] - c[low]) - Spread(c) * away <= Spread(c)

LEMMA HueInSextant ==
    ASSUME NEW c \in Rgb, Spread(c) # 0,
           NEW h \in Truncated(HueTimesSpread(c), Spread(c))
    PROVE  \E high, mid, low \in Primaries, away \in Int :
              Placed(c, h, high, mid, low, away)
<1> DEFINE d == Spread(c)
           n == HueTimesSpread(c)
           M == Brightest(c)
           m == Darkest(c)
           P == d * h
           Goal == \E high, mid, low \in Primaries, away \in Int :
                      Placed(c, h, high, mid, low, away)
<1>1. /\ c.r \in Int /\ c.g \in Int /\ c.b \in Int
      /\ d \in Nat \ {0} /\ d = M - m /\ M \in Int /\ m \in Int
      /\ m <= c.r /\ c.r <= M /\ m <= c.g /\ c.g <= M /\ m <= c.b /\ c.b <= M
  BY Ends, RgbIs DEF Spread
<1>2. M \in {c.r, c.g, c.b} /\ m \in {c.r, c.g, c.b}
  BY DEF Brightest, Darkest, Larger, Smaller
<1>3. n \in Nat /\ n <= 360 * d
  BY HueRange
<1>4. h \in Nat /\ P \in Int /\ n - d <= P /\ P <= n
  BY <1>1, <1>3, TruncatedNear
<1>5. n = (IF c.r = M THEN (IF c.g < c.b THEN 360 * d - 60 * (c.b - c.g) ELSE 60 * (c.g - c.b))
           ELSE IF c.g = M THEN 120 * d + 60 * (c.b - c.r)
           ELSE 240 * d + 60 * (c.r - c.g))
  <2> DEFINE H == IF c.r = M THEN 60 * (c.g - c.b)
                  ELSE IF c.g = M THEN 120 * d + 60 * (c.b - c.r)
                  ELSE 240 * d + 60 * (c.r - c.g)
  <2>1. n = IF H < 0 THEN H + 360 * d ELSE H
    BY DEF HueTimesSpread
  <2> HIDE DEF n, d, M, m
  <2> QED
    BY <1>1, <2>1
<1>6. \A k \in Int : d * (h - k) = P - k * d /\ d * (k - h) = k * d - P
  BY <1>1, <1>4
<1> HIDE DEF d, n, M, m, P
<1>7. ASSUME NEW high \in Primaries, NEW mid \in Primaries, NEW low \in Primaries,
             NEW away \in Int, Placed(c, h, high, mid, low, away)
      PROVE  Goal
  BY <1>7
<1> HIDE DEF Goal
<1>8. P = d * h
  BY DEF P
<1>9. CASE Arc(c.r, c.g, c.b, M, m, d, h, 0, P)
  <2>1. Sextant(h, "r", "g", "b", h)
    BY <1>9 DEF Sextant, Arc
  <2>2. d * h - 60 * (c.g - c.b) <= d /\ 60 * (c.g - c.b) - d * h <= d
    BY <1>1, <1>4, <1>8, <1>9 DEF Arc
  <2>3. c["r"] = M /\ c["b"] = m
    BY <1>9 DEF Arc
  <2>4. Placed(c, h, "r", "g", "b", h)
    BY <1>1, <1>4, <1>9, <2>1, <2>2, <2>3 DEF Placed, Arc, d, M, m
  <2> QED
    BY <1>4, <1>7, <2>1, <2>4 DEF Primaries
<1>10. CASE Arc(c.g, c.r, c.b, M, m, d, h, 60, 120 * d - P)
  <2>1. Sextant(h, "g", "r", "b", 120 - h) /\ 120 - h \in Int
    BY <1>4, <1>10 DEF Sextant, Arc
  <2>2. d * (120 - h) = 120 * d - P
    BY <1>6
  <2>3. c["g"] = M /\ c["b"] = m
    BY <1>10 DEF Arc
  <2>4. Placed(c, h, "g", "r", "b", 120 - h)
    BY <1>1, <1>4, <1>10, <2>1, <2>2, <2>3 DEF Placed, Arc, d, M, m
  <2> QED
    BY <1>4, <1>7, <2>1, <2>4 DEF Primaries
<1>11. CASE Arc(c.g, c.b, c.r, M, m, d, h, 120, P - 120 * d)
  <2>1. Sextant(h, "g", "b", "r", h - 120) /\ h - 120 \in Int
    BY <1>4, <1>11 DEF Sextant, Arc
  <2>2. d * (h - 120) = P - 120 * d
    BY <1>6
  <2>3. c["g"] = M /\ c["r"] = m
    BY <1>11 DEF Arc
  <2>4. Placed(c, h, "g", "b", "r", h - 120)
    BY <1>1, <1>4, <1>11, <2>1, <2>2, <2>3 DEF Placed, Arc, d, M, m
  <2> QED
    BY <1>4, <1>7, <2>1, <2>4 DEF Primaries
<1>12. CASE Arc(c.b, c.g, c.r, M, m, d, h, 180, 240 * d - P)
  <2>1. Sextant(h, "b", "g", "r", 240 - h) /\ 240 - h \in Int
    BY <1>4, <1>12 DEF Sextant, Arc
  <2>2. d * (240 - h) = 240 * d - P
    BY <1>6
  <2>3. c["b"] = M /\ c["r"] = m
    BY <1>12 DEF Arc
  <2>4. Placed(c, h, "b", "g", "r", 240 - h)
    BY <1>1, <1>4, <1>12, <2>1, <2>2, <2>3 DEF Placed, Arc, d, M, m
  <2> QED
    BY <1>4, <1>7, <2>1, <2>4 DEF Primaries
<1>13. CASE Arc(c.b, c.r, c.g, M, m, d, h, 240, P - 240 * d)
  <2>1. Sextant(h, "b", "r", "g", h - 240) /\ h - 240 \in Int
    BY <1>4, <1>13 DEF Sextant, Arc
  <2>2. d * (h - 240) = P - 240 * d
    BY <1>6
  <2>3. c["b"] = M /\ c["g"] = m
    BY <1>13 DEF Arc
  <2>4. Placed(c, h, "b", "r", "g", h - 240)
    BY <1>1, <1>4, <1>13, <2>1, <2>2, <2>3 DEF Placed, Arc, d, M, m
  <2> QED
    BY <1>4, <1>7, <2>1, <2>4 DEF Primaries
<1>14. CASE Arc(c.r, c.b, c.g, M, m, d, h, 300, 360 * d - P)
  <2>1. Sextant(h, "r", "b", "g", 360 - h) /\ 360 - h \in Int
    BY <1>4, <1>14 DEF Sextant, Arc
  <2>2. d * (360 - h) = 360 * d - P
    BY <1>6
  <2>3. c["r"] = M /\ c["g"] = m
    BY <1>14 DEF Arc
  <2>4. Placed(c, h, "r", "b", "g", 360 - h)
    BY <1>1, <1>4, <1>14, <2>1, <2>2, <2>3 DEF Placed, Arc, d, M, m
  <2> QED
    BY <1>4, <1>7, <2>1, <2>4 DEF Primaries
<1>15. InOneSextant(c.r, c.g, c.b, M, m, d, h, P)
  <2> DEFINE r == c.r
             g == c.g
             b == c.b
  <2> HIDE DEF r, g, b
  <2>1. /\ r \in Int /\ g \in Int /\ b \in Int /\ n \in Int
        /\ m <= r /\ r <= M /\ m <= g /\ g <= M /\ m <= b /\ b <= M
        /\ M \in {r, g, b} /\ m \in {r, g, b}
    BY <1>1, <1>2, <1>3 DEF r, g, b
  <2>2. n = (IF r = M THEN (IF g < b THEN 360 * d - 60 * (b - g) ELSE 60 * (g - b))
             ELSE IF g = M THEN 120 * d + 60 * (b - r)
             ELSE 240 * d + 60 * (r - g))
    BY <1>5 DEF r, g, b
  <2>3. InOneSextant(r, g, b, M, m, d, h, P)
    BY <1>1, <1>4, <1>8, <2>1, <2>2, HueNumbers, ZenonT(60)
  <2> QED
    BY <2>3 DEF r, g, b
<1>16. \/ Arc(c.r, c.g, c.b, M, m, d, h, 0, P)
       \/ Arc(c.g, c.r, c.b, M, m, d, h, 60, 120 * d - P)
       \/ Arc(c.g, c.b, c.r, M, m, d, h, 120, P - 120 * d)
       \/ Arc(c.b, c.g, c.r, M, m, d, h, 180, 240 * d - P)
       \/ Arc(c.b, c.r, c.g, M, m, d, h, 240, P - 240 * d)
       \/ Arc(c.r, c.b, c.g, M, m, d, h, 300, 360 * d - P)
  BY <1>15 DEF InOneSextant
<1> QED
  BY <1>9, <1>10, <1>11, <1>12, <1>13, <1>14, <1>16

\* Hue2RGB on its four arcs, which agree where they meet.
LEMMA Arcs ==
    ASSUME NEW v1 \in Int, NEW v2 \in Int, NEW vH \in Int,
           NEW deg \in Int, deg = OneTurn(vH), 0 <= deg, deg <= 360
    PROVE  /\ deg <= 60 => Hue2RGB(v1, v2, vH) = 60 * v1 + (v2 - v1) * deg
           /\ 60 <= deg /\ deg <= 180 => Hue2RGB(v1, v2, vH) = 60 * v2
           /\ 180 <= deg /\ deg <= 240 =>
                Hue2RGB(v1, v2, vH) = 60 * v1 + (v2 - v1) * (240 - deg)
           /\ 240 <= deg => Hue2RGB(v1, v2, vH) = 60 * v1
<1> DEFINE N == Hue2RGB(v1, v2, vH)
           w == v2 - v1
<1>1. N = IF deg < 60 THEN 60 * v1 + w * deg
          ELSE IF deg < 180 THEN 60 * v2
          ELSE IF deg < 240 THEN 60 * v1 + w * (240 - deg)
          ELSE 60 * v1
  BY DEF Hue2RGB
<1>2. w \in Int /\ w * 60 = 60 * v2 - 60 * v1 /\ w * 0 = 0
  OBVIOUS
<1> HIDE DEF N, w
<1>3. CASE deg = 60
  <2>1. N = 60 * v2 /\ w * deg = w * 60
    BY <1>1, <1>3
  <2>2. N = 60 * v1 + w * deg
    BY <1>2, <2>1
  <2> QED
    BY <1>3, <2>1, <2>2 DEF N, w
<1>4. CASE deg = 180
  <2>1. 240 - deg = 60
    BY <1>4
  <2>2. N = 60 * v1 + w * 60 /\ w * (240 - deg) = w * 60
    BY <1>1, <1>4, <2>1
  <2>3. N = 60 * v2
    BY <1>2, <2>2
  <2> QED
    BY <1>4, <2>2, <2>3 DEF N, w
<1>5. CASE deg = 240
  <2>1. 240 - deg = 0
    BY <1>5
  <2>2. N = 60 * v1 /\ w * (240 - deg) = 0
    BY <1>1, <1>2, <1>5, <2>1
  <2> QED
    BY <1>5, <2>2 DEF N, w
<1>6. CASE deg \notin {60, 180, 240}
  BY <1>1, <1>6 DEF N, w
<1> QED
  BY <1>3, <1>4, <1>5, <1>6

\* The three channels that a hue of a sextant gives.
LEMMA SextantColour ==
    ASSUME NEW h \in Nat, h <= 360, NEW s \in Level, NEW l \in Level, s # 0,
           NEW x \in HSL2RGB(h, s, l),
           NEW high, NEW mid, NEW low, NEW away \in Int,
           Sextant(h, high, mid, low, away)
    PROVE  /\ x[high] \in Rounded(60 * Var2(s, l))
           /\ x[low] \in Rounded(60 * Var1(s, l))
           /\ x[mid] \in Rounded(60 * Var1(s, l) + (Var2(s, l) - Var1(s, l)) * away)
<1> DEFINE v1 == Var1(s, l)
           v2 == Var2(s, l)
           w == v2 - v1
           R == Hue2RGB(v1, v2, h + 120)
           G == Hue2RGB(v1, v2, h + 0)
           B == Hue2RGB(v1, v2, h + (-120))
<1>1. x.r \in Rounded(R) /\ x.g \in Rounded(G) /\ x.b \in Rounded(B)
  <2>1. InCircle(h) = h
    BY DEF InCircle
  <2> QED
    BY <2>1 DEF HSL2RGB, Primary
<1>2. v1 \in Int /\ v2 \in Int /\ w \in Int /\ w = v2 - v1
  BY VarRange
<1>3. /\ R = Hue2RGB(v1, v2, h + 120) /\ G = Hue2RGB(v1, v2, h)
      /\ B = Hue2RGB(v1, v2, h - 120)
  BY DEF R, G, B
<1> HIDE DEF v1, v2, w, R, G, B
<1>4. /\ h <= 240 => OneTurn(h + 120) = h + 120
      /\ h > 240 => OneTurn(h + 120) = h - 240
      /\ OneTurn(h) = h
      /\ h < 120 => OneTurn(h - 120) = h + 240
      /\ h >= 120 => OneTurn(h - 120) = h - 120
  BY DEF OneTurn
<1>5. ASSUME NEW vH \in Int, NEW deg \in Int, deg = OneTurn(vH), 0 <= deg, deg <= 360
      PROVE  /\ deg <= 60 => Hue2RGB(v1, v2, vH) = 60 * v1 + w * deg
             /\ 60 <= deg /\ deg <= 180 => Hue2RGB(v1, v2, vH) = 60 * v2
             /\ 180 <= deg /\ deg <= 240 => Hue2RGB(v1, v2, vH) = 60 * v1 + w * (240 - deg)
             /\ 240 <= deg => Hue2RGB(v1, v2, vH) = 60 * v1
  BY <1>2, <1>5, Arcs
<1>6. CASE /\ high = "r" /\ mid = "g" /\ low = "b" /\ away = h
            /\ 0 <= away /\ away <= 60
  <2>1. R = 60 * v2
    BY <1>3, <1>4, <1>5, <1>6
  <2>2. B = 60 * v1
    BY <1>3, <1>4, <1>5, <1>6
  <2>3. G = 60 * v1 + w * away
    BY <1>3, <1>4, <1>5, <1>6
  <2> QED
    BY <1>1, <1>6, <2>1, <2>2, <2>3 DEF v1, v2, w
<1>7. CASE /\ high = "g" /\ mid = "r" /\ low = "b" /\ away = 120 - h
            /\ 0 <= away /\ away <= 60
  <2>1. G = 60 * v2
    BY <1>3, <1>4, <1>5, <1>7
  <2>2. B = 60 * v1
    BY <1>3, <1>4, <1>5, <1>7
  <2>3. R = 60 * v1 + w * away
    BY <1>3, <1>4, <1>5, <1>7
  <2> QED
    BY <1>1, <1>7, <2>1, <2>2, <2>3 DEF v1, v2, w
<1>8. CASE /\ high = "g" /\ mid = "b" /\ low = "r" /\ away = h - 120
            /\ 0 <= away /\ away <= 60
  <2>1. G = 60 * v2
    BY <1>3, <1>4, <1>5, <1>8
  <2>2. R = 60 * v1
    BY <1>3, <1>4, <1>5, <1>8
  <2>3. B = 60 * v1 + w * away
    BY <1>3, <1>4, <1>5, <1>8
  <2> QED
    BY <1>1, <1>8, <2>1, <2>2, <2>3 DEF v1, v2, w
<1>9. CASE /\ high = "b" /\ mid = "g" /\ low = "r" /\ away = 240 - h
            /\ 0 <= away /\ away <= 60
  <2>1. B = 60 * v2
    BY <1>3, <1>4, <1>5, <1>9
  <2>2. R = 60 * v1
    BY <1>3, <1>4, <1>5, <1>9
  <2>3. G = 60 * v1 + w * away
    BY <1>3, <1>4, <1>5, <1>9
  <2> QED
    BY <1>1, <1>9, <2>1, <2>2, <2>3 DEF v1, v2, w
<1>10. CASE /\ high = "b" /\ mid = "r" /\ low = "g" /\ away = h - 240
            /\ 0 <= away /\ away <= 60
  <2>1. B = 60 * v2
    BY <1>3, <1>4, <1>5, <1>10
  <2>2. G = 60 * v1
    BY <1>3, <1>4, <1>5, <1>10
  <2>3. R = 60 * v1 + w * away
    BY <1>3, <1>4, <1>5, <1>10
  <2> QED
    BY <1>1, <1>10, <2>1, <2>2, <2>3 DEF v1, v2, w
<1>11. CASE /\ high = "r" /\ mid = "b" /\ low = "g" /\ away = 360 - h
            /\ 0 <= away /\ away <= 60
  <2>1. R = 60 * v2
    BY <1>3, <1>4, <1>5, <1>11
  <2>2. G = 60 * v1
    BY <1>3, <1>4, <1>5, <1>11
  <2>3. B = 60 * v1 + w * away
    BY <1>3, <1>4, <1>5, <1>11
  <2> QED
    BY <1>1, <1>11, <2>1, <2>2, <2>3 DEF v1, v2, w
<1> QED
  BY <1>6, <1>7, <1>8, <1>9, <1>10, <1>11 DEF Sextant

-----------------------------------------------------------------------------
(***************************************************************************)
(* What comes back: the order of the channels, and how far each one moves.   *)
(***************************************************************************)

\* A channel is rounded to the nearest level, or half a level too far down.
LEMMA RoundedNear ==
    ASSUME NEW n \in Nat, NEW x \in Rounded(n)
    PROVE  x \in Nat /\ 2 * n - 15300 <= 30600 * x /\ 30600 * x <= 2 * n + 15300
<1> DEFINE N == 2 * n + 15300
<1>1. N \in Nat /\ 30600 \in Nat \ {0} /\ x \in Truncated(N, 30600)
  BY DEF Rounded
<1>2. x \in Nat /\ N - 30600 <= 30600 * x /\ 30600 * x <= N
  <2> HIDE DEF N
  <2> QED
    BY <1>1, TruncatedNear
<1> QED
  BY <1>2

\* Rounding keeps the order of two channels.  Of two equal channels the one may
\* be truncated too far and the other not, but never at an end: there the sum
\* with the half that is added is an odd number of units.
LEMMA RoundedOrder ==
    ASSUME NEW n \in Nat, NEW k \in Nat, k <= n, NEW v \in Nat, k < n \/ n = 60 * v,
           NEW x \in Rounded(n), NEW y \in Rounded(k)
    PROVE  x >= y
<1> DEFINE N == 2 * n + 15300
           K == 2 * k + 15300
           q == N \div 30600
           m == N % 30600
<1>1. q \in Nat /\ m \in Nat /\ m < 30600 /\ N = 30600 * q + m
  OBVIOUS
<1>2. x = q \/ (x = q - 1 /\ m = 0)
  BY DEF Rounded, Truncated
<1>3. y \in Nat /\ 30600 * y <= K
  <2>1. K \in Nat /\ 30600 \in Nat \ {0} /\ y \in Truncated(K, 30600)
    BY DEF Rounded
  <2> HIDE DEF K
  <2> QED
    BY <2>1, TruncatedNear
<1>4. m = 0 => k < n
  BY <1>1
<1> HIDE DEF q, m
<1>5. CASE x = q
  BY <1>1, <1>3, <1>5
<1>6. CASE x = q - 1 /\ m = 0
  BY <1>1, <1>3, <1>4, <1>6
<1> QED
  BY <1>2, <1>5, <1>6

\* A place between the two ends, and the ends themselves when it is at one.
LEMMA Between ==
    ASSUME NEW v1 \in Nat, NEW v2 \in Nat, v1 <= v2, NEW away \in Int, 0 <= away, away <= 60
    PROVE  /\ 60 * v1 + (v2 - v1) * away \in Nat
           /\ 60 * v1 <= 60 * v1 + (v2 - v1) * away
           /\ 60 * v1 + (v2 - v1) * away <= 60 * v2
<1> DEFINE w == v2 - v1
<1>1. w \in Nat /\ 60 * w = 60 * v2 - 60 * v1
  OBVIOUS
<1> HIDE DEF w
<1>2. w * away \in Int /\ w * away >= 0
  BY <1>1
<1>3. w * (60 - away) >= 0 /\ w * (60 - away) = 60 * w - w * away
  BY <1>1
<1> QED
  BY <1>1, <1>2, <1>3 DEF w

\* A colour without saturation is a grey of its lightness.
LEMMA Grey ==
    ASSUME NEW h, NEW l, NEW y \in HSL2RGB(h, 0, l), NEW p \in Primaries
    PROVE  y[p] = l
BY DEF HSL2RGB, Primary, Primaries

\* The report of a colour that is not grey, as numbers.
LEMMA ReportIs ==
    ASSUME NEW c \in Rgb, NEW x \in RGB2HSL(c)
    PROVE  /\ Spread(c) = 0 => x.s = 0
           /\ Spread(c) # 0 =>
                /\ x.h \in Truncated(HueTimesSpread(c), Spread(c))
                /\ x.s \in Truncated(255 * Spread(c), SaturationDivisor(c))
           /\ x.l \in Truncated(Brightest(c) + Darkest(c), 2)
           /\ x.h \in Nat /\ x.h <= 360 /\ x.s \in Level /\ x.l \in Level
<1>1. x.h \in Nat /\ x.h <= 360 /\ x.s \in Level /\ x.l \in Level
  BY ReportTyped, HslIs
<1> QED
  BY <1>1 DEF RGB2HSL

\* The three primaries of a sextant are all there are.
LEMMA SextantPrimaries ==
    ASSUME NEW h, NEW high, NEW mid, NEW low, NEW away, Sextant(h, high, mid, low, away),
           NEW p \in Primaries
    PROVE  p \in {high, mid, low}
BY DEF Sextant, Primaries

\* The stronger of two channels comes back as the stronger one.
LEMMA BackInOrder ==
    ASSUME NEW c \in Rgb, NEW x \in RGB2HSL(c), NEW y \in HSL2RGB(x.h, x.s, x.l),
           NEW p \in Primaries, NEW q \in Primaries, c[p] > c[q]
    PROVE  y[p] >= y[q]
<1> DEFINE h == x.h
           s == x.s
           l == x.l
<1>1. /\ Spread(c) = 0 => s = 0
      /\ Spread(c) # 0 => h \in Truncated(HueTimesSpread(c), Spread(c))
      /\ h \in Nat /\ h <= 360 /\ s \in Level /\ l \in Level
  BY ReportIs
<1>2. y \in HSL2RGB(h, s, l)
  OBVIOUS
<1> HIDE DEF h, s, l
<1>3. CASE s = 0
  <2>1. y[p] = l /\ y[q] = l
    BY <1>2, <1>3, Grey
  <2> QED
    BY <1>1, <2>1, LevelIs
<1>4. CASE s # 0
  <2>1. Spread(c) # 0 /\ h \in Truncated(HueTimesSpread(c), Spread(c))
    BY <1>1, <1>4
  <2>2. PICK high \in Primaries, mid \in Primaries, low \in Primaries, away \in Int :
           Placed(c, h, high, mid, low, away)
    BY <2>1, HueInSextant
  <2>3. /\ Sextant(h, high, mid, low, away) /\ 0 <= away /\ away <= 60
        /\ c[high] = Brightest(c) /\ c[low] = Darkest(c)
    BY <2>2 DEF Placed, Sextant
  <2> DEFINE v1 == Var1(s, l)
             v2 == Var2(s, l)
             N == 60 * v1 + (v2 - v1) * away
  <2>4. y[high] \in Rounded(60 * v2) /\ y[low] \in Rounded(60 * v1) /\ y[mid] \in Rounded(N)
    BY <1>1, <1>2, <1>4, <2>3, SextantColour
  <2>5. v1 \in Nat /\ v2 \in Nat /\ v1 <= v2
    BY <1>1, VarRange
  <2> HIDE DEF v1, v2
  <2>6. N \in Nat /\ 60 * v1 <= N /\ N <= 60 * v2
    BY <2>3, <2>5, Between
  <2> HIDE DEF N
  <2>7. 60 * v1 \in Nat /\ 60 * v2 \in Nat
    BY <2>5
  <2>8. y[high] >= y[mid]
    BY <2>4, <2>5, <2>6, <2>7, RoundedOrder
  <2>9. y[high] >= y[low]
    <3>1. 60 * v1 <= 60 * v2
      BY <2>5
    <3> QED
      BY <2>4, <2>5, <2>7, <3>1, RoundedOrder
  <2>10. y[mid] >= y[low]
    <3>1. 60 * v1 < N \/ N = 60 * v1
      BY <2>6, <2>7
    <3> QED
      BY <2>4, <2>5, <2>6, <2>7, <3>1, RoundedOrder
  <2>11. p \in {high, mid, low} /\ q \in {high, mid, low}
    BY <2>3, SextantPrimaries
  <2>12. Darkest(c) <= c[mid] /\ c[mid] <= Brightest(c) /\ Darkest(c) <= Brightest(c)
         /\ Darkest(c) \in Int /\ Brightest(c) \in Int /\ c[mid] \in Int
    <3>1. mid \in {"r", "g", "b"}
      BY DEF Primaries
    <3> QED
      BY <3>1, Ends, RgbIs
  <2>13. \/ p = high /\ q = mid
         \/ p = high /\ q = low
         \/ p = mid /\ q = low
    BY <2>3, <2>11, <2>12
  <2> QED
    BY <2>8, <2>9, <2>10, <2>13
<1> QED
  BY <1>3, <1>4

\* The two ends that come back are those of the colour, less what truncating
\* S and L takes away: 255 * e - t is the divisor times s, and j is what L loses.
LEMMA EndsNear ==
    ASSUME NEW c \in Rgb, Spread(c) # 0, NEW x \in RGB2HSL(c)
    PROVE  /\ -637 <= Var1(x.s, x.l) - 255 * Darkest(c)
           /\ Var1(x.s, x.l) - 255 * Darkest(c) <= 637
           /\ -637 <= Var2(x.s, x.l) - 255 * Brightest(c)
           /\ Var2(x.s, x.l) - 255 * Brightest(c) <= 637
<1> DEFINE M == Brightest(c)
           m == Darkest(c)
           d == Spread(c)
           e == SaturationDivisor(c)
           s == x.s
           l == x.l
           V2 == Var2(s, l)
           V1 == Var1(s, l)
           P == e * s
           sum == M + m
           j == sum - 2 * l
           z == l * s
           js == j * s
<1>1. M \in Nat /\ M <= 255 /\ m \in Nat /\ m <= M /\ d = M - m /\ d # 0 /\ sum = M + m
  BY Ends DEF Spread
<1>2. e = IF sum < 255 THEN sum ELSE 510 - sum
  BY DEF SaturationDivisor
<1>3. s \in Nat /\ s <= 255 /\ l \in Nat /\ l <= 255
  BY ReportIs, LevelIs
<1>4. s \in Truncated(255 * d, e) /\ l \in Truncated(sum, 2)
  BY ReportIs
<1>5. /\ V2 = IF 2 * l < 255 THEN l * (255 + s) ELSE 255 * (l + s) - s * l
      /\ V1 = 510 * l - V2
  BY DEF Var1, Var2
<1>6. P = e * s /\ j = sum - 2 * l /\ z = l * s /\ js = j * s
  OBVIOUS
<1> HIDE DEF M, m, d, e, s, l, V1, V2, P, sum, j, z, js
<1>7. e \in Nat \ {0} /\ sum \in Nat /\ 255 * d \in Nat /\ e <= 255
  BY <1>1, <1>2
<1>8. 255 * d - e <= P /\ P <= 255 * d
  BY <1>4, <1>6, <1>7, TruncatedNear
<1>9. j \in Int /\ 0 <= j /\ j <= 2
  <2>1. sum - 2 <= 2 * l /\ 2 * l <= sum
    BY <1>4, <1>7, TruncatedNear
  <2> QED
    BY <1>3, <1>6, <1>7, <2>1
<1>10. P \in Int /\ z \in Int /\ js \in Int /\ V1 \in Int /\ V2 \in Int
  BY <1>3, <1>5, <1>6, <1>7, <1>9
<1>11. 0 <= js /\ js <= 255 * j
  <2>1. j * s >= 0
    BY <1>3, <1>9
  <2>2. j * (255 - s) >= 0 /\ j * (255 - s) = 255 * j - j * s
    BY <1>3, <1>9
  <2> QED
    BY <1>3, <1>6, <1>9, <2>1, <2>2
<1>12. V2 = IF 2 * l < 255 THEN 255 * l + z ELSE 255 * l + 255 * s - z
  <2>1. l * (255 + s) = 255 * l + l * s
    BY <1>3
  <2>2. s * l = l * s
    BY <1>3
  <2> QED
    BY <1>3, <1>5, <1>6, <2>1, <2>2
<1>13. 2 * z = sum * s - js
  <2>1. 2 * l = sum - j
    BY <1>3, <1>6, <1>7
  <2>2. 2 * (l * s) = (2 * l) * s
    BY <1>3
  <2>3. (sum - j) * s = sum * s - j * s
    BY <1>3, <1>7, <1>9
  <2> QED
    BY <1>6, <2>1, <2>2, <2>3
<1> DEFINE S == sum * s
<1>14. S \in Int /\ 2 * z = S - js
  BY <1>3, <1>7, <1>13
<1>15. sum <= 255 => S = P
  <2>1. sum <= 255 => e = sum
    BY <1>2, <1>7
  <2> QED
    BY <1>6, <2>1
<1>16. sum > 255 => S = 510 * s - P
  <2>1. (510 - sum) * s = 510 * s - sum * s
    BY <1>3, <1>7
  <2> QED
    BY <1>2, <1>3, <1>6, <1>7, <2>1
<1> HIDE DEF S
<1>17. 2 * l = sum - j
  BY <1>3, <1>6, <1>7
<1>18. CASE 2 * l < 255 /\ sum <= 255
  <2>1. 2 * V2 = 255 * sum - 255 * j + P - js
    BY <1>3, <1>7, <1>9, <1>10, <1>12, <1>14, <1>15, <1>17, <1>18
  <2>2. 2 * V1 = 255 * sum - 255 * j - P + js
    BY <1>3, <1>5, <1>7, <1>9, <1>10, <1>17, <2>1
  <2>3. /\ -637 <= V1 - 255 * m /\ V1 - 255 * m <= 637
        /\ -637 <= V2 - 255 * M /\ V2 - 255 * M <= 637
    BY <1>1, <1>7, <1>8, <1>9, <1>10, <1>11, <2>1, <2>2
  <2> QED
    BY <2>3 DEF V1, V2, M, m, s, l
<1>19. CASE 2 * l < 255 /\ sum > 255
  <2>1. sum = 256 /\ l = 127 /\ e = 254 /\ j = 2
    BY <1>2, <1>3, <1>7, <1>9, <1>17, <1>19
  <2>2. z = 127 * s /\ P = 254 * s /\ js = 2 * s
    BY <1>3, <1>6, <2>1
  <2>3. 2 * V2 = 64770 + P /\ 2 * V1 = 64770 - P
    BY <1>3, <1>5, <1>10, <1>12, <1>19, <2>1, <2>2
  <2>4. /\ -637 <= V1 - 255 * m /\ V1 - 255 * m <= 637
        /\ -637 <= V2 - 255 * M /\ V2 - 255 * M <= 637
    BY <1>1, <1>7, <1>8, <1>10, <2>1, <2>3
  <2> QED
    BY <2>4 DEF V1, V2, M, m, s, l
<1>20. CASE 2 * l >= 255
  <2>1. sum > 255
    BY <1>3, <1>7, <1>9, <1>17, <1>20
  <2>2. 2 * V2 = 255 * sum - 255 * j + P + js
    BY <1>3, <1>7, <1>9, <1>10, <1>12, <1>14, <1>16, <1>17, <1>20, <2>1
  <2>3. 2 * V1 = 255 * sum - 255 * j - P - js
    BY <1>3, <1>5, <1>7, <1>9, <1>10, <1>17, <2>2
  <2>4. /\ -637 <= V1 - 255 * m /\ V1 - 255 * m <= 637
        /\ -637 <= V2 - 255 * M /\ V2 - 255 * M <= 637
    BY <1>1, <1>7, <1>8, <1>9, <1>10, <1>11, <2>2, <2>3
  <2> QED
    BY <2>4 DEF V1, V2, M, m, s, l
<1> QED
  BY <1>3, <1>7, <1>18, <1>19, <1>20

\* The middle channel: its place between the ends, and the ends, are each off
\* by their own truncation.
LEMMA MiddleNear ==
    ASSUME NEW v1 \in Int, NEW v2 \in Int, NEW m \in Int, NEW M \in Int, NEW k \in Int,
           NEW away \in Int, 0 <= away, away <= 60, M - m <= 255,
           -637 <= v1 - 255 * m, v1 - 255 * m <= 637,
           -637 <= v2 - 255 * M, v2 - 255 * M <= 637,
           (M - m) * away - 60 * (k - m) <= M - m,
           60 * (k - m) - (M - m) * away <= M - m
    PROVE  /\ 60 * v1 + (v2 - v1) * away \in Int
           /\ -103245 <= 60 * v1 + (v2 - v1) * away - 15300 * k
           /\ 60 * v1 + (v2 - v1) * away - 15300 * k <= 103245
<1> DEFINE a == v1 - 255 * m
           b == v2 - 255 * M
           T == (M - m) * away
           A == (60 - away) * a
           B == away * b
           X == (v2 - v1) * away
<1>1. a \in Int /\ -637 <= a /\ a <= 637 /\ b \in Int /\ -637 <= b /\ b <= 637
  OBVIOUS
<1>2. X = 255 * T + away * b - away * a
  <2>1. v2 - v1 = 255 * (M - m) + b - a
    OBVIOUS
  <2> HIDE DEF a, b
  <2>2. (255 * (M - m) + b - a) * away = 255 * ((M - m) * away) + away * b - away * a
    BY <1>1
  <2> QED
    BY <2>1, <2>2
<1>3. v1 = 255 * m + a
  OBVIOUS
<1> HIDE DEF a, b
<1>4. A = 60 * a - away * a
  BY <1>1 DEF A
<1>5. ASSUME NEW k1 \in Int, 0 <= k1, k1 <= 60, NEW f \in Int, -637 <= f, f <= 637
      PROVE  -637 * k1 <= k1 * f /\ k1 * f <= 637 * k1
  <2>1. k1 * (f + 637) >= 0 /\ k1 * (f + 637) = k1 * f + 637 * k1
    BY <1>5
  <2>2. k1 * (637 - f) >= 0 /\ k1 * (637 - f) = 637 * k1 - k1 * f
    BY <1>5
  <2> QED
    BY <1>5, <2>1, <2>2
<1>6. -637 * away <= B /\ B <= 637 * away
  BY <1>1, <1>5
<1>7. -637 * (60 - away) <= A /\ A <= 637 * (60 - away)
  <2>1. 60 - away \in Int /\ 0 <= 60 - away /\ 60 - away <= 60
    OBVIOUS
  <2> QED
    BY <1>1, <1>5, <2>1
<1>8. A \in Int /\ B \in Int /\ T \in Int /\ X \in Int /\ away * a \in Int
  BY <1>1
<1>9. X = 255 * T + B - away * a
  BY <1>2
<1>10. /\ T - 60 * (k - m) <= M - m
       /\ 60 * (k - m) - T <= M - m
  OBVIOUS
<1> HIDE DEF A, B, T, X
<1>11. 60 * v1 + X = 15300 * m + 255 * T + A + B
  BY <1>1, <1>3, <1>4, <1>8, <1>9
<1>12. /\ 60 * v1 + X \in Int
       /\ -103245 <= 60 * v1 + X - 15300 * k
       /\ 60 * v1 + X - 15300 * k <= 103245
  BY <1>6, <1>7, <1>8, <1>10, <1>11
<1> QED
  BY <1>12 DEF X

\* What is within 103245 units of a level rounds to within seven levels of it.
LEMMA WithinSeven ==
    ASSUME NEW n \in Nat, NEW k \in Int, NEW x \in Rounded(n),
           -103245 <= n - 15300 * k, n - 15300 * k <= 103245
    PROVE  x \in Nat /\ -7 <= x - k /\ x - k <= 7
BY RoundedNear

\* The interval of SentBackIsNear in inequalities.
LEMMA SevenIs == \A x : x \in -7 .. 7 <=> x \in Int /\ -7 <= x /\ x <= 7
OBVIOUS

\* Every channel comes back within seven levels.
LEMMA BackNear ==
    ASSUME NEW c \in Rgb, NEW x \in RGB2HSL(c), NEW y \in HSL2RGB(x.h, x.s, x.l),
           NEW p \in Primaries
    PROVE  y[p] - c[p] \in -7 .. 7
<1> DEFINE h == x.h
           s == x.s
           l == x.l
           d == Spread(c)
           e == SaturationDivisor(c)
           M == Brightest(c)
           m == Darkest(c)
           v1 == Var1(s, l)
           v2 == Var2(s, l)
<1>1. /\ d # 0 => h \in Truncated(HueTimesSpread(c), d) /\ s \in Truncated(255 * d, e)
      /\ l \in Truncated(M + m, 2)
      /\ h \in Nat /\ h <= 360 /\ s \in Level /\ l \in Level
  BY ReportIs
<1>2. /\ y \in HSL2RGB(h, s, l) /\ v1 = Var1(s, l) /\ v2 = Var2(s, l)
  OBVIOUS
<1>3. /\ M \in Nat /\ M <= 255 /\ m \in Nat /\ m <= M /\ d = M - m
      /\ M = Brightest(c) /\ m = Darkest(c) /\ d = Spread(c)
  BY Ends DEF Spread
<1>4. d # 0 => e \in Nat \ {0} /\ e <= 255
  BY <1>3 DEF SaturationDivisor
<1>5. d # 0 => /\ -637 <= v1 - 255 * m /\ v1 - 255 * m <= 637
               /\ -637 <= v2 - 255 * M /\ v2 - 255 * M <= 637
  BY EndsNear
<1>6. \A k \in Primaries : c[k] \in Int /\ m <= c[k] /\ c[k] <= M
  <2>1. \A k \in {"r", "g", "b"} : c[k] \in Int /\ m <= c[k] /\ c[k] <= M
    BY RgbIs, Ends
  <2> QED
    BY <2>1 DEF Primaries
<1> HIDE DEF h, s, l, d, e, M, m, v1, v2
<1>7. CASE s = 0
  <2>1. y[p] = l
    BY <1>2, <1>7, Grey
  <2>2. d <= 1
    <3>1. CASE d # 0
      <4>1. 255 * d \in Nat /\ s \in Truncated(255 * d, e) /\ e \in Nat \ {0}
        BY <1>1, <1>3, <1>4, <3>1
      <4>2. 255 * d - e <= e * 0
        BY <1>7, <4>1, TruncatedNear
      <4> QED
        BY <1>3, <1>4, <3>1, <4>2
    <3> QED
      BY <1>3, <3>1
  <2>3. l \in Nat /\ M + m - 2 <= 2 * l /\ 2 * l <= M + m
    <3>1. M + m \in Nat /\ 2 \in Nat \ {0}
      BY <1>3
    <3>2. l \in Nat /\ (M + m) - 2 <= 2 * l /\ 2 * l <= M + m
      BY <1>1, <3>1, TruncatedNear
    <3> QED
      BY <1>3, <3>2
  <2>4. c[p] \in Int /\ m <= c[p] /\ c[p] <= M
    BY <1>6
  <2>5. l - c[p] \in Int /\ -7 <= l - c[p] /\ l - c[p] <= 7
    BY <1>3, <2>2, <2>3, <2>4
  <2> QED
    BY <2>1, <2>5, SevenIs
<1>8. CASE s # 0
  <2>1. d # 0 /\ h \in Truncated(HueTimesSpread(c), d)
    <3>1. d = 0 => s = 0
      BY ReportIs DEF d, s
    <3> QED
      BY <1>1, <1>8, <3>1
  <2>2. PICK high \in Primaries, mid \in Primaries, low \in Primaries, away \in Int :
           Placed(c, h, high, mid, low, away)
    BY <1>3, <2>1, HueInSextant
  <2>3. /\ Sextant(h, high, mid, low, away) /\ 0 <= away /\ away <= 60
        /\ c[high] = M /\ c[low] = m
        /\ d * away - 60 * (c[mid] - m) <= d
        /\ 60 * (c[mid] - m) - d * away <= d
    BY <1>3, <2>2 DEF Placed, Sextant
  <2> DEFINE N == 60 * v1 + (v2 - v1) * away
  <2>4. y[high] \in Rounded(60 * v2) /\ y[low] \in Rounded(60 * v1) /\ y[mid] \in Rounded(N)
    BY <1>1, <1>2, <1>8, <2>3, SextantColour
  <2>5. v1 \in Nat /\ v2 \in Nat /\ v1 <= v2
    BY <1>1, <1>2, VarRange
  <2>6. N \in Nat
    BY <2>3, <2>5, Between
  <2>7. -103245 <= N - 15300 * c[mid] /\ N - 15300 * c[mid] <= 103245
    <3> DEFINE k == c[mid]
    <3>1. k \in Int /\ M - m <= 255
      BY <1>3, <1>6
    <3>2. /\ (M - m) * away - 60 * (k - m) <= M - m
          /\ 60 * (k - m) - (M - m) * away <= M - m
      BY <1>3, <2>3
    <3> HIDE DEF k
    <3>3. /\ v1 \in Int /\ v2 \in Int /\ m \in Int /\ M \in Int
          /\ -637 <= v1 - 255 * m /\ v1 - 255 * m <= 637
          /\ -637 <= v2 - 255 * M /\ v2 - 255 * M <= 637
      BY <1>3, <1>5, <2>1, <2>5
    <3>4. -103245 <= N - 15300 * k /\ N - 15300 * k <= 103245
      BY <2>3, <3>1, <3>2, <3>3, MiddleNear
    <3> QED
      BY <3>4 DEF k
  <2> HIDE DEF N
  <2>8. y[mid] - c[mid] \in -7 .. 7
    <3>1. c[mid] \in Int
      BY <1>6
    <3>2. y[mid] \in Nat /\ -7 <= y[mid] - c[mid] /\ y[mid] - c[mid] <= 7
      BY <2>4, <2>6, <2>7, <3>1, WithinSeven
    <3> QED
      BY <3>1, <3>2, SevenIs
  <2>9. ASSUME NEW v \in Nat, NEW k \in Nat, -637 <= v - 255 * k, v - 255 * k <= 637,
               NEW z \in Rounded(60 * v)
        PROVE  z - k \in -7 .. 7
    <3>1. 60 * v \in Nat /\ -103245 <= 60 * v - 15300 * k /\ 60 * v - 15300 * k <= 103245
      BY <2>9
    <3>2. z \in Nat /\ -7 <= z - k /\ z - k <= 7
      BY <3>1, WithinSeven
    <3> QED
      BY <3>2, SevenIs
  <2>10. y[high] - c[high] \in -7 .. 7
    BY <1>3, <1>5, <2>1, <2>3, <2>4, <2>5, <2>9
  <2>11. y[low] - c[low] \in -7 .. 7
    BY <1>3, <1>5, <2>1, <2>3, <2>4, <2>5, <2>9
  <2>12. p \in {high, mid, low}
    BY <2>3, SextantPrimaries
  <2> QED
    BY <2>8, <2>10, <2>11, <2>12
<1> QED
  BY <1>7, <1>8

-----------------------------------------------------------------------------
(***************************************************************************)
(* The client.                                                             *)
(***************************************************************************)

\* What is reported belongs to the colour that was asked for.
IInv ==
    /\ TypeOK
    /\ phase = "asked" => shown = asked
    /\ phase = "reported" => shown = asked /\ report \in RGB2HSL(asked)
    /\ LitStaysLit
    /\ OrderKept
    /\ SentBackIsNear

\* The client starts with a colour that it has asked for.
LEMMA InitIInv == Init => IInv
<1> SUFFICES ASSUME Init PROVE IInv
  OBVIOUS
<1>1. asked \in Rgb
  BY SamplesAssumption DEF Init
<1>2. report \in Hsl
  <2>1. 0 \in Level /\ 0 \in 0 .. 360
    BY LevelIs, DegreeIs
  <2> QED
    BY <2>1 DEF Init, Hsl
<1>3. TypeOK
  BY <1>1, <1>2 DEF Init, TypeOK
<1>4. LitStaysLit
  BY <1>1, Ends DEF Init, LitStaysLit
<1>5. \A p \in Primaries : asked[p] \in Int
  BY <1>1, RgbIs DEF Primaries
<1>6. OrderKept
  BY <1>5 DEF Init, OrderKept
<1>7. SentBackIsNear
  <2>1. \A p \in Primaries : shown[p] - asked[p] = 0
    BY <1>5 DEF Init
  <2>2. 0 \in -7 .. 7
    BY SevenIs
  <2> QED
    BY <2>1, <2>2 DEF SentBackIsNear
<1> QED
  BY <1>3, <1>4, <1>6, <1>7 DEF Init, IInv

\* Report and SendBack keep the colour, its report and what is shown related.
LEMMA NextIInv == IInv /\ [Next]_vars => IInv'
<1> SUFFICES ASSUME IInv, [Next]_vars PROVE IInv'
  OBVIOUS
<1>1. /\ asked \in Rgb /\ asked \in Samples /\ report \in Hsl /\ shown \in Rgb
      /\ phase \in {"asked", "reported", "sent back"}
  BY SamplesAssumption DEF IInv, TypeOK
<1>2. CASE Report
  <2>1. report' \in RGB2HSL(asked) /\ shown = asked
    BY <1>2 DEF IInv, Report
  <2>2. report' \in Hsl
    BY <1>1, <2>1, ReportTyped
  <2>3. /\ asked' = asked /\ shown' = shown /\ phase' = "reported"
    BY <1>2 DEF Report
  <2>4. TypeOK'
    BY <1>1, <2>2, <2>3 DEF TypeOK
  <2>5. LitStaysLit'
    BY <2>3 DEF IInv, LitStaysLit
  <2>6. OrderKept' /\ SentBackIsNear'
    BY <2>3 DEF IInv, OrderKept, SentBackIsNear
  <2> QED
    BY <2>1, <2>3, <2>4, <2>5, <2>6 DEF IInv
<1>3. CASE SendBack
  <2>1. /\ report \in RGB2HSL(asked) /\ shown' \in HSL2RGB(report.h, report.s, report.l)
        /\ asked' = asked /\ report' = report /\ phase' = "sent back"
    BY <1>3 DEF IInv, SendBack
  <2>2. report.h \in Nat /\ report.s \in Level /\ report.l \in Level
    BY <1>1, HslIs
  <2>3. shown' \in Rgb /\ Brightest(shown') >= report.l
    BY <2>1, <2>2, ColourOfHsl
  <2>4. TypeOK'
    BY <1>1, <2>1, <2>3 DEF TypeOK
  <2>5. LitStaysLit'
    <3>1. Brightest(asked) >= 3 => report.l >= 1
      BY <1>1, <2>1, ReportLit
    <3>2. Brightest(shown') \in Int /\ report.l \in Int
      BY <2>2, <2>3, Ends, LevelIs
    <3>3. Brightest(asked) >= 3 => Brightest(shown') > 0
      BY <2>3, <3>1, <3>2
    <3> QED
      BY <2>1, <3>3 DEF LitStaysLit
  <2>6. OrderKept'
    BY <1>1, <2>1, BackInOrder DEF OrderKept
  <2>7. SentBackIsNear'
    BY <1>1, <2>1, BackNear DEF SentBackIsNear
  <2> QED
    BY <2>1, <2>4, <2>5, <2>6, <2>7 DEF IInv
<1>4. CASE UNCHANGED vars
  <2>1. asked' = asked /\ report' = report /\ shown' = shown /\ phase' = phase
    BY <1>4 DEF vars
  <2> QED
    BY <2>1 DEF IInv, TypeOK, LitStaysLit, OrderKept, SentBackIsNear
<1> QED
  BY <1>2, <1>3, <1>4 DEF Next

\* The invariant of every client.
LEMMA SpecIInv == Spec => []IInv
BY InitIInv, NextIInv, PTL DEF Spec

\* No conversion leaves its type, whatever colours are set.
THEOREM TypeCorrect == Spec => []TypeOK
<1>1. IInv => TypeOK
  BY DEF IInv
<1> QED
  BY SpecIInv, <1>1, PTL

\* Sending back what was reported switches no lit lamp off, whatever colours
\* are set.
THEOREM LitStays == Spec => []LitStaysLit
<1>1. IInv => LitStaysLit
  BY DEF IInv
<1> QED
  BY SpecIInv, <1>1, PTL

\* Sending back what was reported swaps no two primaries, whatever colours are
\* set.
THEOREM OrderStays == Spec => []OrderKept
<1>1. IInv => OrderKept
  BY DEF IInv
<1> QED
  BY SpecIInv, <1>1, PTL

\* Truncating H, S and L to integers costs no channel more than seven levels,
\* whatever colours are set.
THEOREM SentBackStaysNear == Spec => []SentBackIsNear
<1>1. IInv => SentBackIsNear
  BY DEF IInv
<1> QED
  BY SpecIInv, <1>1, PTL

=============================================================================
