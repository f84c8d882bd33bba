------------------------------- MODULE Colours -------------------------------
(***************************************************************************)
(* The data every part of the lamp shares: a colour is one uint8_t level    *)
(* per PWM channel (r, g, b, w in src/app/user/user_main.c).                *)
(*                                                                         *)
(* U8 is the number of values of a uint8_t (256 on the device); it is a    *)
(* parameter so that TLC can also run with a narrow integer type.           *)
(***************************************************************************)
EXTENDS Integers

CONSTANTS
    Channels,           \* the PWM channels: r, g, b and w
    U8                  \* the number of values of a uint8_t

ASSUME ColoursAssumption ==
    /\ Channels # {}
    /\ U8 \in Nat
    /\ U8 > 1

Level == 0 .. (U8 - 1)

Colour == [Channels -> Level]

\* (0,0,0,0): as a command it means "off".
Black == [ch \in Channels |-> 0]

\* x lies between the ends a and b, whichever is the larger.
Within(a, x, b) == (a <= x /\ x <= b) \/ (b <= x /\ x <= a)

\* The colours every channel of which lies between its values in c and d.
Box(c, d) == {e \in Colour : \A ch \in Channels : Within(c[ch], e[ch], d[ch])}

=============================================================================
