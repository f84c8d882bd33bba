-------------------------------- MODULE Lamp --------------------------------
(***************************************************************************)
(* What the LED engine promises, without its mechanism.  A lamp has a       *)
(* switch and a remembered colour that is never black; it is to show that   *)
(* colour when on and nothing when off.  The light gets there at once or by *)
(* frames that stay between the colour it started from and the one asked    *)
(* for, and it always gets there again, whatever orders arrive meanwhile.   *)
(* There are no timers, no step counter and no r_now here.                  *)
(***************************************************************************)
EXTENDS Colours

CONSTANT White          \* the colour of a lamp just powered on

VARIABLES
    power,              \* the switch, 0 or 1
    colour,             \* the colour shown when on, remembered when off
    from,               \* where the last gradual change started
    shown               \* the colour shown now

vars == <<power, colour, from, shown>>

Target == IF power = 1 THEN colour ELSE Black

Lit == Colour \ {Black}

-----------------------------------------------------------------------------

\* A lamp that starts is white, or, in access-point mode, dark.
Init ==
    /\ power \in {0, 1}
    /\ colour = White
    /\ from = Black
    /\ shown = Target

Order ==
    \/ power' = 1 /\ colour' \in Lit
    \/ power' = 0 /\ colour' = colour

\* An order carried out at once.
Jump == Order /\ shown' = Target' /\ from' = from

\* An order carried out by frames, of which this is the first.
Glide == Order /\ from' = shown /\ shown' \in Box(from', Target')

Frame ==
    /\ shown' \in Box(from, Target)
    /\ UNCHANGED <<power, colour, from>>

Arrive ==
    /\ shown' = Target
    /\ UNCHANGED <<power, colour, from>>

Restart ==
    /\ power' \in {0, 1}
    /\ colour' = White
    /\ from' = Black
    /\ shown' = Target'

Next == Jump \/ Glide \/ Frame \/ Arrive \/ Restart

\* Equivalent to []<>(shown = Target): Arrive can take a step that changes
\* something exactly when the lamp shows another colour than its target.
Fairness == WF_vars(Arrive)

SafeSpec == Init /\ [][Next]_vars

Spec == SafeSpec /\ Fairness

=============================================================================
