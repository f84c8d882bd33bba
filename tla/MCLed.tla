-------------------------------- MODULE MCLed --------------------------------
(***************************************************************************)
(* A lamp with two channels and narrow integers: all interleavings of        *)
(* commands, ticks, pin settings and reboots.                               *)
(***************************************************************************)
EXTENDS Led

MCChannels == {"r", "w"}

Rgbw(r, w) == [ch \in MCChannels |-> IF ch = "r" THEN r ELSE w]

MCWhite == Rgbw(0, 5)
MCGreen == Rgbw(1, 0)
MCCommands == {Rgbw(0, 0), Rgbw(5, 0), Rgbw(1, 4)}

\* A wheel of four positions 0, 2, 4, 6 of which one is reached once only.
MCHueColour == [h \in 0 .. 6 |-> Rgbw(IF h < 3 THEN 1 ELSE 2, 0)]

\* Accepted, accepted, unusable, behind the table, out of range, the same twice.
MCPinChoices ==
    {Rgbw(15, 5), Rgbw(14, 12), Rgbw(6, 5), Rgbw(5, 16), Rgbw(17, 5), Rgbw(5, 5)}

=============================================================================
