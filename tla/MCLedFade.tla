------------------------------ MODULE MCLedFade ------------------------------
(***************************************************************************)
(* One channel with the numbers of the device: 256 levels, fades of 100       *)
(* frames.  The channels do not influence each other except through the test *)
(* for black.  The hue wheel has two positions: it shows the same level all  *)
(* round in this channel, and a hue left behind only multiplies states.     *)
(***************************************************************************)
EXTENDS Led

MCChannels == {"r"}

Only(level) == [ch \in MCChannels |-> level]

MCWhite == Only(255)
MCGreen == Only(51)
MCCommands == {Only(100)}

\* The channel stands for the brightest of the three: at full saturation and
\* lightness 10 that one has level 20 at every hue.
MCHueColour == [h \in 0 .. 1 |-> Only(20)]

MCPinChoices == {Only(15)}

=============================================================================
