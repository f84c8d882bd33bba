-------------------------------- MODULE MCHsl --------------------------------
(***************************************************************************)
(* Colours at the ends and around the middle of the range, where L passes    *)
(* one half, and between.                                                   *)
(***************************************************************************)
EXTENDS Hsl

Levels == {0, 1, 2, 3, 4, 10, 20, 64, 100, 126, 127, 128, 129, 152, 183, 200,
           208, 219, 226, 244, 253, 254, 255}

MCSamples == [r : Levels, g : Levels, b : Levels]

=============================================================================
