-------------------------------- MODULE MCUart --------------------------------
(***************************************************************************)
(* FIFOs of three bytes and ring buffers of four, so that positions wrap     *)
(* after two chunks and a full FIFO may just not fit.  Each load gives one   *)
(* direction long traffic, or both a little.                                *)
(***************************************************************************)
EXTENDS Uart

MCLoads ==
    {[rx |-> 5, tx |-> 0, direct |-> 0, reset |-> 0, noise |-> 0],
     [rx |-> 4, tx |-> 0, direct |-> 0, reset |-> 0, noise |-> 2],
     [rx |-> 3, tx |-> 1, direct |-> 0, reset |-> 1, noise |-> 0],
     [rx |-> 2, tx |-> 2, direct |-> 0, reset |-> 0, noise |-> 0],
     [rx |-> 0, tx |-> 6, direct |-> 2, reset |-> 1, noise |-> 0]}

=============================================================================
