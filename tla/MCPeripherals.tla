----------------------------- MODULE MCPeripherals -----------------------------
(***************************************************************************)
(* The drivers of src/app/driver that share no state, one run for all: each  *)
(* behaviour has one of them on the bench, and the others stay as they are   *)
(* after their initialisation.                                              *)
(***************************************************************************)
EXTENDS Sdio, Key, I2cMaster, SpiOverlap, SpiMaster, SpiSlave

\* Every byte: the run leaves out no value of the I2C master's constant.
MCI2cBytes == 0 .. 255

VARIABLE bench

Bench == {"sdio", "key", "i2c", "overlap", "spi", "slave"}

allVars == <<bench, SdioVars, KeyVars, I2cVars, OverlapVars, SpiVars, SlaveVars>>

\* What a driver may start with is chosen only when it is on the bench.
Init ==
    /\ bench \in Bench
    /\ SdioInit /\ key_init /\ I2cInit /\ OverlapInit /\ SpiInit /\ SlaveInit
    /\ bench # "key" => key_pin = 1
    /\ bench # "overlap" => ~spi_io_80m
    /\ bench # "spi" => spi_driver = "spi"

On(driver) == bench = driver /\ UNCHANGED bench

Next ==
    \/ /\ On("sdio") /\ SdioNext
       /\ UNCHANGED <<KeyVars, I2cVars, OverlapVars, SpiVars, SlaveVars>>
    \/ /\ On("key") /\ KeyNext
       /\ UNCHANGED <<SdioVars, I2cVars, OverlapVars, SpiVars, SlaveVars>>
    \/ /\ On("i2c") /\ I2cNext
       /\ UNCHANGED <<SdioVars, KeyVars, OverlapVars, SpiVars, SlaveVars>>
    \/ /\ On("overlap") /\ OverlapNext
       /\ UNCHANGED <<SdioVars, KeyVars, I2cVars, SpiVars, SlaveVars>>
    \/ /\ On("spi") /\ SpiNext
       /\ UNCHANGED <<SdioVars, KeyVars, I2cVars, OverlapVars, SlaveVars>>
    \/ /\ On("slave") /\ SlaveNext
       /\ UNCHANGED <<SdioVars, KeyVars, I2cVars, OverlapVars, SpiVars>>

\* Each driver under the fairness of its own specification.
Fairness ==
    /\ WF_KeyVars(bench = "key" /\ KeyDriver)
    /\ WF_KeyVars(bench = "key" /\ KeyMoves(TRUE))
    /\ WF_SpiVars(bench = "spi" /\ SpiTransDone)
    /\ WF_SpiVars(bench = "spi" /\ SpiReturn)

Spec == Init /\ [][Next]_allVars /\ Fairness

\* KeyHeard, when the key is on the bench: see Key.
BenchKeyHeard == bench = "key" => KeyHeard

=============================================================================
