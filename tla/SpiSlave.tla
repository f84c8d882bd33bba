------------------------------- MODULE SpiSlave -------------------------------
(***************************************************************************)
(* HSPI as a slave, driven by src/app/driver/spi.c: a master writes 32 bytes *)
(* into SPI_W0..W7 and reads others from SPI_W8..W15; the interrupt handler  *)
(* copies what was written, and two lines tell the master when it may go on. *)
(* A packet is its number, and half of it may be there before the other.     *)
(* Interrupts of the other controllers that share the handler are left out.  *)
(***************************************************************************)
EXTENDS Integers

CONSTANT SlaveLast      \* bound: packets written, and packets read

ASSUME SlaveAssumption == SlaveLast \in Nat

Halves == {"low", "high"}
DoneEvents == {"WR_BUF_DONE", "RD_BUF_DONE"}

VARIABLES
    slv_done, slv_en,   \* events of SPI_SLAVE, and those that interrupt
    slv_at, regvalue,   \* where the handler is, and what it read
    w_in, spi_data,     \* the packet halves in SPI_W0..W7, and in memory
    wr_ready, rd_ready, \* GPIO 0 and GPIO 2
    mst_ready,          \* the master saw wr_ready rise since its last write
    mst_at,             \* the master's transaction
    written, taken,     \* packets the master wrote, and the handler took over
    served              \* packets the application gave the master to read

SlaveVars == <<slv_done, slv_en, slv_at, regvalue, w_in, spi_data,
               wr_ready, rd_ready, mst_ready, mst_at, written, taken, served>>

master == <<w_in, mst_at, written>>
lines == <<wr_ready, rd_ready, mst_ready>>

Both(n) == [h \in Halves |-> n]

\* After spi_slave_init and gpio_init.
SlaveInit ==
    /\ slv_done = {} /\ slv_en = DoneEvents
    /\ slv_at = "idle" /\ regvalue = {}
    /\ w_in = Both(0) /\ spi_data = Both(0)
    /\ wr_ready = TRUE /\ rd_ready = FALSE
    /\ mst_ready = TRUE
    /\ mst_at = "idle"
    /\ written = 0 /\ taken = 0 /\ served = 0

-----------------------------------------------------------------------------
(***************************************************************************)
(* The master, which writes after wr_ready rose and reads while rd_ready is  *)
(* high, one transaction at a time; and the application, which fills         *)
(* SPI_W8..W15 again once the last packet was read.                          *)
(***************************************************************************)
MasterWrites ==
    /\ mst_at = "idle" /\ mst_ready /\ wr_ready
    /\ written < SlaveLast
    /\ mst_at' = "write" /\ mst_ready' = FALSE
    /\ w_in' = [w_in EXCEPT !["low"] = written + 1]
    /\ UNCHANGED <<slv_done, slv_en, slv_at, regvalue, spi_data,
                   wr_ready, rd_ready, written, taken, served>>

MasterWritten ==
    /\ mst_at = "write"
    /\ mst_at' = "idle"
    /\ w_in' = Both(written + 1)
    /\ written' = written + 1
    /\ slv_done' = slv_done \union {"WR_BUF_DONE"}
    /\ UNCHANGED <<slv_en, slv_at, regvalue, spi_data, lines, taken, served>>

MasterReads ==
    /\ mst_at = "idle" /\ rd_ready
    /\ slv_done' = slv_done \union {"RD_BUF_DONE"}
    /\ UNCHANGED <<slv_en, slv_at, regvalue, spi_data, lines,
                   master, taken, served>>

set_miso_data ==
    /\ slv_at = "idle" /\ ~rd_ready /\ served < SlaveLast
    /\ rd_ready' = TRUE
    /\ served' = served + 1
    /\ UNCHANGED <<slv_done, slv_en, slv_at, regvalue, spi_data,
                   wr_ready, mst_ready, master, taken>>

-----------------------------------------------------------------------------
(***************************************************************************)
(* spi_slave_isr_handler: the events are read, then - with their interrupts  *)
(* off - cleared, whether read or not.                                       *)
(***************************************************************************)
SlaveIsr ==
    /\ slv_at = "idle" /\ slv_done \intersect slv_en # {}
    /\ regvalue' = slv_done
    /\ slv_en' = {}
    /\ slv_at' = "clear"
    /\ UNCHANGED <<slv_done, spi_data, lines, master, taken, served>>

SlaveIsrClear ==
    /\ slv_at = "clear"
    /\ slv_done' = {}
    /\ slv_en' = DoneEvents
    /\ slv_at' = IF "WR_BUF_DONE" \in regvalue THEN "low" ELSE "end"
    /\ wr_ready' = (wr_ready /\ "WR_BUF_DONE" \notin regvalue)
    /\ UNCHANGED <<regvalue, spi_data, rd_ready, mst_ready, master,
                   taken, served>>

\* Mutant: four of the eight words are copied.
SlaveIsrCopyHalf ==
    /\ slv_at = "low"
    /\ spi_data' = [spi_data EXCEPT !["low"] = w_in["low"]]
    /\ slv_at' = "ready"
    /\ taken' = taken + 1
    /\ UNCHANGED <<slv_done, slv_en, regvalue, lines, master, served>>

SlaveIsrCopy ==
    /\ slv_at \in Halves
    /\ spi_data' = [spi_data EXCEPT ![slv_at] = w_in[slv_at]]
    /\ slv_at' = IF slv_at = "low" THEN "high" ELSE "ready"
    /\ taken' = IF slv_at = "low" THEN taken ELSE taken + 1
    /\ UNCHANGED <<slv_done, slv_en, regvalue, lines, master, served>>

SlaveIsrReady ==
    /\ slv_at = "ready"
    /\ wr_ready' = TRUE /\ mst_ready' = TRUE
    /\ slv_at' = "end"
    /\ UNCHANGED <<slv_done, slv_en, regvalue, spi_data, rd_ready,
                   master, taken, served>>

SlaveIsrEnd ==
    /\ slv_at = "end"
    /\ rd_ready' = (rd_ready /\ "RD_BUF_DONE" \notin regvalue)
    /\ slv_at' = "idle"
    /\ UNCHANGED <<slv_done, slv_en, regvalue, spi_data, wr_ready,
                   mst_ready, master, taken, served>>

SlaveNext ==
    \/ MasterWrites \/ MasterWritten \/ MasterReads
    \/ set_miso_data
    \/ SlaveIsr \/ SlaveIsrClear \/ SlaveIsrCopy \/ SlaveIsrReady \/ SlaveIsrEnd

SlaveSpec == SlaveInit /\ [][SlaveNext]_SlaveVars

-----------------------------------------------------------------------------
\* What the handler took over is one whole packet and none is taken twice or
\* overwritten: the copy is over before wr_ready lets the master write again,
\* and when the master may write, the last packet has been taken.  (A packet
\* whose event comes between the handler's read of the events and their
\* clearing is never taken; the master then waits for ever.)
SlavePackets ==
    /\ taken \in {written - 1, written}
    /\ slv_at # "high" => spi_data["low"] = spi_data["high"]
    /\ mst_ready => spi_data = Both(written) /\ taken = written

=============================================================================
