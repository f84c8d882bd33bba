--------------------------------- MODULE Sdio ---------------------------------
(***************************************************************************)
(* The SDIO slave of src/app/driver/sdio_slv.c.  Bytes for the host are      *)
(* copied into a fixed set of buffers, which circulate between two lists:    *)
(* pHead_Sended (free, the first perhaps partly filled) and pHead_ToSend     *)
(* (its head is the one offered to the host).  A buffer is the sequence of   *)
(* the bytes in it, numbered as they are loaded.                             *)
(*                                                                         *)
(* The lists are shared with the interrupt handler and nothing in the driver *)
(* protects them, so sdio_load_data is called from the handler's receive     *)
(* callback, or with the interrupt disabled.                                 *)
(***************************************************************************)
EXTENDS Integers, Sequences

CONSTANTS
    RX_BUFFER_SIZE,     \* bytes of a buffer (512)
    RX_BUFFER_NUM,      \* buffers (4)
    SdioMaxLoad,        \* bound: bytes of one sdio_load_data
    SdioLastByte        \* bound: bytes loaded in all

ASSUME SdioAssumption ==
    /\ {RX_BUFFER_SIZE, RX_BUFFER_NUM} \subseteq Nat \ {0}
    /\ {SdioMaxLoad, SdioLastByte} \subseteq Nat

VARIABLES
    pHead_ToSend, pHead_Sended,     \* the lists, as sequences of buffers
    has_read,           \* the host has read what was offered
    rxLink,             \* what the running RX link gives the host, or <<>>
    txLink,             \* the TX link runs: the host may write
    sdioStatus,         \* SLC_HOST_CONF_W2, as the host reads it
    toHost,             \* the interrupt TRIG_TOHOST_INT raises
    slcInt,             \* SLC_INT_STATUS
    sdioIsr,            \* where sdio_slave_isr is
    cleared,            \* events its last lines cleared and nobody handled
    loaded, hostRead    \* last byte loaded, last byte the host read

SdioVars == <<pHead_ToSend, pHead_Sended, has_read, rxLink, txLink, sdioStatus,
              toHost, slcInt, sdioIsr, cleared, loaded, hostRead>>

lists == <<pHead_ToSend, pHead_Sended, has_read>>

\* sdio_slave_init: both links and every event are reset, the TX link started.
SdioInit ==
    /\ pHead_ToSend = <<>>
    /\ pHead_Sended = [i \in 1 .. RX_BUFFER_NUM |-> <<>>]
    /\ has_read = TRUE
    /\ rxLink = <<>> /\ txLink = TRUE
    /\ sdioStatus = [wr_busy |-> FALSE, rd_empty |-> TRUE, rx_length |-> 0,
                     intr_no |-> {}]
    /\ toHost = FALSE
    /\ slcInt = {} /\ sdioIsr = "idle" /\ cleared = {}
    /\ loaded = 0 /\ hostRead = 0

-----------------------------------------------------------------------------
(***************************************************************************)
(* Loading.                                                                *)
(***************************************************************************)
Bytes(first, last) == [k \in 1 .. last - first + 1 |-> first + k - 1]

\* The loop of sdio_load_data: n more bytes behind those of the first free
\* buffer, cut into buffers; each full one moves on to pHead_ToSend.  What
\* finds no buffer is refused.
Room == IF pHead_Sended = <<>> THEN 0
        ELSE Len(pHead_Sended) * RX_BUFFER_SIZE - Len(Head(pHead_Sended))

\* Mutant: whether there is a buffer is not looked at.
TakenUnchecked(n) == n

Taken(n) == IF n < Room THEN n ELSE Room

Filled(n) ==
    LET data == Head(pHead_Sended) \o Bytes(loaded + 1, loaded + Taken(n))
        full == Len(data) \div RX_BUFFER_SIZE
        Part(i) == SubSeq(data, (i - 1) * RX_BUFFER_SIZE + 1, i * RX_BUFFER_SIZE)
        rest == SubSeq(data, full * RX_BUFFER_SIZE + 1, Len(data))
    IN  [send |-> pHead_ToSend \o [i \in 1 .. full |-> Part(i)],
         free |-> IF full = Len(pHead_Sended) THEN <<>>
                  ELSE <<rest>> \o SubSeq(pHead_Sended, full + 2, Len(pHead_Sended))]

\* rx_buff_load_done: a buffer with bytes in it is given to the RX link.
rx_buff_load_done(status, buffer) ==
    IF buffer = <<>> THEN rxLink' = rxLink /\ sdioStatus' = status
    ELSE /\ rxLink' = buffer
         /\ sdioStatus' = [status EXCEPT
                !.rd_empty = FALSE,
                !.intr_no = @ \union {"RX_AVAILIBLE"},
                !.rx_length = Len(buffer)]

\* sdio_load_data with no list to send moves the first free buffer there,
\* and only then calls sdio_try_to_load.
sdio_load_data(n) ==
    /\ sdioIsr \in {"idle", "callback"}
    /\ loaded + n <= SdioLastByte
    /\ pHead_Sended # <<>>
    /\ loaded' = loaded + Taken(n)
    /\ LET filled == Filled(n) IN
       IF filled.send # <<>>
       THEN /\ pHead_ToSend' = filled.send
            /\ pHead_Sended' = filled.free
            /\ UNCHANGED <<has_read, rxLink, sdioStatus, toHost>>
       ELSE /\ pHead_ToSend' = <<Head(filled.free)>>
            /\ pHead_Sended' = Tail(filled.free)
            /\ IF has_read
               THEN /\ rx_buff_load_done(sdioStatus, Head(filled.free))
                    /\ has_read' = FALSE
                    /\ toHost' = TRUE
               ELSE UNCHANGED <<has_read, rxLink, sdioStatus, toHost>>
    /\ UNCHANGED <<txLink, slcInt, sdioIsr, cleared, hostRead>>

-----------------------------------------------------------------------------
(***************************************************************************)
(* The interrupt handler.                                                  *)
(***************************************************************************)

\* Mutant: a partly filled free buffer is forgotten.
ReadDoneForgetting(status) ==
    LET more == Tail(pHead_ToSend)
    IN  /\ toHost' = TRUE
        /\ pHead_ToSend' = more
        /\ pHead_Sended' = Append(pHead_Sended, <<>>)
        /\ has_read' = (more = <<>>)
        /\ rx_buff_load_done(status, IF more = <<>> THEN <<>> ELSE Head(more))

\* sdio_read_done_process: the buffer read goes back, the next one - or the
\* first free one if it has bytes - is offered.
sdio_read_done_process(status) ==
    LET back == Append(pHead_Sended, <<>>)
        more == Tail(pHead_ToSend)
        Offer(buffer) == rx_buff_load_done(status, buffer) /\ has_read' = FALSE
    IN  /\ toHost' = TRUE
        /\ \/ /\ more # <<>>
              /\ pHead_ToSend' = more /\ pHead_Sended' = back
              /\ Offer(Head(more))
           \/ /\ more = <<>> /\ Head(back) # <<>>
              /\ pHead_ToSend' = <<Head(back)>> /\ pHead_Sended' = Tail(back)
              /\ Offer(Head(back))
           \/ /\ more = <<>> /\ Head(back) = <<>>
              /\ pHead_ToSend' = <<>> /\ pHead_Sended' = back
              /\ has_read' = TRUE
              /\ rxLink' = rxLink /\ sdioStatus' = status

rx_buff_read_done(status) ==
    [status EXCEPT !.rd_empty = TRUE, !.rx_length = 0,
                   !.intr_no = @ \ {"RX_AVAILIBLE"}]

tx_buff_write_done(status) ==
    [status EXCEPT !.wr_busy = TRUE, !.intr_no = @ \ {"TX_AVAILIBLE"}]

\* sdio_slave_isr up to the receive callback: the events read are cleared,
\* RX_EOF handled first.
sdio_slave_isr ==
    /\ sdioIsr = "idle" /\ slcInt # {}
    /\ slcInt' = {}
    /\ IF "TX_EOF" \in slcInt
       THEN sdioIsr' = "tx" ELSE sdioIsr' = "tail"
    /\ IF "RX_EOF" \in slcInt
       THEN sdio_read_done_process(rx_buff_read_done(sdioStatus))
       ELSE UNCHANGED <<lists, rxLink, sdioStatus, toHost>>
    /\ UNCHANGED <<txLink, cleared, loaded, hostRead>>

sdio_slave_isr_callback ==
    /\ sdioIsr = "tx"
    /\ sdioStatus' = tx_buff_write_done(sdioStatus)
    /\ sdioIsr' = "callback"
    /\ UNCHANGED <<lists, rxLink, txLink, toHost, slcInt, cleared, loaded, hostRead>>

\* tx_buff_handle_done: the host may write the next packet.
tx_buff_handle_done ==
    /\ sdioIsr = "callback"
    /\ txLink' = TRUE
    /\ sdioStatus' = [sdioStatus EXCEPT !.wr_busy = FALSE,
                                        !.intr_no = @ \union {"TX_AVAILIBLE"}]
    /\ toHost' = TRUE
    /\ sdioIsr' = "tail"
    /\ UNCHANGED <<lists, rxLink, slcInt, cleared, loaded, hostRead>>

\* The handler's last lines: events raised meanwhile are read and cleared,
\* and only printed.
sdio_slave_isr_tail ==
    /\ sdioIsr = "tail"
    /\ cleared' = cleared \union slcInt
    /\ slcInt' = {}
    /\ sdioIsr' = "idle"
    /\ UNCHANGED <<lists, rxLink, txLink, sdioStatus, toHost, loaded, hostRead>>

-----------------------------------------------------------------------------
(***************************************************************************)
(* The host and the SLC hardware: on an interrupt the host takes what is     *)
(* offered, and it may write whenever it finds the slave ready.  A link      *)
(* stops at the end of its buffer.                                           *)
(***************************************************************************)
HostReads ==
    /\ toHost /\ ~sdioStatus.rd_empty /\ rxLink # <<>>
    /\ hostRead' = rxLink[Len(rxLink)]
    /\ rxLink' = <<>>
    /\ toHost' = FALSE
    /\ slcInt' = slcInt \union {"RX_EOF"}
    /\ UNCHANGED <<lists, txLink, sdioStatus, sdioIsr, cleared, loaded>>

HostWrites ==
    /\ txLink /\ ~sdioStatus.wr_busy
    /\ txLink' = FALSE
    /\ slcInt' = slcInt \union {"TX_EOF"}
    /\ UNCHANGED <<lists, rxLink, sdioStatus, toHost, sdioIsr, cleared, loaded, hostRead>>

SdioNext ==
    \/ \E n \in 0 .. SdioMaxLoad : sdio_load_data(n)
    \/ sdio_slave_isr
    \/ sdio_slave_isr_callback
    \/ tx_buff_handle_done
    \/ sdio_slave_isr_tail
    \/ HostReads
    \/ HostWrites

SdioSpec == SdioInit /\ [][SdioNext]_SdioVars

-----------------------------------------------------------------------------
(***************************************************************************)
(* Correctness.                                                            *)
(***************************************************************************)

\* Where the bytes of buffer k of pHead_ToSend begin, and behind its last
\* buffer those of the first free one: hostRead, or what the host had read
\* before the buffer that the handler has still to take back.
BytesBefore ==
    hostRead - (IF "RX_EOF" \in slcInt \union cleared
                THEN Len(Head(pHead_ToSend)) ELSE 0)

Place(k) ==
    BytesBefore + (IF k = 1 THEN 0
                   ELSE Len(Head(pHead_ToSend)) + (k - 2) * RX_BUFFER_SIZE)

FirstFree == IF pHead_Sended = <<>> THEN <<>> ELSE Head(pHead_Sended)

\* No byte taken by sdio_load_data is lost, repeated or reordered, and no
\* buffer leaks: the buffers hold, in order and up to the last one loaded,
\* what the host has yet to read, behind one it has read until the handler
\* takes it back.  Only the first to send and the first free may be part full.
SdioInOrder ==
    /\ Len(pHead_ToSend) + Len(pHead_Sended) = RX_BUFFER_NUM
    /\ \A i \in 2 .. Len(pHead_Sended) : pHead_Sended[i] = <<>>
    /\ \A k \in 2 .. Len(pHead_ToSend) : Len(pHead_ToSend[k]) = RX_BUFFER_SIZE
    /\ \A k \in 1 .. Len(pHead_ToSend) :
        pHead_ToSend[k] = Bytes(Place(k) + 1, Place(k) + Len(pHead_ToSend[k]))
    /\ LET last == Place(Len(pHead_ToSend) + 1) IN
       FirstFree = Bytes(last + 1, loaded) /\ Len(FirstFree) = loaded - last

\* Bytes do not wait for nothing: while some are in a buffer, the host is
\* being offered the first of them, or has just read them and the handler
\* will go on - but for the two cases in which this driver stalls: a whole
\* buffer (or nothing) loaded while idle, which is never offered, and a read
\* whose event fell into the handler's last lines.
Offered ==
    \/ ~has_read /\ rxLink = Head(pHead_ToSend) /\ toHost
    \/ ~has_read /\ "RX_EOF" \in slcInt
Stalled ==
    \/ has_read /\ Len(Head(pHead_ToSend)) = RX_BUFFER_SIZE
    \/ Head(pHead_ToSend) = <<>>
    \/ "RX_EOF" \in cleared

SdioOffered ==
    IF pHead_ToSend = <<>>
    THEN has_read /\ \A i \in 1 .. Len(pHead_Sended) : pHead_Sended[i] = <<>>
    ELSE Offered \/ Stalled

=============================================================================
