--------------------------------- MODULE Uart ---------------------------------
(***************************************************************************)
(* UART0 of src/app/driver/uart.c: the interrupt handler, the task that      *)
(* empties the receive FIFO, and the two ring buffers compiled in with       *)
(* UART_BUFF_EN.  Code of the task level (the receive task, the application  *)
(* and its timers) runs to completion but is interrupted between any two of  *)
(* its register accesses; the handler is not.  SET_PERI_REG_MASK and         *)
(* CLEAR_PERI_REG_MASK are a read and a later write.                         *)
(*                                                                         *)
(* Received bytes are numbered as the FIFO accepts them and buffered bytes   *)
(* to send as tx_buff_enq accepts them; a byte printed directly is Direct.   *)
(***************************************************************************)
EXTENDS Integers, Sequences

CONSTANTS
    FifoLen,            \* UART_FIFO_LEN (128)
    DirectLimit,        \* uart_tx_one_char waits for fewer bytes (126)
    RxFull,             \* the FULL interrupt's threshold (100)
    TxEmpty,            \* the EMPTY interrupt's threshold (0x10)
    BuffSize,           \* UART_RX_BUFFER_SIZE, UART_TX_BUFFER_SIZE (256)
    QueueLen,           \* uart_recvTaskQueueLen (10)
    MaxChunk,           \* bound: bytes of one tx_buff_enq or rx_buff_deq
    Loads               \* bound: how often a byte arrives, one goes through the
                        \* send buffer, one is printed, something is reset,
                        \* the line is noisy or the FIFO full

ASSUME UartAssumption ==
    /\ {FifoLen, QueueLen, MaxChunk} \subseteq Nat \ {0}
    /\ Loads \subseteq [rx : Nat, tx : Nat, direct : Nat,
                        reset : Nat, noise : Nat]
    /\ BuffSize \in Nat /\ BuffSize >= FifoLen
    /\ DirectLimit \in 1 .. FifoLen
    /\ RxFull \in 1 .. FifoLen
    /\ TxEmpty \in 1 .. FifoLen

VARIABLES
    buff_en,            \* the build: UART_BUFF_EN
    rxFifo, txFifo,     \* the hardware FIFOs
    raw, ena,           \* UART_INT_RAW and UART_INT_ENA
    posts,              \* events queued for uart_recvTask
    pRxBuffer, pTxBuffer,
    task,               \* what the task level is doing
    accepted, got,      \* last byte the receive FIFO took, and handed on
    written, sent,      \* last byte tx_buff_enq took, and on the wire
    direct, resets, noise,  \* counted for their bounds
    load                \* the bounds of this behaviour, one of Loads

setup == <<buff_en, load>>
receiving == <<rxFifo, pRxBuffer, accepted, got>>
sending == <<txFifo, pTxBuffer, written, sent>>
done == <<direct, resets, noise>>
vars == <<setup, receiving, sending, raw, ena, posts, task, done>>

Causes == {"FRM_ERR", "FULL", "TOUT", "EMPTY", "OVF"}
RxCauses == {"FULL", "TOUT"}
Direct == -1
Garbage == 0            \* a cell never written, or read already

-----------------------------------------------------------------------------
(***************************************************************************)
(* The ring buffer, struct UartBuffer.  Positions are offsets from           *)
(* pUartBuff.                                                              *)
(***************************************************************************)
Offsets == 0 .. BuffSize - 1

Uart_Buf_Init ==
    [in |-> 0, out |-> 0, space |-> BuffSize, cell |-> [i \in Offsets |-> Garbage]]

Used(b) == BuffSize - b.space

Uart_Buf_Cpy(b, data) ==
    LET Pos(k) == (b.in + k - 1) % BuffSize
    IN  [b EXCEPT
            !.in = (@ + Len(data)) % BuffSize,
            !.space = @ - Len(data),
            !.cell = [i \in Offsets |->
                        IF \E k \in 1 .. Len(data) : Pos(k) = i
                        THEN data[CHOOSE k \in 1 .. Len(data) : Pos(k) = i]
                        ELSE @[i]]]

\* The position at offset i, which may or may not wrap at the end.
Wrapped(i, wraps) == IF wraps THEN i % BuffSize ELSE i

\* The n bytes from the out position.
Peek(b, n, wraps) ==
    [k \in 1 .. n |-> IF Wrapped(b.out + k - 1, wraps) \in Offsets
                      THEN b.cell[Wrapped(b.out + k - 1, wraps)] ELSE Garbage]

Drop(b, n, wraps) ==
    LET read == {Wrapped(b.out + k - 1, wraps) : k \in 1 .. n}
    IN  [b EXCEPT
            !.out = Wrapped(@ + n, wraps),
            !.space = @ + n,
            !.cell = [i \in Offsets |-> IF i \in read THEN Garbage ELSE @[i]]]

\* What a buffer holds, oldest first: the queue it stands for.
Content(b) == Peek(b, Used(b), TRUE)

-----------------------------------------------------------------------------
(***************************************************************************)
(* uart_config and uart_init.  ETS_UART_INTR_ENABLE comes before the buffers *)
(* exist, but no event is handled before user_init returns.                  *)
(***************************************************************************)
uart_config(old) == old \union {"TOUT", "FRM_ERR"} \union {"FULL", "OVF"}

Idle == [at |-> "idle", n |-> 0, mask |-> {}]

Init ==
    /\ buff_en \in BOOLEAN
    /\ rxFifo = <<>> /\ txFifo = <<>>
    /\ raw = {}
    /\ ena = uart_config({})
    /\ posts = 0
    /\ pRxBuffer = Uart_Buf_Init /\ pTxBuffer = Uart_Buf_Init
    /\ task = Idle
    /\ accepted = 0 /\ got = 0
    /\ written = 0 /\ sent = 0
    /\ direct = 0 /\ resets = 0 /\ noise = 0
    /\ load \in Loads

Status == raw \intersect ena     \* UART_INT_ST

\* A pending interrupt is taken before the task level goes on.
At(place) == Status = {} /\ task.at = place
Free == Status = {} /\ task = Idle

\* uart_reattach: both FIFOs are reset and the buffers replaced by new ones;
\* registering the task again may empty its queue.
uart_reattach ==
    /\ Free
    /\ resets < load.reset
    /\ rxFifo' = <<>> /\ txFifo' = <<>>
    /\ raw' = {}
    /\ ena' = uart_config(ena)
    /\ posts' \in {0, posts}
    /\ pRxBuffer' = Uart_Buf_Init /\ pTxBuffer' = Uart_Buf_Init
    /\ got' = accepted
    /\ sent' = written
    /\ resets' = resets + 1
    /\ UNCHANGED <<setup, accepted, written, task, direct, noise>>

-----------------------------------------------------------------------------
(***************************************************************************)
(* The hardware: bytes arrive and leave, and causes are latched in           *)
(* UART_INT_RAW while they hold.                                             *)
(***************************************************************************)
Arrive ==
    /\ accepted < load.rx
    /\ IF Len(rxFifo) < FifoLen
       THEN /\ rxFifo' = Append(rxFifo, accepted + 1)
            /\ accepted' = accepted + 1
            /\ UNCHANGED <<raw, noise>>
       ELSE /\ noise < load.noise
            /\ noise' = noise + 1
            /\ raw' = raw \union {"OVF"}
            /\ UNCHANGED <<rxFifo, accepted>>
    /\ UNCHANGED <<setup, sending, direct, resets, pRxBuffer, got, ena, posts, task>>

Shift ==
    /\ txFifo # <<>>
    /\ txFifo' = Tail(txFifo)
    /\ sent' = IF Head(txFifo) = Direct THEN sent ELSE Head(txFifo)
    /\ UNCHANGED <<setup, receiving, done, pTxBuffer, written, raw, ena, posts, task>>

Holds(c) ==
    \/ c = "FULL" /\ Len(rxFifo) >= RxFull
    \/ c = "TOUT" /\ rxFifo # <<>>
    \/ c = "EMPTY" /\ Len(txFifo) < TxEmpty
    \/ c = "FRM_ERR" /\ noise < load.noise

Latch(c) ==
    /\ Holds(c)
    /\ raw' = raw \union {c}
    /\ noise' = IF c = "FRM_ERR" THEN noise + 1 ELSE noise
    /\ UNCHANGED <<setup, receiving, sending, direct, resets, ena, posts, task>>

-----------------------------------------------------------------------------
(***************************************************************************)
(* uart0_rx_intr_handler serves one cause a call, the first in this order.   *)
(***************************************************************************)
\* FRM_ERR and OVF are only printed and cleared.
FrameError ==
    /\ "FRM_ERR" \in Status
    /\ raw' = raw \ {"FRM_ERR"}
    /\ UNCHANGED <<setup, receiving, sending, done, ena, posts, task>>

Overflow ==
    /\ Status = {"OVF"}
    /\ raw' = raw \ {"OVF"}
    /\ UNCHANGED <<setup, receiving, sending, done, ena, posts, task>>

\* The receive interrupt stays disabled until the task has run; what
\* system_os_post returns is not looked at.
Received ==
    /\ "FRM_ERR" \notin Status
    /\ \E c \in Status \intersect RxCauses :
        /\ c = "TOUT" => "FULL" \notin Status
        /\ raw' = raw \ {c}
    /\ ena' = ena \ RxCauses
    /\ posts' = IF posts < QueueLen THEN posts + 1 ELSE posts
    /\ UNCHANGED <<setup, receiving, sending, done, task>>

\* Mutant: the interrupt is disabled after the first part.
TxFifoOnce ==
    /\ "EMPTY" \in Status
    /\ Status \intersect {"FRM_ERR", "FULL", "TOUT"} = {}
    /\ LET fifo_remain == FifoLen - Len(txFifo)
           data_len == Used(pTxBuffer)
           len == IF data_len > fifo_remain THEN fifo_remain ELSE data_len
       IN  IF buff_en
           THEN /\ txFifo' = txFifo \o Peek(pTxBuffer, len, TRUE)
                /\ pTxBuffer' = Drop(pTxBuffer, len, TRUE)
           ELSE UNCHANGED <<txFifo, pTxBuffer>>
    /\ ena' = ena \ {"EMPTY"}
    /\ raw' = raw \ {"EMPTY"}
    /\ UNCHANGED <<setup, receiving, done, written, sent, posts, task>>

\* tx_start_uart_buffer and tx_fifo_insert: as much as the FIFO has room for.
TxFifoEmpty ==
    /\ "EMPTY" \in Status
    /\ Status \intersect {"FRM_ERR", "FULL", "TOUT"} = {}
    /\ LET fifo_remain == FifoLen - Len(txFifo)
           data_len == Used(pTxBuffer)
           len == IF data_len > fifo_remain THEN fifo_remain ELSE data_len
       IN  IF buff_en
           THEN /\ txFifo' = txFifo \o Peek(pTxBuffer, len, TRUE)
                /\ pTxBuffer' = Drop(pTxBuffer, len, TRUE)
                /\ ena' = IF data_len > fifo_remain THEN ena ELSE ena \ {"EMPTY"}
           ELSE /\ ena' = ena \ {"EMPTY"}
                /\ UNCHANGED <<txFifo, pTxBuffer>>
    /\ raw' = raw \ {"EMPTY"}
    /\ UNCHANGED <<setup, receiving, done, written, sent, posts, task>>

-----------------------------------------------------------------------------
(***************************************************************************)
(* The task level.  A read-modify-write of UART_INT_ENA leaves the value to  *)
(* be written in task.mask.                                                 *)
(***************************************************************************)
Goto(at, n, mask) == task' = [at |-> at, n |-> n, mask |-> mask]

\* uart_recvTask starts with a snapshot of the FIFO's length.
uart_recvTask ==
    /\ Free
    /\ posts > 0
    /\ posts' = posts - 1
    /\ Goto("drain", Len(rxFifo), {})
    /\ UNCHANGED <<setup, receiving, sending, done, raw, ena>>

\* Mutant: the task does not enable the interrupt again.
DrainOnly ==
    /\ At("drain")
    /\ ~buff_en
    /\ rxFifo' = SubSeq(rxFifo, task.n + 1, Len(rxFifo))
    /\ got' = IF task.n = 0 THEN got ELSE rxFifo[task.n]
    /\ raw' = raw \ RxCauses
    /\ task' = Idle
    /\ UNCHANGED <<setup, sending, done, pRxBuffer, accepted, ena, posts>>

\* Without buffers every byte goes to user_uart_receive.
Drain ==
    /\ At("drain")
    /\ ~buff_en
    /\ rxFifo' = SubSeq(rxFifo, task.n + 1, Len(rxFifo))
    /\ got' = IF task.n = 0 THEN got ELSE rxFifo[task.n]
    /\ raw' = raw \ RxCauses
    /\ Goto("rx_enable", 0, {})
    /\ UNCHANGED <<setup, sending, done, pRxBuffer, accepted, ena, posts>>

\* Mutant: the buffer may be filled to the last byte.
RxBuffEnqFull ==
    /\ At("drain")
    /\ buff_en
    /\ IF task.n > pRxBuffer.space
       THEN /\ task' = Idle
            /\ UNCHANGED <<rxFifo, pRxBuffer>>
       ELSE /\ rxFifo' = SubSeq(rxFifo, task.n + 1, Len(rxFifo))
            /\ pRxBuffer' = Uart_Buf_Cpy(pRxBuffer, SubSeq(rxFifo, 1, task.n))
            /\ IF pRxBuffer'.space >= FifoLen
               THEN Goto("rx_enable", 0, {})
               ELSE task' = Idle
    /\ UNCHANGED <<setup, sending, done, accepted, got, raw, ena, posts>>

\* With them the FIFO is copied, or left alone when it might not fit.
Uart_rx_buff_enq ==
    /\ At("drain")
    /\ buff_en
    /\ IF task.n >= pRxBuffer.space
       THEN /\ task' = Idle
            /\ UNCHANGED <<rxFifo, pRxBuffer>>
       ELSE /\ rxFifo' = SubSeq(rxFifo, task.n + 1, Len(rxFifo))
            /\ pRxBuffer' = Uart_Buf_Cpy(pRxBuffer, SubSeq(rxFifo, 1, task.n))
            /\ IF pRxBuffer'.space >= FifoLen
               THEN Goto("rx_enable", 0, {})
               ELSE task' = Idle
    /\ UNCHANGED <<setup, sending, done, accepted, got, raw, ena, posts>>

\* Mutant: reading never enables the interrupt again.
RxBuffDeqOnly(data_len) ==
    /\ Free
    /\ buff_en
    /\ LET len == IF data_len > Used(pRxBuffer) THEN Used(pRxBuffer) ELSE data_len
           data == Peek(pRxBuffer, len, TRUE)
       IN  /\ pRxBuffer' = Drop(pRxBuffer, len, TRUE)
           /\ got' = IF len = 0 THEN got ELSE data[len]
    /\ UNCHANGED <<setup, sending, done, rxFifo, accepted, raw, ena, posts, task>>

\* The position is wrapped only when the data lies on both sides of the end.
rx_buff_deq(data_len) ==
    /\ Free
    /\ buff_en
    /\ LET len == IF data_len > Used(pRxBuffer) THEN Used(pRxBuffer) ELSE data_len
           wraps == pRxBuffer.out > pRxBuffer.in
           data == Peek(pRxBuffer, len, wraps)
       IN  /\ pRxBuffer' = Drop(pRxBuffer, len, wraps)
           /\ got' = IF len = 0 THEN got ELSE data[len]
    /\ IF pRxBuffer'.space >= FifoLen
       THEN Goto("rx_enable", 0, {})
       ELSE task' = Idle
    /\ UNCHANGED <<setup, sending, done, rxFifo, accepted, raw, ena, posts>>

\* uart_rx_intr_enable reads the register here, and WriteEna writes it.
uart_rx_intr_enable ==
    /\ At("rx_enable")
    /\ Goto("write", 0, ena \union RxCauses)
    /\ UNCHANGED <<setup, receiving, sending, done, raw, ena, posts>>

WriteEna ==
    /\ At("write")
    /\ ena' = task.mask
    /\ task' = Idle
    /\ UNCHANGED <<setup, receiving, sending, done, raw, posts>>

\* tx_buff_enq keeps the EMPTY interrupt away from the buffer: read, write,
\* copy (all of the data or none) and read again, then WriteEna.
tx_buff_enq(data_len) ==
    /\ Free
    /\ buff_en
    /\ written + data_len <= load.tx
    /\ Goto("tx_disable", data_len, ena \ {"EMPTY"})
    /\ UNCHANGED <<setup, receiving, sending, done, raw, ena, posts>>

TxDisable ==
    /\ At("tx_disable")
    /\ ena' = task.mask
    /\ Goto("tx_copy", task.n, {})
    /\ UNCHANGED <<setup, receiving, sending, done, raw, posts>>

TxCopy ==
    /\ At("tx_copy")
    /\ IF task.n <= pTxBuffer.space
       THEN /\ pTxBuffer' = Uart_Buf_Cpy(pTxBuffer, [k \in 1 .. task.n |-> written + k])
            /\ written' = written + task.n
       ELSE UNCHANGED <<pTxBuffer, written>>
    /\ Goto("write", 0, ena \union {"EMPTY"})
    /\ UNCHANGED <<setup, receiving, done, txFifo, sent, raw, ena, posts>>

\* os_printf and uart0_sendStr put each byte (two for a line feed, none for a
\* return) into the FIFO themselves: uart_tx_one_char waits for room,
\* uart_tx_one_char_no_wait skips the byte.  In both the handler may run
\* between the look at the FIFO and the write.
uart_tx_one_char(waits) ==
    /\ Free
    /\ direct < load.direct
    /\ \/ /\ Len(txFifo) < DirectLimit
          /\ Goto("put", 0, {})
          /\ direct' = direct + 1
       \/ /\ Len(txFifo) >= DirectLimit
          /\ ~waits
          /\ direct' = direct + 1
          /\ task' = Idle
    /\ UNCHANGED <<setup, receiving, sending, raw, ena, posts, resets, noise>>

Put ==
    /\ At("put")
    /\ txFifo' = IF Len(txFifo) < FifoLen THEN Append(txFifo, Direct) ELSE txFifo
    /\ task' = Idle
    /\ UNCHANGED <<setup, receiving, done, pTxBuffer, written, sent, raw, ena, posts>>

\* UART_ResetFifo: what the FIFOs hold is discarded.
UART_ResetFifo ==
    /\ Free
    /\ resets < load.reset
    /\ rxFifo' = <<>> /\ txFifo' = <<>>
    /\ accepted' = accepted - Len(rxFifo)
    /\ sent' = written - Used(pTxBuffer)
    /\ resets' = resets + 1
    /\ UNCHANGED <<setup, pRxBuffer, got, pTxBuffer, written, raw, ena, posts, task, direct, noise>>

\* UART_ClearIntrStatus and UART_SetIntrEna, called by the application.
UART_ClearIntrStatus(mask) ==
    /\ Free
    /\ resets < load.reset
    /\ raw' = raw \ mask
    /\ resets' = resets + 1
    /\ UNCHANGED <<setup, receiving, sending, direct, noise, ena, posts, task>>

UART_SetIntrEna(mask) ==
    /\ Free
    /\ Goto("write", 0, ena \union mask)
    /\ UNCHANGED <<setup, receiving, sending, done, raw, ena, posts>>

-----------------------------------------------------------------------------
Handler == FrameError \/ Received \/ TxFifoEmpty \/ Overflow

\* What runs on, once begun, without being called again.
Continue ==
    \/ Drain \/ Uart_rx_buff_enq \/ uart_rx_intr_enable \/ WriteEna
    \/ TxDisable \/ TxCopy \/ Put

Next ==
    \/ Arrive \/ Shift \/ \E c \in Causes : Latch(c)
    \/ Handler
    \/ uart_recvTask \/ Continue
    \/ \E n \in 1 .. MaxChunk : rx_buff_deq(n) \/ tx_buff_enq(n)
    \/ \E waits \in BOOLEAN : uart_tx_one_char(waits)
    \/ uart_reattach \/ UART_ResetFifo
    \/ \E c \in Causes : UART_ClearIntrStatus({c})
    \/ \E mask \in {RxCauses, {"EMPTY"}} : UART_SetIntrEna(mask)

(***************************************************************************)
(* The hardware and the handler go on; the scheduler runs a queued task       *)
(* between two callbacks of the application; and with UART_BUFF_EN the        *)
(* application reads the buffer again and again, as the timer of              *)
(* uart_test_rx does.                                                        *)
(***************************************************************************)
Fairness ==
    /\ WF_vars(Shift)
    /\ WF_vars(Latch("TOUT")) /\ WF_vars(Latch("EMPTY"))
    /\ WF_vars(Handler) /\ WF_vars(Continue)
    /\ SF_vars(uart_recvTask)
    /\ SF_vars(rx_buff_deq(MaxChunk))

Spec == Init /\ [][Next]_vars /\ Fairness

-----------------------------------------------------------------------------
Bytes(a, b) == [k \in 1 .. b - a |-> a + k]

\* No byte accepted from the line or by tx_buff_enq is lost, duplicated or
\* reordered on its way through FIFO, ring buffer and FIFO, whatever the
\* handler interrupts and however the positions wrap; bytes printed directly
\* only come in between: the others are all there, and in order.
NothingLost ==
    LET copied == written - Used(pTxBuffer)
    IN  /\ Content(pRxBuffer) \o rxFifo = Bytes(got, accepted)
        /\ Content(pTxBuffer) = Bytes(copied, written)
        /\ sent <= copied
        /\ \A c \in sent + 1 .. copied : \E k \in DOMAIN txFifo : txFifo[k] = c
        /\ \A k \in DOMAIN txFifo : txFifo[k] # Direct =>
              /\ txFifo[k] \in sent + 1 .. copied
              /\ \A j \in 1 .. k - 1 : txFifo[j] < txFifo[k]

\* While the receive interrupt is disabled somebody is going to enable it:
\* an event is queued, the task is at work, or the buffer is so full that the
\* next rx_buff_deq does.  It holds although posts may fail and the handler's
\* change of UART_INT_ENA may be overwritten.
ReceptionArmed ==
    \/ RxCauses \subseteq ena
    \/ posts > 0
    \/ task.at \in {"drain", "rx_enable"}
    \/ task.at = "write" /\ RxCauses \subseteq task.mask
    \/ buff_en /\ pRxBuffer.space <= FifoLen

\* When the line goes quiet everything received is handed on.
ReceivedIsDelivered == []<>(got = accepted)

\* What tx_buff_enq took is sent: the handler never leaves bytes behind with
\* the EMPTY interrupt disabled.
WrittenIsSent == []<>(sent = written)
=============================================================================
