------------------------------ MODULE UartProofs ------------------------------
(***************************************************************************)
(* ReceptionArmed and NothingLost hold in every behaviour of Uart, for every *)
(* length of the FIFO, the buffers, the chunks and the task's queue.         *)
(*                                                                         *)
(* A value read from UART_INT_ENA and not yet written back may put the       *)
(* receive causes in, but never takes them out of a register that still has  *)
(* them (NoStaleDisable): that is why the handler may change the register in *)
(* between.  And what the task finds to copy is never longer than the FIFO,  *)
(* so a task that gives up leaves less room in the buffer than rx_buff_deq   *)
(* enables the interrupt at.                                               *)
(*                                                                         *)
(* For NothingLost, Holding says at which positions a ring buffer has which  *)
(* bytes; CopyIn and TakeOut are what the code's copying loops do to it, and *)
(* RxInv and TxInv join the buffers to the FIFOs.                            *)
(***************************************************************************)
EXTENDS Uart, TLAPS

TaskPlaces == {"idle", "drain", "rx_enable", "write", "tx_disable", "tx_copy", "put"}

UartTypes ==
    /\ posts \in Nat
    /\ accepted \in Int
    /\ rxFifo \in Seq(Int) /\ Len(rxFifo) <= FifoLen
    /\ "space" \in DOMAIN pRxBuffer /\ pRxBuffer.space \in Int
    /\ task \in [at : TaskPlaces, n : Nat, mask : SUBSET Causes]
    /\ ena \subseteq Causes

Snapshot == task.at = "drain" => task.n <= Len(rxFifo)

NoStaleDisable ==
    task.at \in {"write", "tx_disable"} /\ ~(RxCauses \subseteq task.mask)
        => ~(RxCauses \subseteq ena)

UartInv == UartTypes /\ Snapshot /\ NoStaleDisable /\ ReceptionArmed

-----------------------------------------------------------------------------
LEMMA Lengths == /\ FifoLen \in Nat /\ FifoLen > 0
                 /\ QueueLen \in Nat /\ QueueLen > 0
                 /\ BuffSize \in Nat /\ BuffSize >= FifoLen
                 /\ MaxChunk \in Nat
  BY UartAssumption

LEMMA BufferInit == /\ "space" \in DOMAIN Uart_Buf_Init
                    /\ Uart_Buf_Init.space = BuffSize
  BY DEF Uart_Buf_Init

LEMMA CpySpace ==
  ASSUME NEW b, NEW data, "space" \in DOMAIN b
  PROVE  /\ "space" \in DOMAIN Uart_Buf_Cpy(b, data)
         /\ Uart_Buf_Cpy(b, data).space = b.space - Len(data)
  BY DEF Uart_Buf_Cpy

LEMMA DropSpace ==
  ASSUME NEW b, NEW n, NEW wraps, "space" \in DOMAIN b
  PROVE  /\ "space" \in DOMAIN Drop(b, n, wraps)
         /\ Drop(b, n, wraps).space = b.space + n
  BY DEF Drop

\* What is left of a FIFO whose first n bytes were read, and what was read.
LEMMA Rest ==
  ASSUME NEW s \in Seq(Int), NEW n \in Nat, n <= Len(s)
  PROVE  /\ SubSeq(s, n + 1, Len(s)) \in Seq(Int)
         /\ Len(SubSeq(s, n + 1, Len(s))) = Len(s) - n
         /\ Len(SubSeq(s, 1, n)) = n
  OBVIOUS

LEMMA UartInvInit == Init => UartInv
  BY Lengths, BufferInit
     DEF Init, UartInv, UartTypes, Snapshot, NoStaleDisable, ReceptionArmed,
         TaskPlaces, Idle, uart_config, RxCauses, Causes

-----------------------------------------------------------------------------
\* The parts of the state the invariant does not speak of.
LEMMA UartInvSame ==
  ASSUME UartInv,
         UNCHANGED <<rxFifo, pRxBuffer, accepted, ena, posts, task, buff_en>>
  PROVE  UartInv'
  BY DEF UartInv, UartTypes, Snapshot, NoStaleDisable, ReceptionArmed

LEMMA UartInvHardware ==
  ASSUME UartInv, Arrive
  PROVE  UartInv'
<1>1. /\ accepted' \in Int /\ rxFifo' \in Seq(Int)
      /\ Len(rxFifo') <= FifoLen /\ Len(rxFifo') >= Len(rxFifo)
  <2>1. CASE Len(rxFifo) < FifoLen
    <3>1. rxFifo' = Append(rxFifo, accepted + 1) /\ accepted' = accepted + 1
      BY <2>1 DEF Arrive
    <3>2. rxFifo \in Seq(Int) /\ accepted \in Int
      BY DEF UartInv, UartTypes
    <3>3. QED
      BY <2>1, <3>1, <3>2, Lengths
  <2>2. CASE ~(Len(rxFifo) < FifoLen)
    BY <2>2 DEF Arrive, UartInv, UartTypes
  <2>3. QED
    BY <2>1, <2>2
<1>2. QED
  BY <1>1 DEF UartInv, UartTypes, Snapshot, NoStaleDisable, ReceptionArmed,
              Arrive, setup

LEMMA UartInvReceived ==
  ASSUME UartInv, Received
  PROVE  UartInv'
<1>1. posts' \in Nat /\ posts' > 0
  BY Lengths DEF UartInv, UartTypes, Received
<1>2. /\ ena' = ena \ RxCauses
      /\ UNCHANGED <<rxFifo, pRxBuffer, accepted, task, buff_en>>
  BY DEF Received, setup, receiving
<1>3. ~(RxCauses \subseteq ena')
  BY <1>2 DEF RxCauses
<1>4. QED
  BY <1>1, <1>2, <1>3
     DEF UartInv, UartTypes, Snapshot, NoStaleDisable, ReceptionArmed

\* The EMPTY interrupt is none of the receive causes.
LEMMA UartInvEmpty ==
  ASSUME UartInv, TxFifoEmpty
  PROVE  UartInv'
<1>1. /\ ena' = ena \/ ena' = ena \ {"EMPTY"}
      /\ UNCHANGED <<rxFifo, pRxBuffer, accepted, posts, task, buff_en>>
  BY DEF TxFifoEmpty, setup, receiving
<1>2. /\ ena' \subseteq Causes
      /\ RxCauses \subseteq ena' <=> RxCauses \subseteq ena
  BY <1>1 DEF RxCauses, UartInv, UartTypes
<1>3. QED
  BY <1>1, <1>2 DEF UartInv, UartTypes, Snapshot, NoStaleDisable, ReceptionArmed

LEMMA UartInvRecvTask ==
  ASSUME UartInv, uart_recvTask
  PROVE  UartInv'
<1>1. /\ posts' = posts - 1 /\ posts > 0
      /\ task' = [at |-> "drain", n |-> Len(rxFifo), mask |-> {}]
      /\ UNCHANGED <<rxFifo, pRxBuffer, accepted, ena, buff_en>>
  BY DEF uart_recvTask, Goto, setup, receiving
<1>2. Len(rxFifo) \in Nat
  BY DEF UartInv, UartTypes
<1>3. QED
  BY <1>1, <1>2 DEF UartInv, UartTypes, Snapshot, NoStaleDisable, ReceptionArmed,
                    TaskPlaces

LEMMA UartInvDrain ==
  ASSUME UartInv, Drain
  PROVE  UartInv'
<1>1. /\ task.at = "drain"
      /\ rxFifo' = SubSeq(rxFifo, task.n + 1, Len(rxFifo))
      /\ task' = [at |-> "rx_enable", n |-> 0, mask |-> {}]
      /\ UNCHANGED <<pRxBuffer, accepted, ena, posts, buff_en>>
  BY DEF Drain, At, Goto, setup
<1>2. rxFifo' \in Seq(Int) /\ Len(rxFifo') <= FifoLen
  BY <1>1, Rest, Lengths DEF UartInv, UartTypes, Snapshot
<1>3. QED
  BY <1>1, <1>2 DEF UartInv, UartTypes, Snapshot, NoStaleDisable, ReceptionArmed,
                    TaskPlaces

LEMMA UartInvEnq ==
  ASSUME UartInv, Uart_rx_buff_enq
  PROVE  UartInv'
<1>1. /\ task.at = "drain" /\ task.n \in Nat /\ buff_en
      /\ task.n <= Len(rxFifo) /\ Len(rxFifo) \in Nat /\ Len(rxFifo) <= FifoLen
      /\ rxFifo \in Seq(Int)
  BY DEF UartInv, UartTypes, Snapshot, Uart_rx_buff_enq, At
<1>2. UNCHANGED <<accepted, ena, posts, buff_en>>
  BY DEF Uart_rx_buff_enq, setup
<1>3. CASE task.n >= pRxBuffer.space
  <2>1. task' = Idle /\ UNCHANGED <<rxFifo, pRxBuffer>>
    BY <1>3 DEF Uart_rx_buff_enq
  <2>2. pRxBuffer'.space <= FifoLen
    BY <1>1, <1>3, <2>1, Lengths DEF UartInv, UartTypes
  <2>3. QED
    BY <1>1, <1>2, <2>1, <2>2
       DEF UartInv, UartTypes, Snapshot, NoStaleDisable, ReceptionArmed,
           TaskPlaces, Idle
<1>4. CASE ~(task.n >= pRxBuffer.space)
  <2>1. /\ rxFifo' = SubSeq(rxFifo, task.n + 1, Len(rxFifo))
        /\ pRxBuffer' = Uart_Buf_Cpy(pRxBuffer, SubSeq(rxFifo, 1, task.n))
        /\ IF pRxBuffer'.space >= FifoLen
           THEN task' = [at |-> "rx_enable", n |-> 0, mask |-> {}]
           ELSE task' = Idle
    BY <1>4 DEF Uart_rx_buff_enq, Goto
  <2>2. rxFifo' \in Seq(Int) /\ Len(rxFifo') <= FifoLen
    BY <1>1, <2>1, Rest, Lengths
  <2>3. "space" \in DOMAIN pRxBuffer' /\ pRxBuffer'.space \in Int
    BY <1>1, <2>1, CpySpace, Rest DEF UartInv, UartTypes
  <2>4. task'.at = "rx_enable" \/ pRxBuffer'.space <= FifoLen
    BY <2>1, <2>3, Lengths
  <2>5. QED
    BY <1>1, <1>2, <2>1, <2>2, <2>3, <2>4, SMTT(30)
       DEF UartInv, UartTypes, Snapshot, NoStaleDisable, ReceptionArmed,
           TaskPlaces, Idle
<1>5. QED
  BY <1>3, <1>4

LEMMA UartInvDeq ==
  ASSUME UartInv, NEW data_len \in Nat, rx_buff_deq(data_len)
  PROVE  UartInv'
<1> DEFINE len == IF data_len > Used(pRxBuffer) THEN Used(pRxBuffer) ELSE data_len
<1>1. /\ buff_en /\ task = Idle
      /\ UNCHANGED <<rxFifo, accepted, ena, posts, buff_en>>
      /\ pRxBuffer' = Drop(pRxBuffer, len, pRxBuffer.out > pRxBuffer.in)
      /\ IF pRxBuffer'.space >= FifoLen
         THEN task' = [at |-> "rx_enable", n |-> 0, mask |-> {}]
         ELSE task' = Idle
  BY DEF rx_buff_deq, Free, Goto, setup
<1>2. len \in Int
  BY Lengths DEF UartInv, UartTypes, Used
<1>3. "space" \in DOMAIN pRxBuffer' /\ pRxBuffer'.space = pRxBuffer.space + len
  <2> HIDE DEF len
  <2>1. QED
    BY <1>1, DropSpace DEF UartInv, UartTypes
<1> HIDE DEF len
<1>4. pRxBuffer'.space \in Int
  BY <1>2, <1>3 DEF UartInv, UartTypes
<1>5. task'.at = "rx_enable" \/ pRxBuffer'.space <= FifoLen
  BY <1>1, <1>4, Lengths
<1>6. QED
  BY <1>1, <1>3, <1>4, <1>5
     DEF UartInv, UartTypes, Snapshot, NoStaleDisable, ReceptionArmed,
         TaskPlaces, Idle

\* A write of UART_INT_ENA begins with a read of it.
LEMMA UartInvRead ==
  ASSUME UartInv, NEW at \in {"write", "tx_disable"}, NEW n \in Nat, NEW mask,
         mask \subseteq Causes,
         RxCauses \subseteq ena => RxCauses \subseteq mask,
         task.at = "rx_enable" => RxCauses \subseteq mask /\ at = "write",
         task.at \in {"idle", "rx_enable", "tx_copy"},
         task' = [at |-> at, n |-> n, mask |-> mask],
         UNCHANGED <<rxFifo, pRxBuffer, accepted, ena, posts, buff_en>>
  PROVE  UartInv'
  BY DEF UartInv, UartTypes, Snapshot, NoStaleDisable, ReceptionArmed, TaskPlaces

LEMMA UartInvWrite ==
  ASSUME UartInv, NEW n \in Nat, NEW at \in {"idle", "tx_copy"},
         task.at \in {"write", "tx_disable"},
         task' = [at |-> at, n |-> n, mask |-> {}],
         ena' = task.mask,
         UNCHANGED <<rxFifo, pRxBuffer, accepted, posts, buff_en>>
  PROVE  UartInv'
  BY DEF UartInv, UartTypes, Snapshot, NoStaleDisable, ReceptionArmed, TaskPlaces

\* A step of the task level that only moves on, away from the registers.
LEMMA UartInvMove ==
  ASSUME UartInv, task.at \in {"idle", "put"},
         task' \in {Idle, [at |-> "put", n |-> 0, mask |-> {}]},
         UNCHANGED <<rxFifo, pRxBuffer, accepted, ena, posts, buff_en>>
  PROVE  UartInv'
  BY DEF UartInv, UartTypes, Snapshot, NoStaleDisable, ReceptionArmed, TaskPlaces,
         Idle

LEMMA UartInvReset ==
  ASSUME UartInv, uart_reattach \/ UART_ResetFifo
  PROVE  UartInv'
<1>1. CASE uart_reattach
  <2>1. /\ rxFifo' = <<>> /\ pRxBuffer' = Uart_Buf_Init
        /\ ena' = ena \union {"TOUT", "FRM_ERR"} \union {"FULL", "OVF"}
        /\ posts' \in {0, posts}
        /\ task = Idle
        /\ UNCHANGED <<accepted, task>>
    BY <1>1 DEF uart_reattach, uart_config, Free
  <2>2. RxCauses \subseteq ena' /\ ena' \subseteq Causes
    BY <2>1 DEF UartInv, UartTypes, RxCauses, Causes
  <2>3. QED
    BY <2>1, <2>2, BufferInit, Lengths
       DEF UartInv, UartTypes, Snapshot, NoStaleDisable, ReceptionArmed, Idle
<1>2. CASE UART_ResetFifo
  <2>1. /\ rxFifo' = <<>> /\ accepted' = accepted - Len(rxFifo)
        /\ task = Idle
        /\ UNCHANGED <<pRxBuffer, ena, posts, task, buff_en>>
    BY <1>2 DEF UART_ResetFifo, Free, setup
  <2>2. accepted' \in Int
    BY <2>1 DEF UartInv, UartTypes
  <2>3. QED
    BY <2>1, <2>2, Lengths
       DEF UartInv, UartTypes, Snapshot, NoStaleDisable, ReceptionArmed, Idle
<1>3. QED
  BY <1>1, <1>2

-----------------------------------------------------------------------------
LEMMA UartInvNext == UartInv /\ [Next]_vars => UartInv'
<1> SUFFICES ASSUME UartInv, [Next]_vars
             PROVE  UartInv'
  OBVIOUS
<1>1. CASE Shift \/ (\E c \in Causes : Latch(c)) \/ FrameError \/ Overflow
           \/ \E c \in Causes : UART_ClearIntrStatus({c})
  BY <1>1, UartInvSame DEF Shift, Latch, FrameError, Overflow,
     UART_ClearIntrStatus, setup, receiving
<1>2. CASE Arrive
  BY <1>2, UartInvHardware
<1>3. CASE Received
  BY <1>3, UartInvReceived
<1>4. CASE TxFifoEmpty
  BY <1>4, UartInvEmpty
<1>5. CASE uart_recvTask
  BY <1>5, UartInvRecvTask
<1>6. CASE Drain
  BY <1>6, UartInvDrain
<1>7. CASE Uart_rx_buff_enq
  BY <1>7, UartInvEnq
<1>8. CASE uart_rx_intr_enable
  <2> DEFINE mask == ena \union RxCauses
  <2>1. /\ mask \subseteq Causes /\ RxCauses \subseteq mask
    BY DEF UartInv, UartTypes, RxCauses, Causes
  <2>2. /\ task.at = "rx_enable"
        /\ task' = [at |-> "write", n |-> 0, mask |-> mask]
        /\ UNCHANGED <<rxFifo, pRxBuffer, accepted, ena, posts, buff_en>>
    BY <1>8 DEF uart_rx_intr_enable, At, Goto, setup, receiving
  <2> HIDE DEF mask
  <2>3. QED
    BY <2>1, <2>2, UartInvRead
<1>9. CASE WriteEna
  BY <1>9, UartInvWrite DEF WriteEna, At, Idle, setup, receiving
<1>10. CASE TxDisable
  <2>1. task.n \in Nat
    BY DEF UartInv, UartTypes
  <2>2. QED
    BY <1>10, <2>1, UartInvWrite DEF TxDisable, At, Goto, setup, receiving
<1>11. CASE TxCopy
  <2> DEFINE mask == ena \union {"EMPTY"}
  <2>1. /\ mask \subseteq Causes
        /\ RxCauses \subseteq ena => RxCauses \subseteq mask
    BY DEF UartInv, UartTypes, Causes
  <2>2. /\ task.at = "tx_copy"
        /\ task' = [at |-> "write", n |-> 0, mask |-> mask]
        /\ UNCHANGED <<rxFifo, pRxBuffer, accepted, ena, posts, buff_en>>
    BY <1>11 DEF TxCopy, At, Goto, setup, receiving
  <2> HIDE DEF mask
  <2>3. QED
    BY <2>1, <2>2, UartInvRead
<1>12. CASE Put
  BY <1>12, UartInvMove DEF Put, At, setup, receiving
<1>13. CASE \E n \in 1 .. MaxChunk : rx_buff_deq(n)
  BY <1>13, UartInvDeq, Lengths
<1>14. CASE \E n \in 1 .. MaxChunk : tx_buff_enq(n)
  <2> DEFINE mask == ena \ {"EMPTY"}
  <2>1. /\ mask \subseteq Causes
        /\ RxCauses \subseteq ena => RxCauses \subseteq mask
    BY DEF UartInv, UartTypes, RxCauses
  <2>2. PICK n \in 1 .. MaxChunk : tx_buff_enq(n)
    BY <1>14
  <2>3. /\ task.at = "idle" /\ n \in Nat
        /\ task' = [at |-> "tx_disable", n |-> n, mask |-> mask]
        /\ UNCHANGED <<rxFifo, pRxBuffer, accepted, ena, posts, buff_en>>
    BY <2>2, Lengths DEF tx_buff_enq, Free, Idle, Goto, setup, receiving
  <2> HIDE DEF mask
  <2>4. QED
    BY <2>1, <2>3, UartInvRead
<1>15. CASE \E waits \in BOOLEAN : uart_tx_one_char(waits)
  BY <1>15, UartInvMove DEF uart_tx_one_char, Free, Idle, Goto, setup, receiving
<1>16. CASE uart_reattach \/ UART_ResetFifo
  BY <1>16, UartInvReset
<1>17. CASE \E mask \in {RxCauses, {"EMPTY"}} : UART_SetIntrEna(mask)
  <2>1. PICK set \in {RxCauses, {"EMPTY"}} : UART_SetIntrEna(set)
    BY <1>17
  <2> DEFINE mask == ena \union set
  <2>2. /\ mask \subseteq Causes
        /\ RxCauses \subseteq ena => RxCauses \subseteq mask
    BY <2>1 DEF UartInv, UartTypes, RxCauses, Causes
  <2>3. /\ task.at = "idle"
        /\ task' = [at |-> "write", n |-> 0, mask |-> mask]
        /\ UNCHANGED <<rxFifo, pRxBuffer, accepted, ena, posts, buff_en>>
    BY <2>1 DEF UART_SetIntrEna, Free, Idle, Goto, setup, receiving
  <2> HIDE DEF mask
  <2>4. QED
    BY <2>2, <2>3, UartInvRead
<1>18. CASE UNCHANGED vars
  BY <1>18, UartInvSame DEF vars, setup, receiving
<1>19. QED
  BY <1>1, <1>2, <1>3, <1>4, <1>5, <1>6, <1>7, <1>8, <1>9, <1>10, <1>11, <1>12,
     <1>13, <1>14, <1>15, <1>16, <1>17, <1>18
     DEF Next, Handler, Continue

\* The receive interrupt is never left disabled with nobody to enable it: the
\* handler may overwrite or be overwritten by the read-modify-writes of
\* UART_INT_ENA, and its post may be refused (uart.c:237-271, 648-663).
THEOREM ReceptionStaysArmed == Spec => []ReceptionArmed
<1>1. UartInv => ReceptionArmed
  BY DEF UartInv
<1>2. QED
  BY UartInvInit, UartInvNext, <1>1, PTL DEF Spec

-----------------------------------------------------------------------------
(***************************************************************************)
(* The ring buffer as a queue: Holding says in which cells the bytes after   *)
(* number g are.                                                           *)
(***************************************************************************)
Place(b, k) == (b.out + k - 1) % BuffSize

Buffers == [in : Offsets, out : Offsets, space : 0 .. BuffSize, cell : [Offsets -> Int]]

Holding(b, g) ==
    /\ b \in Buffers
    /\ b.in = (b.out + Used(b)) % BuffSize
    /\ \A k \in 1 .. Used(b) : b.cell[Place(b, k)] = g + k

\* A position within the two turns that the code ever looks at.
Around(x) == IF x < BuffSize THEN x ELSE x - BuffSize

LEMMA TwoTurns ==
    ASSUME NEW x \in Nat, x < 2 * BuffSize
    PROVE  x % BuffSize = Around(x) /\ Around(x) \in Int
                /\ 0 <= Around(x) /\ Around(x) < BuffSize
<1> DEFINE q == x \div BuffSize
           m == x % BuffSize
           B == BuffSize
<1>1. B \in Nat /\ B > 0
  BY Lengths
<1>2. q \in Nat /\ m \in Nat /\ m < B /\ x = B * q + m
  BY <1>1
<1> HIDE DEF q, m, B
<1>3. q = 0 \/ q = 1 \/ q >= 2
  BY <1>2
<1>4. ~(q >= 2)
  <2>1. q >= 2 => B * (q - 2) >= 0 /\ B * (q - 2) = B * q - 2 * B
    BY <1>1, <1>2
  <2>2. x < 2 * B
    BY DEF B
  <2> QED
    BY <1>1, <1>2, <2>1, <2>2
<1>5. B * 0 = 0 /\ B * 1 = B
  BY <1>1
<1>6. m = (IF x < B THEN x ELSE x - B)
  BY <1>1, <1>2, <1>3, <1>4, <1>5
<1> QED
  BY <1>1, <1>2, <1>6 DEF m, B, Around

\* No two of BuffSize successive positions are the same.
LEMMA AroundOnce ==
    ASSUME NEW o \in Int, 0 <= o, o < BuffSize,
           NEW j \in Int, 1 <= j, j <= BuffSize, NEW k \in Int, 1 <= k, k <= BuffSize,
           Around(o + j - 1) = Around(o + k - 1)
    PROVE  j = k
  BY Lengths DEF Around

LEMMA OffsetIs == \A x : x \in Offsets <=> x \in Int /\ 0 <= x /\ x < BuffSize
  BY Lengths DEF Offsets

LEMMA BufferIs ==
    ASSUME NEW b \in Buffers
    PROVE  /\ b.in \in Int /\ 0 <= b.in /\ b.in < BuffSize
           /\ b.out \in Int /\ 0 <= b.out /\ b.out < BuffSize
           /\ b.space \in Int /\ 0 <= b.space /\ b.space <= BuffSize
           /\ Used(b) = BuffSize - b.space
           /\ b.cell \in [Offsets -> Int]
<1>1. b.in \in Offsets /\ b.out \in Offsets /\ b.space \in 0 .. BuffSize
      /\ b.cell \in [Offsets -> Int]
  BY DEF Buffers
<1> QED
  BY <1>1, OffsetIs, Lengths DEF Used

\* Where the k-th byte of a buffer is.
LEMMA PlaceIs ==
    ASSUME NEW b \in Buffers, NEW k \in Int, 1 <= k, k <= BuffSize
    PROVE  Place(b, k) = Around(b.out + k - 1) /\ Place(b, k) \in Offsets
<1>1. b.out + k - 1 \in Nat /\ b.out + k - 1 < 2 * BuffSize
  BY BufferIs, Lengths
<1> QED
  BY <1>1, TwoTurns, OffsetIs DEF Place

\* A buffer that holds the bytes after g has them as its content.
LEMMA ContentIs ==
    ASSUME NEW b, NEW g \in Int, Holding(b, g)
    PROVE  Content(b) = Bytes(g, g + Used(b)) /\ Used(b) \in Nat
<1>1. b \in Buffers
  BY DEF Holding
<1>2. Used(b) \in Nat /\ Used(b) <= BuffSize
  BY <1>1, BufferIs, Lengths
<1>3. ASSUME NEW k \in 1 .. Used(b)
      PROVE  (b.out + k - 1) % BuffSize \in Offsets
             /\ b.cell[(b.out + k - 1) % BuffSize] = g + k
  <2>1. k \in Int /\ 1 <= k /\ k <= BuffSize
    BY <1>2, Lengths
  <2> QED
    BY <1>1, <2>1, PlaceIs DEF Holding, Place
<1>4. Content(b) = [k \in 1 .. Used(b) |->
                      IF (b.out + k - 1) % BuffSize \in Offsets
                      THEN b.cell[(b.out + k - 1) % BuffSize] ELSE Garbage]
  BY DEF Content, Peek, Wrapped
<1>5. g + Used(b) - g = Used(b)
  BY <1>2
<1> QED
  BY <1>2, <1>3, <1>4, <1>5 DEF Bytes

\* Copying data in: the bytes that follow come to lie behind the others.
LEMMA CopyIn ==
    ASSUME NEW b, NEW g \in Int, Holding(b, g), NEW data \in Seq(Int),
           Len(data) <= b.space,
           \A k \in 1 .. Len(data) : data[k] = g + Used(b) + k
    PROVE  /\ Holding(Uart_Buf_Cpy(b, data), g)
           /\ Uart_Buf_Cpy(b, data).space = b.space - Len(data)
           /\ Used(Uart_Buf_Cpy(b, data)) = Used(b) + Len(data)
<1> DEFINE n == Len(data)
           c == Uart_Buf_Cpy(b, data)
           U == Used(b)
           B == BuffSize
           In == b.in
           Out == b.out
           S == b.space
           Pos(k) == (In + k - 1) % B
<1>1. b \in Buffers /\ In = (Out + U) % B /\ \A k \in 1 .. U : b.cell[Place(b, k)] = g + k
  BY DEF Holding
<1>2. /\ In \in Int /\ 0 <= In /\ In < B /\ Out \in Int /\ 0 <= Out /\ Out < B
      /\ S \in Int /\ 0 <= S /\ S <= B /\ U = B - S
  BY <1>1, BufferIs
<1>3. n \in Nat /\ n <= S /\ B \in Nat /\ B > 0
  BY Lengths
<1>4. b.cell \in [Offsets -> Int]
  BY <1>1, BufferIs
<1>5. /\ c.in = (In + n) % B
      /\ c.space = S - n
      /\ c.out = Out
      /\ c.cell = [i \in Offsets |->
                     IF \E k \in 1 .. n : Pos(k) = i
                     THEN data[CHOOSE k \in 1 .. n : Pos(k) = i]
                     ELSE b.cell[i]]
  <2>1. b = [in |-> b.in, out |-> b.out, space |-> b.space, cell |-> b.cell]
    BY <1>1 DEF Buffers
  <2> QED
    BY <2>1 DEF Uart_Buf_Cpy
<1>6. ASSUME c.in \in Offsets, c.space \in 0 .. B, c.cell \in [Offsets -> Int]
       PROVE  c \in Buffers
  BY <1>1, <1>5, <1>6 DEF Uart_Buf_Cpy, Buffers
<1>7. B = BuffSize /\ U = Used(b) /\ Out = b.out /\ n = Len(data)
  OBVIOUS
<1>8. \A k : Pos(k) = (In + k - 1) % BuffSize
  OBVIOUS
<1> HIDE DEF n, c, U, B, In, Out, S, Pos
<1>9. In = Around(Out + U)
  <2>1. Out + U \in Nat /\ Out + U < 2 * B
    BY <1>2, <1>3
  <2> QED
    BY <1>1, <1>7, <2>1, TwoTurns
<1>10. \A k \in 1 .. n : Pos(k) = Around(In + k - 1) /\ Pos(k) \in Offsets
  <2>1. ASSUME NEW k \in 1 .. n
        PROVE  Pos(k) = Around(In + k - 1) /\ Pos(k) \in Offsets
    <3>1. In + k - 1 \in Nat /\ In + k - 1 < 2 * B
      BY <1>2, <1>3
    <3> QED
      BY <1>7, <1>8, <3>1, TwoTurns, OffsetIs
  <2> QED
    BY <2>1
<1>11. c.in = Around(In + n) /\ c.in \in Offsets
  <2>1. In + n \in Nat /\ In + n < 2 * B
    BY <1>2, <1>3
  <2> QED
    BY <1>5, <1>7, <2>1, TwoTurns, OffsetIs
<1>12. ASSUME NEW k \in Int, 0 <= k, k <= n
       PROVE  Around(In + k) = Around(Out + U + k)
  <2>1. U \in Int /\ 0 <= U /\ U + k <= B
    BY <1>2, <1>3, <1>12
  <2>2. In = IF Out + U < B THEN Out + U ELSE Out + U - B
    BY <1>2, <1>9, <1>3 DEF Around, B
  <2>3. /\ Around(In + k) = IF In + k < B THEN In + k ELSE In + k - B
        /\ Around(Out + U + k) = IF Out + U + k < B THEN Out + U + k ELSE Out + U + k - B
    BY <1>2, <1>3, <1>12 DEF Around, B
  <2>4. CASE Out + U < B
    <3>1. In = Out + U
      BY <2>2, <2>4
    <3> QED
      BY <3>1
  <2>5. CASE ~(Out + U < B)
    <3>1. In + k = Out + U + k - B /\ In + k < B /\ ~(Out + U + k < B)
      BY <1>2, <1>3, <1>12, <2>1, <2>2, <2>5
    <3> QED
      BY <2>3, <3>1
  <2> QED
    BY <2>4, <2>5
<1>13. ASSUME NEW k \in 1 .. n
      PROVE  Pos(k) = Around(Out + (U + k) - 1)
  <2>1. /\ k - 1 \in Int /\ 0 <= k - 1 /\ k - 1 <= n
        /\ In + (k - 1) = In + k - 1
        /\ Out + U + (k - 1) = Out + (U + k) - 1
    BY <1>2, <1>3
  <2>2. Around(In + (k - 1)) = Around(Out + U + (k - 1))
    BY <1>12, <2>1
  <2> QED
    BY <1>10, <2>1, <2>2
<1>14. c.in = Around(Out + U + n)
  BY <1>11, <1>3, <1>12
<1>15. ASSUME NEW j \in 1 .. n, NEW k \in 1 .. n, Pos(j) = Pos(k)
      PROVE  j = k
  <2>1. /\ U + j \in Int /\ 1 <= U + j /\ U + j <= BuffSize
        /\ U + k \in Int /\ 1 <= U + k /\ U + k <= BuffSize
        /\ j \in Int /\ k \in Int
    BY <1>2, <1>3, <1>7, SMTT(30)
  <2>2. Around(Out + (U + j) - 1) = Around(Out + (U + k) - 1)
    BY <1>13, <1>15
  <2>3. U + j = U + k
    BY <1>2, <1>3, <2>1, <2>2, AroundOnce, <1>7
  <2> QED
    BY <1>2, <1>3, <2>1, <2>3
<1>16. ASSUME NEW k \in 1 .. U
       PROVE  Place(b, k) = Around(Out + k - 1) /\ Place(b, k) \in Offsets
  <2>1. k \in Int /\ 1 <= k /\ k <= BuffSize
    BY <1>2, <1>3, <1>7
  <2> QED
    BY <1>1, <1>7, <2>1, PlaceIs
<1>17. ASSUME NEW k \in 1 .. U, NEW j \in 1 .. n
       PROVE  Place(b, k) # Pos(j)
  <2>1. /\ U + j \in Int /\ 1 <= U + j /\ U + j <= BuffSize
        /\ k \in Int /\ 1 <= k /\ k <= BuffSize /\ k # U + j
    BY <1>2, <1>3, <1>7
  <2>2. Around(Out + (U + j) - 1) # Around(Out + k - 1)
    BY <1>2, <2>1, AroundOnce, <1>7
  <2> QED
    BY <1>13, <1>16, <2>2
<1> DEFINE Which(i) == CHOOSE k \in 1 .. n : Pos(k) = i
<1>18. ASSUME NEW i, NEW k \in 1 .. n, Pos(k) = i
       PROVE  Which(i) \in 1 .. n /\ Pos(Which(i)) = i /\ Which(i) = k
  <2>1. Which(i) \in 1 .. n /\ Pos(Which(i)) = i
    BY <1>18
  <2> HIDE DEF Which
  <2> QED
    BY <1>15, <1>18, <2>1
<1>19. c.cell = [i \in Offsets |->
                   IF \E k \in 1 .. n : Pos(k) = i THEN data[Which(i)] ELSE b.cell[i]]
  BY <1>5
<1> HIDE DEF Which
<1>20. ASSUME NEW i \in Offsets
       PROVE  /\ \A k \in 1 .. n : Pos(k) = i => c.cell[i] = data[k]
              /\ (\A k \in 1 .. n : Pos(k) # i) => c.cell[i] = b.cell[i]
  BY <1>18, <1>19
<1>21. c.cell \in [Offsets -> Int]
  <2>1. ASSUME NEW i \in Offsets
        PROVE  c.cell[i] \in Int
    <3>1. CASE \E k \in 1 .. n : Pos(k) = i
      <4>1. PICK k \in 1 .. n : Pos(k) = i
        BY <3>1
      <4>2. c.cell[i] = data[k] /\ data[k] \in Int
        BY <1>20, <4>1 DEF n
      <4> QED
        BY <4>2
    <3>2. CASE \A k \in 1 .. n : Pos(k) # i
      BY <1>20, <1>4, <3>2
    <3> QED
      BY <3>1, <3>2
  <2> QED
    BY <1>19, <2>1
<1>22. c.space \in 0 .. B /\ c.out \in Offsets
  BY <1>2, <1>5, <1>3, <1>7, OffsetIs
<1>23. c \in Buffers
  BY <1>11, <1>21, <1>22, <1>6
<1>24. Used(c) = U + n
  BY <1>2, <1>5, <1>3, <1>7 DEF Used
<1>25. c.in = (c.out + Used(c)) % BuffSize
  <2>1. Out + U + n \in Nat /\ Out + U + n < 2 * BuffSize
    BY <1>2, <1>3, <1>7
  <2>2. c.out + Used(c) = Out + U + n
    BY <1>2, <1>5, <1>24, <1>3
  <2> QED
    BY <1>14, <2>1, <2>2, TwoTurns
<1>26. ASSUME NEW k \in 1 .. Used(c)
       PROVE  c.cell[Place(c, k)] = g + k
  <2>1. k \in Int /\ 1 <= k /\ k <= U + n /\ k <= BuffSize
    BY <1>2, <1>24, <1>3, <1>7
  <2>2. Place(c, k) = Place(b, k) /\ Place(b, k) \in Offsets
        /\ Place(b, k) = Around(Out + k - 1)
    BY <1>1, <1>5, <1>7, <2>1, PlaceIs DEF Place
  <2>3. CASE k <= U
    <3>1. k \in 1 .. U
      BY <1>2, <1>3, <2>1, <2>3
    <3>2. c.cell[Place(b, k)] = b.cell[Place(b, k)]
      BY <1>17, <1>20, <2>2, <3>1
    <3> QED
      BY <1>1, <2>2, <3>1, <3>2
  <2>4. CASE k > U
    <3>1. PICK j \in 1 .. n : k = U + j
      <4>1. k - U \in 1 .. n /\ k = U + (k - U)
        BY <1>2, <1>3, <2>1, <2>4
      <4> QED
        BY <4>1
    <3>2. Pos(j) = Place(b, k)
      BY <1>13, <2>2, <3>1
    <3>3. c.cell[Place(b, k)] = data[j]
      BY <1>20, <2>2, <3>2
    <3>4. data[j] = g + U + j
      BY DEF n, U
    <3> QED
      BY <1>2, <1>3, <2>2, <3>1, <3>3, <3>4
  <2> QED
    BY <1>2, <1>3, <2>1, <2>3, <2>4
<1>27. Holding(c, g)
  BY <1>23, <1>25, <1>26 DEF Holding
<1> QED
  BY <1>5, <1>24, <1>27 DEF c, n, U, S

\* A turn less is the same place.
LEMMA AroundStep ==
    ASSUME NEW o \in Int, 0 <= o, o < BuffSize, NEW n \in Int, 0 <= n,
           NEW k \in Int, 0 <= k, n + k <= BuffSize
    PROVE  Around(Around(o + n) + k) = Around(o + (n + k))
<1> DEFINE a == Around(o + n)
<1>1. BuffSize \in Int /\ BuffSize > 0
  BY Lengths
<1>2. a = (IF o + n < BuffSize THEN o + n ELSE o + n - BuffSize) /\ a \in Int
  BY <1>1 DEF Around
<1> HIDE DEF a
<1>3. Around(a + k) = IF a + k < BuffSize THEN a + k ELSE a + k - BuffSize
  BY <1>1, <1>2 DEF Around
<1>4. Around(o + (n + k)) = IF o + (n + k) < BuffSize THEN o + (n + k)
                            ELSE o + (n + k) - BuffSize
  BY <1>1 DEF Around
<1>5. Around(a + k) = Around(o + (n + k))
  BY <1>1, <1>2, <1>3, <1>4
<1> QED
  BY <1>5 DEF a

\* Taking data out: they are the bytes after g, and the others stay.  A reader
\* that does not wrap may do so only while the data do not reach the end.
LEMMA TakeOut ==
    ASSUME NEW b, NEW g \in Int, Holding(b, g), NEW n \in Int, 0 <= n, n <= Used(b),
           NEW wraps \in BOOLEAN, wraps \/ (b.out <= b.in /\ b.space >= 1)
    PROVE  /\ Holding(Drop(b, n, wraps), g + n)
           /\ Drop(b, n, wraps).space = b.space + n
           /\ Used(Drop(b, n, wraps)) = Used(b) - n
           /\ Peek(b, n, wraps) = [k \in 1 .. n |-> g + k]
<1> DEFINE c == Drop(b, n, wraps)
           U == Used(b)
           In == b.in
           Out == b.out
           S == b.space
           Pos(k) == Wrapped(Out + k - 1, wraps)
           read == {Pos(k) : k \in 1 .. n}
<1>1. b \in Buffers /\ In = (Out + U) % BuffSize /\ \A k \in 1 .. U : b.cell[Place(b, k)] = g + k
  BY DEF Holding
<1>2. /\ In \in Int /\ 0 <= In /\ In < BuffSize /\ Out \in Int /\ 0 <= Out /\ Out < BuffSize
      /\ S \in Int /\ 0 <= S /\ S <= BuffSize /\ U = BuffSize - S /\ n <= U
      /\ wraps \/ (Out <= In /\ S >= 1)
      /\ BuffSize \in Nat /\ BuffSize > 0
  BY <1>1, BufferIs, Lengths
<1>3. b.cell \in [Offsets -> Int]
  BY <1>1, BufferIs
<1>4. /\ c.in = In
      /\ c.space = S + n
      /\ c.out = Wrapped(Out + n, wraps)
      /\ c.cell = [i \in Offsets |-> IF i \in read THEN Garbage ELSE b.cell[i]]
  <2>1. b = [in |-> b.in, out |-> b.out, space |-> b.space, cell |-> b.cell]
    BY <1>1 DEF Buffers
  <2> QED
    BY <2>1 DEF Drop
<1>5. ASSUME c.out \in Offsets, c.space \in 0 .. BuffSize, c.cell \in [Offsets -> Int]
      PROVE  c \in Buffers
  BY <1>1, <1>4, <1>5 DEF Drop, Buffers
<1>6. /\ \A k : Pos(k) = Wrapped(Out + k - 1, wraps)
      /\ \A i : i \in read <=> \E k \in 1 .. n : Pos(k) = i
      /\ U = Used(b) /\ Out = b.out
      /\ Peek(b, n, wraps) = [k \in 1 .. n |-> IF Pos(k) \in Offsets
                                               THEN b.cell[Pos(k)] ELSE Garbage]
  BY DEF Peek
<1> HIDE DEF c, U, In, Out, S, Pos, read
<1>7. In = Around(Out + U)
  <2>1. Out + U \in Nat /\ Out + U < 2 * BuffSize
    BY <1>2
  <2> QED
    BY <1>1, <2>1, TwoTurns
<1>8. ASSUME NEW x \in Nat, x <= Out + U, x < 2 * BuffSize, x <= Out + n
      PROVE  Wrapped(x, wraps) = Around(x) /\ Around(x) \in Offsets
  <2>1. CASE wraps
    BY <1>8, <2>1, TwoTurns, OffsetIs DEF Wrapped
  <2>2. CASE ~wraps
    <3>1. Out <= In /\ S >= 1
      BY <1>2, <2>2
    <3>2. Out + U < BuffSize
      BY <1>2, <1>7, <3>1 DEF Around
    <3>3. x < BuffSize
      BY <1>2, <1>8, <3>2
    <3>4. Around(x) = x /\ Wrapped(x, wraps) = x
      BY <2>2, <3>3 DEF Around, Wrapped
    <3> QED
      BY <1>8, <3>3, <3>4, OffsetIs
  <2> QED
    BY <2>1, <2>2
<1>9. ASSUME NEW k \in Int, 1 <= k, k <= U
      PROVE  Place(b, k) = Around(Out + k - 1) /\ Place(b, k) \in Offsets /\ k <= BuffSize
  <2>1. k <= BuffSize
    BY <1>2, <1>9
  <2> QED
    BY <1>1, <1>6, <1>9, <2>1, PlaceIs
<1>10. ASSUME NEW k \in 1 .. n
       PROVE  Pos(k) = Place(b, k) /\ Pos(k) \in Offsets
  <2>1. /\ k \in Int /\ 1 <= k /\ k <= U
        /\ Out + k - 1 \in Nat /\ Out + k - 1 <= Out + U /\ Out + k - 1 < 2 * BuffSize
        /\ Out + k - 1 <= Out + n
    BY <1>2
  <2>2. Wrapped(Out + k - 1, wraps) = Around(Out + k - 1)
    BY <1>8, <2>1
  <2> QED
    BY <1>6, <1>9, <2>1, <2>2
<1>11. c.out = Around(Out + n) /\ c.out \in Offsets
  <2>1. Out + n \in Nat /\ Out + n <= Out + U /\ Out + n < 2 * BuffSize /\ Out + n <= Out + n
    BY <1>2
  <2> QED
    BY <1>4, <1>8, <2>1
<1>12. c \in Buffers
  <2>1. c.space \in 0 .. BuffSize
    BY <1>2, <1>4
  <2>2. c.cell \in [Offsets -> Int]
    BY <1>3, <1>4 DEF Garbage
  <2> QED
    BY <1>5, <1>11, <2>1, <2>2
<1>13. Used(c) = U - n
  BY <1>2, <1>4 DEF Used
<1>14. c.in = (c.out + Used(c)) % BuffSize
  <2>1. Around(c.out + (U - n)) = Around(Out + (n + (U - n)))
    <3>1. U - n \in Int /\ 0 <= U - n /\ n + (U - n) <= BuffSize
      BY <1>2
    <3>2. Around(Around(Out + n) + (U - n)) = Around(Out + (n + (U - n)))
      BY <1>2, <3>1, AroundStep, ZenonT(60)
    <3> QED
      BY <1>11, <3>2
  <2>2. c.out + (U - n) \in Nat /\ c.out + (U - n) < 2 * BuffSize /\ n + (U - n) = U
    BY <1>2, <1>11, OffsetIs
  <2> QED
    BY <1>4, <1>7, <1>13, <2>1, <2>2, TwoTurns
<1>15. ASSUME NEW k \in 1 .. Used(c)
       PROVE  c.cell[Place(c, k)] = (g + n) + k
  <2>1. /\ k \in Int /\ 1 <= k /\ k <= BuffSize
        /\ n + k \in Int /\ 1 <= n + k /\ n + k <= U /\ n + k <= BuffSize
    BY <1>2, <1>13
  <2>2. Place(c, k) = Around(c.out + k - 1)
    BY <1>12, <2>1, PlaceIs
  <2>3. Around(c.out + (k - 1)) = Around(Out + (n + (k - 1)))
    <3>1. k - 1 \in Int /\ 0 <= k - 1 /\ n + (k - 1) <= BuffSize
      BY <1>2, <2>1
    <3>2. Around(Around(Out + n) + (k - 1)) = Around(Out + (n + (k - 1)))
      BY <1>2, <3>1, AroundStep, ZenonT(60)
    <3> QED
      BY <1>11, <3>2
  <2>4. c.out + (k - 1) = c.out + k - 1 /\ Out + (n + (k - 1)) = Out + (n + k) - 1
    BY <1>2, <1>11, <2>1, OffsetIs
  <2>5. Place(c, k) = Place(b, n + k) /\ Place(b, n + k) \in Offsets
        /\ Place(b, n + k) = Around(Out + (n + k) - 1)
    BY <1>9, <2>1, <2>2, <2>3, <2>4
  <2>6. Place(b, n + k) \notin read
    <3> SUFFICES ASSUME NEW j \in 1 .. n, Pos(j) = Place(b, n + k)
                 PROVE  FALSE
      BY <1>6
    <3>1. j \in Int /\ 1 <= j /\ j <= U /\ j <= BuffSize /\ j # n + k
      BY <1>2, <2>1
    <3>2. Pos(j) = Around(Out + j - 1)
      BY <1>9, <1>10, <3>1
    <3> QED
      BY <1>2, <2>1, <2>5, <3>1, <3>2, AroundOnce
  <2>7. c.cell[Place(c, k)] = b.cell[Place(b, n + k)]
    BY <1>4, <2>5, <2>6
  <2>8. n + k \in 1 .. U
    BY <1>2, <2>1
  <2>9. b.cell[Place(b, n + k)] = g + (n + k)
    BY <1>1, <2>8
  <2> QED
    BY <1>2, <2>1, <2>7, <2>9
<1>16. Holding(c, g + n)
  BY <1>12, <1>14, <1>15 DEF Holding
<1>17. ASSUME NEW k \in 1 .. n
       PROVE  Pos(k) \in Offsets /\ b.cell[Pos(k)] = g + k
  <2>1. k \in 1 .. U
    BY <1>2
  <2> QED
    BY <1>1, <1>10, <2>1
<1>18. Peek(b, n, wraps) = [k \in 1 .. n |-> g + k]
  BY <1>6, <1>17
<1> QED
  BY <1>4, <1>13, <1>16, <1>18 DEF c, U, S

\* A new buffer holds nothing.
LEMMA NewBuffer ==
    ASSUME NEW g \in Int
    PROVE  /\ Holding(Uart_Buf_Init, g)
           /\ Uart_Buf_Init.space = BuffSize /\ Used(Uart_Buf_Init) = 0
<1> DEFINE c == Uart_Buf_Init
<1>1. c.in = 0 /\ c.out = 0 /\ c.space = BuffSize
  BY DEF Uart_Buf_Init
<1>2. 0 \in Offsets /\ BuffSize \in 0 .. BuffSize /\ BuffSize \in Nat /\ 0 < BuffSize
  BY Lengths, OffsetIs
<1>3. c \in Buffers
  BY <1>2 DEF Uart_Buf_Init, Buffers, Garbage
<1>4. Used(c) = 0
  BY <1>1, <1>2 DEF Used
<1>5. 0 % BuffSize = 0
  BY <1>2, TwoTurns DEF Around
<1> HIDE DEF c
<1>6. c.in = (c.out + Used(c)) % BuffSize
  BY <1>1, <1>4, <1>5
<1>7. Holding(c, g)
  BY <1>3, <1>4, <1>6 DEF Holding
<1> QED
  BY <1>1, <1>4, <1>7 DEF c

-----------------------------------------------------------------------------
(***************************************************************************)
(* The way in: the bytes from got on lie in the buffer, then in the FIFO.    *)
(* The receive buffer is never full, which is what makes rx_buff_deq's way   *)
(* of wrapping right.                                                      *)
(***************************************************************************)
RxInv ==
    /\ got \in Nat /\ accepted \in Nat
    /\ Holding(pRxBuffer, got)
    /\ pRxBuffer.space >= 1
    /\ ~buff_en => Used(pRxBuffer) = 0
    /\ rxFifo \in Seq(Int)
    /\ accepted = got + Used(pRxBuffer) + Len(rxFifo)
    /\ \A k \in 1 .. Len(rxFifo) : rxFifo[k] = got + Used(pRxBuffer) + k

\* RxInv as facts about numbers.
LEMMA RxNumbers ==
    ASSUME RxInv
    PROVE  /\ Used(pRxBuffer) \in Nat /\ Used(pRxBuffer) = BuffSize - pRxBuffer.space
           /\ pRxBuffer.space \in Int /\ pRxBuffer.space <= BuffSize /\ BuffSize \in Nat
           /\ got \in Nat /\ accepted \in Nat /\ Len(rxFifo) \in Nat
           /\ accepted = got + Used(pRxBuffer) + Len(rxFifo)
<1>1. pRxBuffer \in Buffers
  BY DEF RxInv, Holding
<1> QED
  BY <1>1, BufferIs, Lengths DEF RxInv

LEMMA RxInit == Init => RxInv
<1> SUFFICES ASSUME Init PROVE RxInv
  OBVIOUS
<1>1. /\ Holding(Uart_Buf_Init, 0) /\ Uart_Buf_Init.space = BuffSize
      /\ Used(Uart_Buf_Init) = 0
  BY NewBuffer
<1> QED
  BY <1>1, Lengths DEF Init, RxInv

LEMMA RxSame ==
    ASSUME RxInv, UNCHANGED <<buff_en, receiving>>
    PROVE  RxInv'
  BY DEF RxInv, receiving

LEMMA RxArrive ==
    ASSUME RxInv, Arrive
    PROVE  RxInv'
<1>1. UNCHANGED <<buff_en, pRxBuffer, got>>
  BY DEF Arrive, setup
<1>2. CASE Len(rxFifo) < FifoLen
  <2>1. rxFifo' = Append(rxFifo, accepted + 1) /\ accepted' = accepted + 1
    BY <1>2 DEF Arrive
  <2>2. rxFifo \in Seq(Int) /\ accepted + 1 \in Int
    BY RxNumbers DEF RxInv
  <2>3. rxFifo' \in Seq(Int) /\ Len(rxFifo') = Len(rxFifo) + 1
    BY <2>1, <2>2
  <2>4. ASSUME NEW k \in 1 .. Len(rxFifo')
        PROVE  rxFifo'[k] = got + Used(pRxBuffer) + k
    <3>1. CASE k \in 1 .. Len(rxFifo)
      BY <2>1, <2>2, <3>1 DEF RxInv
    <3>2. CASE k \notin 1 .. Len(rxFifo)
      <4>1. k = Len(rxFifo) + 1 /\ rxFifo'[k] = accepted + 1
        BY <2>1, <2>2, <2>3, <3>2
      <4> QED
        BY <4>1, RxNumbers
    <3> QED
      BY <3>1, <3>2
  <2>5. accepted' \in Nat /\ accepted' = got + Used(pRxBuffer) + Len(rxFifo')
    BY <2>1, <2>3, RxNumbers, SMTT(30)
  <2> QED
    BY <1>1, <2>3, <2>4, <2>5 DEF RxInv
<1>3. CASE ~(Len(rxFifo) < FifoLen)
  BY <1>1, <1>3 DEF Arrive, RxInv
<1> QED
  BY <1>2, <1>3

\* The first n bytes leave the FIFO.
LEMMA RestOf ==
    ASSUME NEW f \in Seq(Int), NEW n \in Nat, n <= Len(f), NEW g \in Int,
           \A k \in 1 .. Len(f) : f[k] = g + k
    PROVE  /\ SubSeq(f, n + 1, Len(f)) \in Seq(Int)
           /\ Len(SubSeq(f, n + 1, Len(f))) = Len(f) - n
           /\ \A k \in 1 .. Len(f) - n : SubSeq(f, n + 1, Len(f))[k] = (g + n) + k
           /\ SubSeq(f, 1, n) \in Seq(Int) /\ Len(SubSeq(f, 1, n)) = n
           /\ \A k \in 1 .. n : SubSeq(f, 1, n)[k] = g + k
<1>1. /\ SubSeq(f, n + 1, Len(f)) \in Seq(Int)
      /\ Len(SubSeq(f, n + 1, Len(f))) = Len(f) - n
      /\ SubSeq(f, 1, n) \in Seq(Int) /\ Len(SubSeq(f, 1, n)) = n
  OBVIOUS
<1>2. ASSUME NEW k \in 1 .. Len(f) - n
      PROVE  SubSeq(f, n + 1, Len(f))[k] = (g + n) + k
  <2>1. SubSeq(f, n + 1, Len(f))[k] = f[n + k] /\ n + k \in 1 .. Len(f)
    OBVIOUS
  <2>2. f[n + k] = g + (n + k)
    BY <2>1
  <2> QED
    BY <2>1, <2>2
<1>3. ASSUME NEW k \in 1 .. n
      PROVE  SubSeq(f, 1, n)[k] = g + k
  <2>1. SubSeq(f, 1, n)[k] = f[k] /\ k \in 1 .. Len(f)
    OBVIOUS
  <2> QED
    BY <2>1
<1> QED
  BY <1>1, <1>2, <1>3

LEMMA RxDrain ==
    ASSUME UartInv, RxInv, Drain
    PROVE  RxInv'
<1> DEFINE n == task.n
<1>1. /\ rxFifo' = SubSeq(rxFifo, n + 1, Len(rxFifo))
      /\ got' = (IF n = 0 THEN got ELSE rxFifo[n])
      /\ ~buff_en /\ UNCHANGED <<buff_en, pRxBuffer, accepted>>
  BY DEF Drain, setup
<1>2. n \in Nat /\ n <= Len(rxFifo)
  BY DEF Drain, At, UartInv, UartTypes, Snapshot
<1> HIDE DEF n
<1>3. Used(pRxBuffer) = 0 /\ rxFifo \in Seq(Int) /\ got \in Int
      /\ \A k \in 1 .. Len(rxFifo) : rxFifo[k] = got + k
  BY <1>1, RxNumbers DEF RxInv
<1>4. got' = got + n /\ got' \in Nat
  <2>1. got \in Nat /\ Len(rxFifo) \in Nat
    BY RxNumbers
  <2>2. CASE n = 0
    BY <1>1, <2>1, <2>2
  <2>3. CASE n # 0
    <3>1. n \in 1 .. Len(rxFifo) /\ got' = rxFifo[n]
      BY <1>1, <1>2, <2>1, <2>3
    <3>2. rxFifo[n] = got + n
      BY <1>3, <3>1
    <3> QED
      BY <1>2, <2>1, <3>1, <3>2
  <2> QED
    BY <2>2, <2>3
<1>5. /\ rxFifo' \in Seq(Int) /\ Len(rxFifo') = Len(rxFifo) - n
      /\ \A k \in 1 .. Len(rxFifo) - n : rxFifo'[k] = (got + n) + k
  BY <1>1, <1>2, <1>3, RestOf
<1>6. \A k \in 1 .. Len(rxFifo') : rxFifo'[k] = got' + 0 + k
  BY <1>3, <1>4, <1>5
<1>7. accepted = got' + 0 + Len(rxFifo')
  BY <1>2, <1>3, <1>4, <1>5, RxNumbers
<1>8. Holding(pRxBuffer, got')
  <2>1. pRxBuffer \in Buffers /\ pRxBuffer.in = (pRxBuffer.out + Used(pRxBuffer)) % BuffSize
    BY DEF RxInv, Holding
  <2> QED
    BY <1>3, <2>1 DEF Holding
<1> QED
  BY <1>1, <1>3, <1>4, <1>5, <1>6, <1>7, <1>8 DEF RxInv

LEMMA RxEnq ==
    ASSUME UartInv, RxInv, Uart_rx_buff_enq
    PROVE  RxInv'
<1> DEFINE n == task.n
           data == SubSeq(rxFifo, 1, n)
           c == Uart_Buf_Cpy(pRxBuffer, data)
           U == Used(pRxBuffer)
           g == got + U
<1>1. buff_en /\ UNCHANGED <<buff_en, accepted, got>>
  BY DEF Uart_rx_buff_enq, setup
<1>2. n \in Nat /\ n <= Len(rxFifo)
  BY DEF Uart_rx_buff_enq, At, UartInv, UartTypes, Snapshot
<1>3. CASE n >= pRxBuffer.space
  <2>1. UNCHANGED <<rxFifo, pRxBuffer>>
    BY <1>3 DEF Uart_rx_buff_enq
  <2> QED
    BY <1>1, <2>1 DEF RxInv
<1>4. CASE ~(n >= pRxBuffer.space)
  <2>1. rxFifo' = SubSeq(rxFifo, n + 1, Len(rxFifo)) /\ pRxBuffer' = c
    BY <1>4 DEF Uart_rx_buff_enq
  <2>2. rxFifo \in Seq(Int) /\ g \in Int
        /\ \A k \in 1 .. Len(rxFifo) : rxFifo[k] = g + k
    BY RxNumbers DEF RxInv
  <2>3. data = SubSeq(rxFifo, 1, n) /\ g = got + U /\ U = Used(pRxBuffer)
    OBVIOUS
  <2> HIDE DEF n, data, U, g
  <2>4. /\ rxFifo' \in Seq(Int) /\ Len(rxFifo') = Len(rxFifo) - n
        /\ \A k \in 1 .. Len(rxFifo) - n : rxFifo'[k] = (g + n) + k
        /\ data \in Seq(Int) /\ Len(data) = n
        /\ \A k \in 1 .. n : data[k] = g + k
    BY <1>2, <2>1, <2>2, <2>3, RestOf
  <2>5. Holding(pRxBuffer, got) /\ got \in Int /\ n < pRxBuffer.space
    BY <1>2, <1>4, RxNumbers DEF RxInv
  <2>6. Holding(c, got) /\ c.space = pRxBuffer.space - n /\ Used(c) = U + n
    <3>1. Len(data) <= pRxBuffer.space
      BY <1>2, <2>4, <2>5, RxNumbers
    <3>2. \A k \in 1 .. Len(data) : data[k] = got + Used(pRxBuffer) + k
      BY <2>3, <2>4
    <3>3. /\ Holding(Uart_Buf_Cpy(pRxBuffer, data), got)
          /\ Uart_Buf_Cpy(pRxBuffer, data).space = pRxBuffer.space - Len(data)
          /\ Used(Uart_Buf_Cpy(pRxBuffer, data)) = Used(pRxBuffer) + Len(data)
      BY <2>4, <2>5, <3>1, <3>2, CopyIn
    <3> QED
      BY <2>3, <2>4, <3>3
  <2> HIDE DEF c
  <2>7. /\ U \in Nat /\ got \in Nat /\ accepted \in Nat /\ Len(rxFifo) \in Nat
        /\ accepted = got + U + Len(rxFifo) /\ pRxBuffer.space \in Int
    BY RxNumbers DEF U
  <2>8. /\ c.space >= 1
        /\ g + n = got + (U + n)
        /\ accepted = got + (U + n) + Len(rxFifo')
    <3>1. c.space >= 1
      BY <1>2, <2>5, <2>6, <2>7
    <3>2. g + n = got + (U + n)
      BY <1>2, <2>3, <2>7
    <3>3. accepted = got + (U + n) + Len(rxFifo')
      <4>1. Len(rxFifo') = Len(rxFifo) - n
        BY <2>4
      <4> QED
        BY <1>2, <2>7, <4>1
    <3> QED
      BY <3>1, <3>2, <3>3
  <2>9. \A k \in 1 .. Len(rxFifo') : rxFifo'[k] = got + (U + n) + k
    BY <2>4, <2>8
  <2> QED
    BY <1>1, <2>1, <2>4, <2>6, <2>8, <2>9 DEF RxInv
<1> QED
  BY <1>3, <1>4

LEMMA RxDeq ==
    ASSUME RxInv, NEW data_len \in Nat, rx_buff_deq(data_len)
    PROVE  RxInv'
<1> DEFINE U == Used(pRxBuffer)
           n == IF data_len > U THEN U ELSE data_len
           wraps == pRxBuffer.out > pRxBuffer.in
           c == Drop(pRxBuffer, n, wraps)
<1>1. /\ buff_en /\ UNCHANGED <<buff_en, rxFifo, accepted>>
      /\ pRxBuffer' = c
      /\ got' = (IF n = 0 THEN got ELSE Peek(pRxBuffer, n, wraps)[n])
  BY DEF rx_buff_deq, setup
<1>2. n \in Int /\ 0 <= n /\ n <= U /\ U \in Nat /\ U = Used(pRxBuffer)
  BY RxNumbers
<1>3. pRxBuffer \in Buffers /\ Holding(pRxBuffer, got) /\ got \in Int
  BY DEF RxInv, Holding
<1>4. wraps \in BOOLEAN /\ (wraps \/ (pRxBuffer.out <= pRxBuffer.in /\ pRxBuffer.space >= 1))
  BY <1>3, BufferIs DEF RxInv
<1> HIDE DEF U, n, wraps
<1>5. /\ Holding(c, got + n) /\ c.space = pRxBuffer.space + n /\ Used(c) = U - n
      /\ Peek(pRxBuffer, n, wraps) = [k \in 1 .. n |-> got + k]
  BY <1>2, <1>3, <1>4, TakeOut
<1> HIDE DEF c
<1>6. got \in Nat /\ pRxBuffer.space \in Int /\ pRxBuffer.space >= 1
  BY RxNumbers DEF RxInv
<1>7. got' = got + n /\ got' \in Nat
  <2>1. CASE n = 0
    BY <1>1, <1>6, <2>1
  <2>2. CASE n # 0
    <3>1. n \in 1 .. n /\ got' = Peek(pRxBuffer, n, wraps)[n]
      BY <1>1, <1>2, <2>2
    <3>2. got' = got + n
      BY <1>5, <3>1
    <3> QED
      BY <1>2, <1>6, <3>2
  <2> QED
    BY <2>1, <2>2
<1>8. c.space >= 1 /\ got' + (U - n) = got + U
  BY <1>2, <1>5, <1>7, <1>6
<1> QED
  BY <1>1, <1>2, <1>5, <1>7, <1>8 DEF RxInv

LEMMA RxReset ==
    ASSUME RxInv, uart_reattach \/ UART_ResetFifo
    PROVE  RxInv'
<1>1. CASE uart_reattach
  <2>1. /\ rxFifo' = <<>> /\ pRxBuffer' = Uart_Buf_Init
        /\ got' = accepted /\ UNCHANGED <<buff_en, accepted>>
    BY <1>1 DEF uart_reattach, setup
  <2>2. accepted \in Nat /\ accepted \in Int
    BY RxNumbers
  <2>3. /\ Holding(Uart_Buf_Init, accepted) /\ Uart_Buf_Init.space = BuffSize
        /\ Used(Uart_Buf_Init) = 0
    BY <2>2, NewBuffer
  <2> QED
    BY <2>1, <2>2, <2>3, Lengths DEF RxInv
<1>2. CASE UART_ResetFifo
  <2>1. /\ rxFifo' = <<>> /\ accepted' = accepted - Len(rxFifo)
        /\ UNCHANGED <<buff_en, pRxBuffer, got>>
    BY <1>2 DEF UART_ResetFifo, setup
  <2>2. accepted' \in Nat /\ accepted' = got + Used(pRxBuffer) + 0
    BY <2>1, RxNumbers, SMTT(30)
  <2> QED
    BY <2>1, <2>2 DEF RxInv
<1> QED
  BY <1>1, <1>2

-----------------------------------------------------------------------------
(***************************************************************************)
(* The way out: of the bytes after `sent', those up to `copied' are in the   *)
(* FIFO, in order and with direct ones between them, and the others in the   *)
(* buffer.                                                                 *)
(***************************************************************************)
InFifo(f, a, b) ==
    /\ \A c \in a + 1 .. b : \E k \in DOMAIN f : f[k] = c
    /\ \A k \in DOMAIN f : f[k] # Direct =>
          /\ f[k] \in a + 1 .. b
          /\ \A j \in 1 .. k - 1 : f[j] < f[k]

Copied == written - Used(pTxBuffer)

TxInv ==
    /\ written \in Nat /\ sent \in Nat
    /\ Holding(pTxBuffer, Copied)
    /\ sent <= Copied
    /\ txFifo \in Seq(Int) /\ Len(txFifo) <= FifoLen
    /\ InFifo(txFifo, sent, Copied)

LEMMA TxNumbers ==
    ASSUME TxInv
    PROVE  /\ Used(pTxBuffer) \in Nat /\ Used(pTxBuffer) = BuffSize - pTxBuffer.space
           /\ pTxBuffer.space \in Int /\ pTxBuffer.space <= BuffSize /\ BuffSize \in Nat
           /\ written \in Nat /\ sent \in Nat /\ Copied \in Nat /\ sent <= Copied
           /\ Copied + Used(pTxBuffer) = written
           /\ Len(txFifo) \in Nat /\ Len(txFifo) <= FifoLen
<1>1. pTxBuffer \in Buffers /\ written \in Nat /\ sent \in Nat /\ sent <= Copied
      /\ txFifo \in Seq(Int) /\ Len(txFifo) <= FifoLen
  BY DEF TxInv, Holding
<1>2. /\ Used(pTxBuffer) \in Nat /\ Used(pTxBuffer) = BuffSize - pTxBuffer.space
      /\ pTxBuffer.space \in Int /\ pTxBuffer.space <= BuffSize /\ BuffSize \in Nat
  BY <1>1, BufferIs, Lengths
<1>3. Copied \in Int /\ Copied + Used(pTxBuffer) = written
  BY <1>1, <1>2 DEF Copied
<1> QED
  BY <1>1, <1>2, <1>3

\* An empty FIFO holds nothing.
LEMMA FifoEmpty ==
    ASSUME NEW b \in Int
    PROVE  InFifo(<<>>, b, b)
  BY DEF InFifo

\* The oldest byte leaves the FIFO: the next is sent, or a direct one is.
LEMMA FifoShift ==
    ASSUME NEW f \in Seq(Int), f # <<>>, NEW a \in Nat, NEW b \in Int, a <= b,
           InFifo(f, a, b),
           NEW z, z = (IF Head(f) = Direct THEN a ELSE Head(f))
    PROVE  InFifo(Tail(f), z, b) /\ z \in Nat /\ z <= b
<1> DEFINE t == Tail(f)
<1>1. /\ t \in Seq(Int) /\ Len(t) = Len(f) - 1 /\ Len(f) \in Nat /\ Len(f) >= 1
      /\ Head(f) = f[1] /\ 1 \in DOMAIN f /\ DOMAIN f = 1 .. Len(f) /\ DOMAIN t = 1 .. Len(t)
  OBVIOUS
<1>2. \A k \in 1 .. Len(t) : t[k] = f[k + 1] /\ k + 1 \in 1 .. Len(f)
  BY <1>1
<1>3. \A k \in 1 .. Len(f) : f[k] \in Int
  OBVIOUS
<1> HIDE DEF t
<1>4. z \in Nat /\ a <= z /\ z <= b
  <2>1. CASE f[1] = Direct
    BY <1>1, <2>1
  <2>2. CASE f[1] # Direct
    <3>1. f[1] \in a + 1 .. b /\ z = f[1]
      BY <1>1, <2>2 DEF InFifo
    <3> QED
      BY <3>1
  <2> QED
    BY <2>1, <2>2
<1>5. ASSUME NEW c \in z + 1 .. b
      PROVE  \E k \in DOMAIN t : t[k] = c
  <2>1. c \in a + 1 .. b /\ c \in Int /\ c > z /\ c >= 1
    BY <1>4
  <2>2. PICK k \in DOMAIN f : f[k] = c
    BY <2>1 DEF InFifo
  <2>3. k # 1
    BY <1>1, <2>1, <2>2 DEF Direct
  <2>4. k - 1 \in 1 .. Len(t) /\ (k - 1) + 1 = k
    BY <1>1, <2>2, <2>3, SMTT(30)
  <2> QED
    BY <1>1, <1>2, <2>2, <2>4
<1>6. ASSUME NEW k \in DOMAIN t, t[k] # Direct
      PROVE  t[k] \in z + 1 .. b /\ \A j \in 1 .. k - 1 : t[j] < t[k]
  <2>1. k \in 1 .. Len(t) /\ k \in Nat /\ t[k] = f[k + 1] /\ k + 1 \in DOMAIN f
    BY <1>1, <1>2, <1>6, SMTT(30)
  <2>2. /\ f[k + 1] \in a + 1 .. b
        /\ \A j \in 1 .. (k + 1) - 1 : f[j] < f[k + 1]
    BY <1>6, <2>1 DEF InFifo
  <2>3. 1 \in 1 .. (k + 1) - 1
    BY <2>1
  <2>4. f[1] < f[k + 1]
    BY <2>2, <2>3
  <2>5. t[k] \in z + 1 .. b
    <3>1. z = a \/ z = f[1]
      BY <1>1
    <3>2. t[k] \in Int /\ a < t[k] /\ f[1] < t[k] /\ t[k] <= b
      BY <2>1, <2>2, <2>4
    <3>3. z < t[k]
      BY <3>1, <3>2
    <3> QED
      BY <1>4, <3>2, <3>3
  <2>6. ASSUME NEW j \in 1 .. k - 1
        PROVE  t[j] < t[k]
    <3>1. j \in 1 .. Len(t) /\ j + 1 \in 1 .. (k + 1) - 1
      <4>1. Len(t) \in Int /\ k <= Len(t) /\ k \in Int
        BY <1>1, <2>1
      <4> QED
        BY <4>1
    <3> QED
      BY <1>2, <2>1, <2>2, <3>1
  <2> QED
    BY <2>5, <2>6
<1>7. InFifo(t, z, b)
  BY <1>5, <1>6 DEF InFifo
<1> QED
  BY <1>4, <1>7 DEF t

\* A direct byte comes behind the others.
LEMMA FifoDirect ==
    ASSUME NEW f \in Seq(Int), NEW a \in Int, NEW b \in Int, InFifo(f, a, b)
    PROVE  InFifo(Append(f, Direct), a, b)
<1> DEFINE t == Append(f, Direct)
<1>1. /\ Len(f) \in Nat /\ DOMAIN f = 1 .. Len(f) /\ DOMAIN t = 1 .. Len(f) + 1
      /\ t[Len(f) + 1] = Direct
  BY DEF Direct
<1>2. \A k \in 1 .. Len(f) : t[k] = f[k] /\ k \in 1 .. Len(f) + 1
  BY DEF Direct
<1> HIDE DEF t
<1>3. ASSUME NEW c \in a + 1 .. b
      PROVE  \E k \in DOMAIN t : t[k] = c
  <2>1. PICK k \in DOMAIN f : f[k] = c
    BY DEF InFifo
  <2> QED
    BY <1>1, <1>2, <2>1
<1>4. ASSUME NEW k \in DOMAIN t, t[k] # Direct
      PROVE  t[k] \in a + 1 .. b /\ \A j \in 1 .. k - 1 : t[j] < t[k]
  <2>1. k \in 1 .. Len(f) /\ t[k] = f[k]
    BY <1>1, <1>2, <1>4
  <2>2. f[k] \in a + 1 .. b /\ \A j \in 1 .. k - 1 : f[j] < f[k]
    BY <1>1, <1>4, <2>1 DEF InFifo
  <2>3. \A j \in 1 .. k - 1 : j \in 1 .. Len(f)
    BY <1>1, <2>1
  <2> QED
    BY <1>2, <2>1, <2>2, <2>3
<1>5. InFifo(t, a, b)
  BY <1>3, <1>4 DEF InFifo
<1> QED
  BY <1>5 DEF t

\* So do the bytes that follow b.
LEMMA FifoMore ==
    ASSUME NEW f \in Seq(Int), NEW a \in Nat, NEW b \in Int, a <= b, InFifo(f, a, b),
           NEW n \in Nat, NEW data, data = [k \in 1 .. n |-> b + k]
    PROVE  InFifo(f \o data, a, b + n) /\ f \o data \in Seq(Int)
           /\ Len(f \o data) = Len(f) + n
<1> DEFINE t == f \o data
           L == Len(f)
<1>1. data \in Seq(Int) /\ Len(data) = n /\ \A k \in 1 .. n : data[k] = b + k
  OBVIOUS
<1>2. L \in Nat /\ DOMAIN f = 1 .. L /\ \A k \in 1 .. L : f[k] \in Int
  OBVIOUS
<1>3. t \in Seq(Int) /\ Len(t) = L + n /\ DOMAIN t = 1 .. L + n
  BY <1>1
<1>4. \A k \in 1 .. L : t[k] = f[k] /\ k \in 1 .. L + n
  BY <1>1, <1>2
<1>5. \A k \in 1 .. n : t[L + k] = b + k /\ L + k \in 1 .. L + n
  BY <1>1, <1>2
<1> HIDE DEF t, L
<1>6. ASSUME NEW c \in a + 1 .. b + n
      PROVE  \E k \in DOMAIN t : t[k] = c
  <2>1. CASE c <= b
    <3>1. c \in a + 1 .. b
      BY <2>1
    <3>2. PICK k \in DOMAIN f : f[k] = c
      BY <3>1 DEF InFifo
    <3> QED
      BY <1>2, <1>3, <1>4, <3>2
  <2>2. CASE c > b
    <3>1. c - b \in 1 .. n /\ b + (c - b) = c
      BY <2>2
    <3> QED
      BY <1>3, <1>5, <3>1
  <2> QED
    BY <2>1, <2>2
<1>7. ASSUME NEW k \in 1 .. L
      PROVE  f[k] <= b
  <2>1. CASE f[k] = Direct
    BY <2>1 DEF Direct
  <2>2. CASE f[k] # Direct
    <3>1. f[k] \in a + 1 .. b
      BY <1>2, <2>2 DEF InFifo
    <3> QED
      BY <3>1
  <2> QED
    BY <2>1, <2>2
<1>8. ASSUME NEW k \in DOMAIN t, t[k] # Direct
      PROVE  t[k] \in a + 1 .. b + n /\ \A j \in 1 .. k - 1 : t[j] < t[k]
  <2>1. CASE k <= L
    <3>1. k \in 1 .. L /\ t[k] = f[k]
      BY <1>2, <1>3, <1>4, <2>1
    <3>2. f[k] \in a + 1 .. b /\ \A j \in 1 .. k - 1 : f[j] < f[k]
      BY <1>2, <1>8, <3>1 DEF InFifo
    <3>3. \A j \in 1 .. k - 1 : j \in 1 .. L
      BY <1>2, <3>1
    <3> QED
      BY <1>4, <3>1, <3>2, <3>3
  <2>2. CASE k > L
    <3>1. PICK i \in 1 .. n : k = L + i
      <4>1. k - L \in 1 .. n /\ k = L + (k - L)
        BY <1>2, <1>3, <2>2
      <4> QED
        BY <4>1
    <3>2. t[k] = b + i
      BY <1>5, <3>1
    <3>3. ASSUME NEW j \in 1 .. k - 1
          PROVE  t[j] < b + i
      <4>1. CASE j <= L
        <5>1. j \in 1 .. L
          BY <1>2, <4>1
        <5>2. t[j] = f[j] /\ f[j] <= b /\ f[j] \in Int
          BY <1>2, <1>4, <1>7, <5>1
        <5> QED
          BY <5>2
      <4>2. CASE j > L
        <5>1. j - L \in 1 .. n /\ j = L + (j - L) /\ j - L < i
          BY <1>2, <3>1, <4>2
        <5>2. t[j] = b + (j - L)
          BY <1>5, <5>1
        <5> QED
          BY <5>1, <5>2
      <4> QED
        BY <1>2, <4>1, <4>2
    <3>4. b + i \in a + 1 .. b + n
      OBVIOUS
    <3> QED
      BY <3>2, <3>3, <3>4
  <2> QED
    BY <1>2, <1>3, <2>1, <2>2
<1>9. InFifo(t, a, b + n)
  BY <1>6, <1>8 DEF InFifo
<1> QED
  BY <1>3, <1>9 DEF t, L

LEMMA TxInit == Init => TxInv
<1> SUFFICES ASSUME Init PROVE TxInv
  OBVIOUS
<1>1. /\ Holding(Uart_Buf_Init, 0) /\ Used(Uart_Buf_Init) = 0
  BY NewBuffer
<1>2. Copied = 0
  BY <1>1 DEF Init, Copied
<1>3. InFifo(<<>>, 0, 0)
  BY FifoEmpty
<1> QED
  BY <1>1, <1>2, <1>3, Lengths DEF Init, TxInv

LEMMA TxSame ==
    ASSUME TxInv, UNCHANGED sending
    PROVE  TxInv'
  BY DEF TxInv, sending, Copied

LEMMA TxShift ==
    ASSUME TxInv, Shift
    PROVE  TxInv'
<1>1. /\ txFifo # <<>> /\ txFifo' = Tail(txFifo)
      /\ sent' = (IF Head(txFifo) = Direct THEN sent ELSE Head(txFifo))
      /\ UNCHANGED <<pTxBuffer, written>>
  BY DEF Shift
<1>2. Copied' = Copied
  BY <1>1 DEF Copied
<1>3. /\ txFifo \in Seq(Int) /\ sent \in Nat /\ Copied \in Int /\ sent <= Copied
      /\ InFifo(txFifo, sent, Copied)
  BY TxNumbers DEF TxInv
<1>4. InFifo(txFifo', sent', Copied) /\ sent' \in Nat /\ sent' <= Copied
  BY <1>1, <1>3, FifoShift
<1>5. txFifo' \in Seq(Int) /\ Len(txFifo') <= FifoLen
  <2>1. Tail(txFifo) \in Seq(Int) /\ Len(Tail(txFifo)) = Len(txFifo) - 1
    BY <1>1, <1>3
  <2> QED
    BY <1>1, <2>1, TxNumbers, Lengths
<1> QED
  BY <1>1, <1>2, <1>4, <1>5 DEF TxInv

LEMMA TxEmptied ==
    ASSUME TxInv, TxFifoEmpty
    PROVE  TxInv'
<1> DEFINE U == Used(pTxBuffer)
           room == FifoLen - Len(txFifo)
           n == IF U > room THEN room ELSE U
           c == Drop(pTxBuffer, n, TRUE)
           data == Peek(pTxBuffer, n, TRUE)
<1>1. UNCHANGED <<written, sent>>
  BY DEF TxFifoEmpty
<1>2. CASE ~buff_en
  <2>1. UNCHANGED <<txFifo, pTxBuffer>>
    BY <1>2 DEF TxFifoEmpty
  <2> QED
    BY <1>1, <2>1, TxSame DEF sending
<1>3. CASE buff_en
  <2>1. txFifo' = txFifo \o data /\ pTxBuffer' = c
    BY <1>3 DEF TxFifoEmpty
  <2>2. /\ U \in Nat /\ U = Used(pTxBuffer) /\ Copied \in Nat /\ sent \in Nat /\ sent <= Copied
        /\ Copied + U = written /\ Len(txFifo) \in Nat /\ Len(txFifo) <= FifoLen
        /\ written \in Nat /\ FifoLen \in Nat
    BY TxNumbers, Lengths
  <2>3. n \in Nat /\ n <= U /\ Len(txFifo) + n <= FifoLen
    BY <2>2
  <2>4. /\ Holding(pTxBuffer, Copied) /\ txFifo \in Seq(Int) /\ InFifo(txFifo, sent, Copied)
    BY DEF TxInv
  <2> HIDE DEF U, n
  <2>5. /\ Holding(c, Copied + n) /\ Used(c) = U - n
        /\ data = [k \in 1 .. n |-> Copied + k]
    <3> DEFINE wraps == TRUE
    <3>1. /\ wraps \in BOOLEAN /\ n \in Int /\ 0 <= n /\ n <= Used(pTxBuffer)
          /\ wraps \/ (pTxBuffer.out <= pTxBuffer.in /\ pTxBuffer.space >= 1)
          /\ Copied \in Int
      BY <2>2, <2>3
    <3> HIDE DEF wraps
    <3>2. /\ Holding(Drop(pTxBuffer, n, wraps), Copied + n)
          /\ Used(Drop(pTxBuffer, n, wraps)) = Used(pTxBuffer) - n
          /\ Peek(pTxBuffer, n, wraps) = [k \in 1 .. n |-> Copied + k]
      BY <2>4, <3>1, TakeOut
    <3> QED
      BY <2>2, <3>2 DEF wraps
  <2> HIDE DEF c, data
  <2>6. Copied' = Copied + n
    <3>1. Copied' = written - (U - n)
      BY <1>1, <2>1, <2>5 DEF Copied
    <3> QED
      BY <2>2, <2>3, <3>1
  <2>7. /\ InFifo(txFifo', sent, Copied + n) /\ txFifo' \in Seq(Int)
        /\ Len(txFifo') = Len(txFifo) + n
    BY <2>1, <2>2, <2>3, <2>4, <2>5, FifoMore
  <2>8. sent <= Copied + n /\ Len(txFifo') <= FifoLen
    BY <2>2, <2>3, <2>7
  <2> QED
    BY <1>1, <2>1, <2>2, <2>5, <2>6, <2>7, <2>8 DEF TxInv
<1> QED
  BY <1>2, <1>3

LEMMA TxCopied ==
    ASSUME UartInv, TxInv, TxCopy
    PROVE  TxInv'
<1> DEFINE n == task.n
           data == [k \in 1 .. n |-> written + k]
           c == Uart_Buf_Cpy(pTxBuffer, data)
<1>1. UNCHANGED <<txFifo, sent>>
  BY DEF TxCopy
<1>2. CASE ~(n <= pTxBuffer.space)
  <2>1. UNCHANGED <<pTxBuffer, written>>
    BY <1>2 DEF TxCopy
  <2> QED
    BY <1>1, <2>1, TxSame DEF sending
<1>3. CASE n <= pTxBuffer.space
  <2>1. pTxBuffer' = c /\ written' = written + n
    BY <1>3 DEF TxCopy
  <2>2. n \in Nat
    BY DEF UartInv, UartTypes
  <2> HIDE DEF n
  <2>3. /\ Holding(pTxBuffer, Copied) /\ Copied \in Int /\ written \in Nat
        /\ Copied + Used(pTxBuffer) = written /\ Used(pTxBuffer) \in Nat
    BY TxNumbers DEF TxInv
  <2>4. data \in Seq(Int) /\ Len(data) = n
        /\ \A k \in 1 .. Len(data) : data[k] = Copied + Used(pTxBuffer) + k
    BY <2>2, <2>3
  <2> HIDE DEF data
  <2>5. Holding(c, Copied) /\ Used(c) = Used(pTxBuffer) + n
    <3>1. Len(data) <= pTxBuffer.space
      BY <1>3, <2>4
    <3>2. Holding(c, Copied) /\ Used(c) = Used(pTxBuffer) + Len(data)
      BY <2>3, <2>4, <3>1, CopyIn
    <3> QED
      BY <2>4, <3>2
  <2> HIDE DEF c
  <2>6. Copied' = Copied
    <3>1. Copied' = (written + n) - (Used(pTxBuffer) + n)
      BY <2>1, <2>5 DEF Copied
    <3> QED
      BY <2>2, <2>3, <3>1
  <2>7. written' \in Nat
    BY <2>1, <2>2, <2>3
  <2> QED
    BY <1>1, <2>1, <2>5, <2>6, <2>7 DEF TxInv
<1> QED
  BY <1>2, <1>3

LEMMA TxPut ==
    ASSUME TxInv, Put
    PROVE  TxInv'
<1>1. UNCHANGED <<pTxBuffer, written, sent>>
  BY DEF Put
<1>2. CASE ~(Len(txFifo) < FifoLen)
  <2>1. txFifo' = txFifo
    BY <1>2 DEF Put
  <2> QED
    BY <1>1, <2>1, TxSame DEF sending
<1>3. CASE Len(txFifo) < FifoLen
  <2>1. txFifo' = Append(txFifo, Direct)
    BY <1>3 DEF Put
  <2>2. txFifo \in Seq(Int) /\ InFifo(txFifo, sent, Copied) /\ sent \in Int /\ Copied \in Int
    BY TxNumbers DEF TxInv
  <2>3. InFifo(txFifo', sent, Copied)
    BY <2>1, <2>2, FifoDirect
  <2>4. txFifo' \in Seq(Int) /\ Len(txFifo') <= FifoLen
    <3>1. Direct \in Int
      BY DEF Direct
    <3>2. txFifo' \in Seq(Int) /\ Len(txFifo') = Len(txFifo) + 1
      BY <2>1, <2>2, <3>1
    <3> QED
      BY <1>3, <3>2, TxNumbers, Lengths
  <2> QED
    BY <1>1, <2>3, <2>4 DEF TxInv, Copied
<1> QED
  BY <1>2, <1>3

LEMMA TxReset ==
    ASSUME TxInv, uart_reattach \/ UART_ResetFifo
    PROVE  TxInv'
<1>1. CASE uart_reattach
  <2>1. /\ txFifo' = <<>> /\ pTxBuffer' = Uart_Buf_Init
        /\ sent' = written /\ UNCHANGED written
    BY <1>1 DEF uart_reattach
  <2>2. written \in Nat /\ written \in Int
    BY TxNumbers
  <2>3. Holding(Uart_Buf_Init, written) /\ Used(Uart_Buf_Init) = 0
    BY <2>2, NewBuffer
  <2>4. Copied' = written
    BY <2>1, <2>2, <2>3 DEF Copied
  <2>5. InFifo(<<>>, written, written)
    BY <2>2, FifoEmpty
  <2> QED
    BY <2>1, <2>2, <2>3, <2>4, <2>5, Lengths DEF TxInv
<1>2. CASE UART_ResetFifo
  <2>1. txFifo' = <<>> /\ sent' = Copied /\ UNCHANGED <<pTxBuffer, written>>
    BY <1>2 DEF UART_ResetFifo, Copied
  <2>2. Copied \in Nat /\ Copied \in Int /\ Copied' = Copied
    BY <2>1, TxNumbers DEF Copied
  <2>3. InFifo(<<>>, Copied, Copied)
    BY <2>2, FifoEmpty
  <2> QED
    BY <2>1, <2>2, <2>3, Lengths DEF TxInv
<1> QED
  BY <1>1, <1>2

-----------------------------------------------------------------------------
LEMMA QueuesNext == UartInv /\ RxInv /\ TxInv /\ [Next]_vars => RxInv' /\ TxInv'
<1> SUFFICES ASSUME UartInv, RxInv, TxInv, [Next]_vars
             PROVE  RxInv' /\ TxInv'
  OBVIOUS
<1> USE DEF setup
<1>1. CASE Arrive
  BY <1>1, RxArrive, TxSame DEF Arrive
<1>2. CASE Shift
  BY <1>2, RxSame, TxShift DEF Shift
<1>3. CASE TxFifoEmpty
  BY <1>3, RxSame, TxEmptied DEF TxFifoEmpty
<1>4. CASE Drain
  BY <1>4, RxDrain, TxSame DEF Drain
<1>5. CASE Uart_rx_buff_enq
  BY <1>5, RxEnq, TxSame DEF Uart_rx_buff_enq
<1>6. CASE \E n \in 1 .. MaxChunk : rx_buff_deq(n)
  <2>1. PICK n \in 1 .. MaxChunk : rx_buff_deq(n)
    BY <1>6
  <2>2. n \in Nat
    BY Lengths
  <2>3. UNCHANGED sending
    BY <2>1 DEF rx_buff_deq
  <2> QED
    BY <2>1, <2>2, <2>3, RxDeq, TxSame
<1>7. CASE TxCopy
  BY <1>7, RxSame, TxCopied DEF TxCopy
<1>8. CASE Put
  BY <1>8, RxSame, TxPut DEF Put
<1>9. CASE uart_reattach \/ UART_ResetFifo
  BY <1>9, RxReset, TxReset
<1>10. CASE \/ \E c \in Causes : Latch(c)
            \/ FrameError \/ Overflow \/ Received
            \/ uart_recvTask \/ uart_rx_intr_enable \/ WriteEna \/ TxDisable
            \/ \E n \in 1 .. MaxChunk : tx_buff_enq(n)
            \/ \E waits \in BOOLEAN : uart_tx_one_char(waits)
            \/ \E c \in Causes : UART_ClearIntrStatus({c})
            \/ \E mask \in {RxCauses, {"EMPTY"}} : UART_SetIntrEna(mask)
  <2>1. UNCHANGED <<setup, receiving, sending>>
    BY <1>10 DEF Latch, FrameError, Overflow, Received, uart_recvTask,
       uart_rx_intr_enable, WriteEna, TxDisable, tx_buff_enq, uart_tx_one_char,
       UART_ClearIntrStatus, UART_SetIntrEna
  <2> QED
    BY <2>1, RxSame, TxSame
<1>11. CASE UNCHANGED vars
  BY <1>11, RxSame, TxSame DEF vars
<1> QED
  BY <1>1, <1>2, <1>3, <1>4, <1>5, <1>6, <1>7, <1>8, <1>9, <1>10, <1>11
     DEF Next, Handler, Continue

\* Two runs of numbered bytes, the one behind the other.
LEMMA Joined ==
    ASSUME NEW f \in Seq(Int), NEW t \in Seq(Int), NEW g \in Int,
           \A k \in 1 .. Len(f) : f[k] = g + k,
           \A k \in 1 .. Len(t) : t[k] = g + Len(f) + k
    PROVE  f \o t = [k \in 1 .. Len(f) + Len(t) |-> g + k]
<1> DEFINE F == Len(f)
           T == Len(t)
<1>1. f \o t = [k \in 1 .. F + T |-> IF k <= F THEN f[k] ELSE t[k - F]]
  <2> DEFINE c == f \o t
  <2>1. c \in Seq(Int) /\ Len(c) = F + T
    OBVIOUS
  <2>2. \A k \in 1 .. F + T : c[k] = IF k <= F THEN f[k] ELSE t[k - F]
    OBVIOUS
  <2> HIDE DEF c, F, T
  <2>3. c = [k \in 1 .. F + T |-> c[k]]
    BY <2>1
  <2>4. c = [k \in 1 .. F + T |-> IF k <= F THEN f[k] ELSE t[k - F]]
    BY <2>2, <2>3
  <2> QED
    BY <2>4 DEF c
<1>2. F \in Nat /\ T \in Nat
  OBVIOUS
<1>3. /\ \A k \in 1 .. F : f[k] = g + k
      /\ \A k \in 1 .. T : t[k] = g + F + k
  OBVIOUS
<1> HIDE DEF F, T
<1>4. ASSUME NEW k \in 1 .. F + T
      PROVE  (IF k <= F THEN f[k] ELSE t[k - F]) = g + k
  <2>1. CASE k <= F
    <3>1. k \in 1 .. F
      BY <1>2, <2>1
    <3> QED
      BY <1>3, <2>1, <3>1
  <2>2. CASE ~(k <= F)
    <3>1. k - F \in 1 .. T /\ g + F + (k - F) = g + k
      BY <1>2, <2>2
    <3> QED
      BY <1>3, <2>2, <3>1
  <2> QED
    BY <2>1, <2>2
<1> QED
  BY <1>1, <1>4 DEF F, T

\* The two invariants are what NothingLost says.
LEMMA QueuesHold == RxInv /\ TxInv => NothingLost
<1> SUFFICES ASSUME RxInv, TxInv PROVE NothingLost
  OBVIOUS
<1> DEFINE U == Used(pRxBuffer)
           held == Content(pRxBuffer)
<1>1. /\ U \in Nat /\ got \in Nat /\ accepted \in Nat /\ Len(rxFifo) \in Nat
      /\ accepted = got + U + Len(rxFifo) /\ rxFifo \in Seq(Int)
      /\ Holding(pRxBuffer, got)
      /\ \A k \in 1 .. Len(rxFifo) : rxFifo[k] = got + U + k
  BY RxNumbers DEF RxInv
<1>2. held = Bytes(got, got + U)
  BY <1>1, ContentIs
<1> HIDE DEF held, U
<1>3. held = [k \in 1 .. U |-> got + k]
  <2>1. (got + U) - got = U
    BY <1>1
  <2> QED
    BY <1>2, <2>1 DEF Bytes
<1>4. held \in Seq(Int) /\ Len(held) = U /\ \A k \in 1 .. U : held[k] = got + k
  BY <1>1, <1>3
<1>5. held \o rxFifo = Bytes(got, accepted)
  <2>1. \A k \in 1 .. Len(rxFifo) : rxFifo[k] = got + Len(held) + k
    BY <1>1, <1>4
  <2>2. held \o rxFifo = [k \in 1 .. Len(held) + Len(rxFifo) |-> got + k]
    <3>1. \A k \in 1 .. Len(held) : held[k] = got + k
      BY <1>4
    <3>2. held \in Seq(Int) /\ rxFifo \in Seq(Int) /\ got \in Int
      BY <1>1, <1>4
    <3> QED
      BY <2>1, <3>1, <3>2, Joined
  <2>3. accepted - got = Len(held) + Len(rxFifo)
    BY <1>1, <1>4
  <2> QED
    BY <2>2, <2>3 DEF Bytes
<1>6. Content(pTxBuffer) = Bytes(Copied, written)
  <2>1. Holding(pTxBuffer, Copied) /\ Copied \in Int /\ Copied + Used(pTxBuffer) = written
    BY TxNumbers DEF TxInv
  <2> QED
    BY <2>1, ContentIs
<1>7. sent <= Copied /\ InFifo(txFifo, sent, Copied)
  BY DEF TxInv
<1> QED
  BY <1>5, <1>6, <1>7 DEF NothingLost, InFifo, Copied, held

\* Every byte taken from the line or by tx_buff_enq is in one place of its way,
\* and in order, for every length of FIFOs, buffers and chunks.
THEOREM NothingIsLost == Spec => []NothingLost
<1>1. Init => UartInv /\ RxInv /\ TxInv
  BY UartInvInit, RxInit, TxInit
<1>2. UartInv /\ RxInv /\ TxInv /\ [Next]_vars => (UartInv /\ RxInv /\ TxInv)'
  BY UartInvNext, QueuesNext
<1>3. UartInv /\ RxInv /\ TxInv => NothingLost
  BY QueuesHold
<1> QED
  BY <1>1, <1>2, <1>3, PTL DEF Spec

=============================================================================
