-------------------------------- MODULE BusProofs -------------------------------
(***************************************************************************)
(* The drivers of the buses: the SPI controller as master and as slave, the  *)
(* HSPI controller shared by overlap, and the bit-banged I2C master.         *)
(***************************************************************************)
EXTENDS SpiMaster, SpiSlave, SpiOverlap, I2cMaster, WellFoundedInduction, TLAPS

-----------------------------------------------------------------------------
(***************************************************************************)
(* SpiPhases holds in every behaviour of SpiMaster, for every set of         *)
(* lengths.  The phases the USER registers keep from one call to the next    *)
(* have to be related to what earlier calls asked for (Leftover): of         *)
(* spi_interface.c a command phase and a read, of spi.c, which never sets a  *)
(* data length, the data phase of the last call that had one.                *)
(***************************************************************************)
SpiTypes ==
    /\ spi_driver \in {"spi_interface", "spi"}
    /\ spi_user \subseteq Phases
    /\ spi_bitlen \in [Phases -> Nat]
    /\ spi_past.data \in {"none", "MOSI", "MISO"}
    /\ spi_past = [data |-> spi_past.data, command |-> spi_past.command]

Leftover ==
    /\ "COMMAND" \in spi_user <=> spi_past.command
    /\ "MISO" \in spi_user => spi_past.data = "MISO"
    /\ spi_driver = "spi" =>
        /\ "COMMAND" \in spi_user /\ "ADDR" \notin spi_user
        /\ "MOSI" \in spi_user => spi_past.data = "MOSI"
        /\ spi_bitlen["MOSI"] = 8 /\ spi_bitlen["MISO"] = 8

SpiInv == SpiTypes /\ Leftover /\ SpiPhases

\* The registers and the history are those of the last call.
Registers == <<spi_driver, spi_user, spi_bitlen, spi_asked, spi_sent, spi_past>>

-----------------------------------------------------------------------------
LEMMA SpiLenNat == ASSUME NEW n \in SpiLens PROVE n \in Nat
  BY SpiAssumption

LEMMA SpiInvInit == SpiInit => SpiInv
  BY DEF SpiInit, SpiInv, SpiTypes, Leftover, SpiPhases, Phases

\* Steps that only end a transaction, or start none.
LEMMA SpiInvSame ==
  ASSUME SpiInv, UNCHANGED Registers, spi_usr' => spi_usr
  PROVE  SpiInv'
  BY DEF SpiInv, SpiTypes, Leftover, SpiPhases, Registers

\* A call that starts a transaction: the registers and the history agree
\* again, and what differs from what was asked is excused.
LEMMA SpiInvStart ==
  ASSUME SpiInv, NEW user, NEW len, NEW asked, NEW wait,
         Start(user, len, asked, wait),
         user \subseteq Phases, len \in [Phases -> Nat],
         SpiTypes', Leftover',
         \A p \in Phases : Frame(user, len)[p] # asked[p] =>
            \/ /\ asked["MOSI"] = 0 /\ asked["MISO"] = 0
               /\ p = spi_past'.data
               /\ p = "MISO" \/ spi_driver = "spi"
            \/ p = "COMMAND" /\ ~spi_past'.command /\ Frame(user, len)[p] = 0
  PROVE  SpiInv'
<1>1. /\ spi_asked' = asked /\ spi_sent' = Frame(user, len)
      /\ spi_driver' = spi_driver
  BY DEF Start
<1>2. QED
  BY <1>1 DEF SpiInv, SpiPhases

LEMMA FrameIs ==
  ASSUME NEW user, NEW len, NEW p \in Phases
  PROVE  Frame(user, len)[p] = IF p \in user THEN len[p] ELSE 0
  BY DEF Frame

-----------------------------------------------------------------------------
LEMMA SpiInvSend ==
  ASSUME SpiInv, NEW cmd \in SpiLens, NEW addr \in SpiLens, NEW n \in SpiLens,
         SPIMasterSendData(cmd, addr, n)
  PROVE  SpiInv'
<1> DEFINE setup == Setup(Setup(spi_user, "COMMAND", cmd), "ADDR", addr)
           user == IF n = 0 THEN setup \ {"MOSI"}
                   ELSE Enable(setup, {"MOSI"}, {"MISO"})
           len == Lens(cmd, addr, "MOSI", n)
           asked == Asked(cmd, addr, n, 0)
<1>1. /\ spi_driver = "spi_interface" /\ Start(user, len, asked, "send")
      /\ spi_past' = [data |-> IF n = 0 THEN spi_past.data ELSE "MOSI",
                      command |-> cmd # 0]
  BY DEF SPIMasterSendData, SpiFree
<1>2. cmd \in Nat /\ addr \in Nat /\ n \in Nat
  BY SpiLenNat
<1>3. /\ user \subseteq Phases
      /\ "COMMAND" \in user <=> cmd # 0
      /\ "ADDR" \in user <=> addr # 0
      /\ "MOSI" \in user <=> n # 0
      /\ "MISO" \in user <=> n = 0 /\ "MISO" \in spi_user
  BY DEF SpiInv, SpiTypes, Setup, Enable, Phases
<1>4. /\ len \in [Phases -> Nat]
      /\ len["COMMAND"] = Bits(cmd) /\ len["ADDR"] = Bits(addr)
      /\ len["MOSI"] = Bits(n)
  BY <1>2 DEF SpiInv, SpiTypes, Lens, Phases, Bits
<1>5. /\ asked["COMMAND"] = 8 * cmd /\ asked["ADDR"] = 8 * addr
      /\ asked["MOSI"] = 8 * n /\ asked["MISO"] = 0
  BY DEF Asked
<1>6. spi_driver' = spi_driver /\ spi_user' = user /\ spi_bitlen' = len
  BY <1>1 DEF Start
<1> HIDE DEF setup, user, len, asked
<1>7. SpiTypes' /\ Leftover'
  BY <1>1, <1>3, <1>4, <1>6 DEF SpiInv, SpiTypes, Leftover
<1>8. ASSUME NEW p \in Phases, Frame(user, len)[p] # asked[p]
      PROVE  p = "MISO" /\ n = 0 /\ "MISO" \in spi_user
  BY <1>2, <1>3, <1>4, <1>5, <1>8, FrameIs DEF Phases, Bits
<1>9. QED
  BY <1>1, <1>3, <1>4, <1>5, <1>7, <1>8, SpiInvStart DEF SpiInv, Leftover

LEMMA SpiInvRecv ==
  ASSUME SpiInv, NEW cmd \in SpiLens, NEW addr \in SpiLens, NEW n \in SpiLens,
         SPIMasterRecvData(cmd, addr, n)
  PROVE  SpiInv'
<1> DEFINE setup == Setup(Setup(spi_user, "COMMAND", cmd), "ADDR", addr)
           user == IF n = 0 THEN setup \ {"MOSI", "MISO"}
                   ELSE Enable(setup, {"MISO"}, {"MOSI"})
           len == Lens(cmd, addr, "MISO", n)
           asked == Asked(cmd, addr, 0, n)
<1>1. /\ spi_driver = "spi_interface" /\ Start(user, len, asked, "recv")
      /\ spi_past' = [data |-> IF n = 0 THEN "none" ELSE "MISO",
                      command |-> cmd # 0]
  BY DEF SPIMasterRecvData, SpiFree
<1>2. cmd \in Nat /\ addr \in Nat /\ n \in Nat
  BY SpiLenNat
<1>3. /\ user \subseteq Phases
      /\ "COMMAND" \in user <=> cmd # 0
      /\ "ADDR" \in user <=> addr # 0
      /\ "MISO" \in user <=> n # 0
      /\ "MOSI" \notin user
  BY DEF SpiInv, SpiTypes, Setup, Enable, Phases
<1>4. /\ len \in [Phases -> Nat]
      /\ len["COMMAND"] = Bits(cmd) /\ len["ADDR"] = Bits(addr)
      /\ len["MISO"] = Bits(n)
  BY <1>2 DEF SpiInv, SpiTypes, Lens, Phases, Bits
<1>5. /\ asked["COMMAND"] = 8 * cmd /\ asked["ADDR"] = 8 * addr
      /\ asked["MOSI"] = 0 /\ asked["MISO"] = 8 * n
  BY DEF Asked
<1>6. spi_driver' = spi_driver /\ spi_user' = user /\ spi_bitlen' = len
  BY <1>1 DEF Start
<1> HIDE DEF setup, user, len, asked
<1>7. SpiTypes' /\ Leftover'
  BY <1>1, <1>3, <1>4, <1>6 DEF SpiInv, SpiTypes, Leftover
<1>8. ASSUME NEW p \in Phases
      PROVE  Frame(user, len)[p] = asked[p]
  BY <1>2, <1>3, <1>4, <1>5, FrameIs DEF Phases, Bits
<1>9. QED
  BY <1>1, <1>3, <1>4, <1>7, <1>8, SpiInvStart

\* A refused call starts nothing, but the next one finds what it set up.
LEMMA SpiInvRefused ==
  ASSUME SpiInv, NEW cmd \in SpiLens, NEW addr \in SpiLens, SpiRefused(cmd, addr)
  PROVE  SpiInv'
<1> DEFINE command == Setup(spi_user, "COMMAND", cmd)
<1>1. /\ spi_driver = "spi_interface" /\ ~spi_usr
      /\ UNCHANGED <<spi_driver, spi_usr>>
      /\ spi_past' = [spi_past EXCEPT !.command = cmd # 0]
      /\ spi_user' \in {command, Setup(command, "ADDR", addr)}
      /\ \/ spi_bitlen' = [spi_bitlen EXCEPT !["COMMAND"] = Bits(cmd)]
         \/ spi_bitlen' = [spi_bitlen EXCEPT !["COMMAND"] = Bits(cmd),
                                             !["ADDR"] = Bits(addr)]
  BY DEF SpiRefused, SpiFree
<1>2. Bits(cmd) \in Nat /\ Bits(addr) \in Nat
  BY SpiLenNat DEF Bits
<1>3. spi_bitlen' \in [Phases -> Nat]
  BY <1>1, <1>2 DEF SpiInv, SpiTypes, Phases
<1>4. /\ spi_user' \subseteq Phases
      /\ "COMMAND" \in spi_user' <=> cmd # 0
      /\ "MISO" \in spi_user' <=> "MISO" \in spi_user
  BY <1>1 DEF SpiInv, SpiTypes, Setup, Phases
<1>5. spi_past' = [data |-> spi_past.data, command |-> cmd # 0]
  BY <1>1 DEF SpiInv, SpiTypes
<1>6. QED
  BY <1>1, <1>3, <1>4, <1>5 DEF SpiInv, SpiTypes, Leftover, SpiPhases

\* The status calls: the command goes only if its phase was left enabled.
LEMMA SpiInvStatus ==
  ASSUME SpiInv, SPIMasterSendStatus \/ SPIMasterRecvStatus
  PROVE  SpiInv'
<1>1. PICK data \in {"MOSI", "MISO"}, other \in {"MOSI", "MISO"}, wait \in {"idle", "recv"} :
        /\ data # other
        /\ Start(Enable(spi_user, {data}, {other, "ADDR"}), StatusLens(data),
                 Status(data), wait)
        /\ spi_past' = [spi_past EXCEPT !.data = data]
        /\ spi_driver = "spi_interface"
  BY DEF SPIMasterSendStatus, SPIMasterRecvStatus, SpiFree
<1> DEFINE user == Enable(spi_user, {data}, {other, "ADDR"})
           len == StatusLens(data)
           asked == Status(data)
<1>2. /\ user \subseteq Phases
      /\ "COMMAND" \in user <=> "COMMAND" \in spi_user
      /\ "ADDR" \notin user /\ data \in user /\ other \notin user
  BY <1>1 DEF SpiInv, SpiTypes, Enable, Phases
<1>3. len \in [Phases -> Nat] /\ len["COMMAND"] = 8 /\ len[data] = 8
  BY DEF SpiInv, SpiTypes, StatusLens, Phases
<1>4. /\ asked["COMMAND"] = 8 /\ asked[data] = 8
      /\ asked["ADDR"] = 0 /\ asked[other] = 0
  BY <1>1 DEF Status, NoPhase, Phases
<1>5. spi_driver' = spi_driver /\ spi_user' = user /\ spi_bitlen' = len
  BY <1>1 DEF Start
<1>6. spi_past' = [data |-> data, command |-> spi_past.command]
  BY <1>1 DEF SpiInv, SpiTypes
<1>7. Start(user, len, asked, wait)
  BY <1>1
<1> HIDE DEF user, len, asked
<1>8. SpiTypes' /\ Leftover'
  BY <1>1, <1>2, <1>3, <1>5, <1>6 DEF SpiInv, SpiTypes, Leftover
<1>9. ASSUME NEW p \in Phases, Frame(user, len)[p] # asked[p]
      PROVE  p = "COMMAND" /\ ~spi_past'.command /\ Frame(user, len)[p] = 0
  BY <1>1, <1>2, <1>3, <1>4, <1>6, <1>9, FrameIs DEF Phases, SpiInv, Leftover
<1>10. \A p \in Phases : Frame(user, len)[p] # asked[p] =>
            \/ /\ asked["MOSI"] = 0 /\ asked["MISO"] = 0
               /\ p = spi_past'.data
               /\ p = "MISO" \/ spi_driver = "spi"
            \/ p = "COMMAND" /\ ~spi_past'.command /\ Frame(user, len)[p] = 0
  BY <1>9
<1> HIDE DEF len
<1>11. QED
  BY <1>2, <1>3, <1>7, <1>8, <1>10, SpiInvStart, ZenonT(60)

-----------------------------------------------------------------------------
\* The byte functions of spi.c.  A data phase that a call turns on is asked
\* for, one it turns off is not, and one it leaves alone means no data.
ByteCallAsks(p, on, off, asked, data) ==
    CASE p \in on -> asked[p] = 8 /\ data = p
      [] p \notin on /\ p \in off -> asked[p] = 0
      [] OTHER -> /\ data = spi_past.data
                  /\ asked["MOSI"] = 0 /\ asked["MISO"] = 0

LEMMA SpiInvByte ==
  ASSUME SpiInv, NEW on, NEW off, NEW asked \in [Phases -> Nat], NEW data, NEW wait,
         ByteCall(on, off, asked, data, wait),
         on \subseteq {"MOSI", "MISO"}, "COMMAND" \notin off,
         data \in {"none", "MOSI", "MISO"},
         asked["COMMAND"] # 0, asked["ADDR"] = 0,
         \A p \in {"MOSI", "MISO"} : ByteCallAsks(p, on, off, asked, data)
  PROVE  SpiInv'
<1> DEFINE user == Enable(spi_user, on, off)
           len == [spi_bitlen EXCEPT !["COMMAND"] = asked["COMMAND"]]
<1>1. /\ spi_driver = "spi" /\ Start(user, len, asked, wait)
      /\ spi_past' = [spi_past EXCEPT !.data = data]
  BY DEF ByteCall, SpiFree
<1>2. /\ user \subseteq Phases
      /\ "COMMAND" \in user /\ "ADDR" \notin user
      /\ \A p \in {"MOSI", "MISO"} : p \in user <=> p \in on \/ p \in spi_user \ off
  <2>1. /\ spi_user \subseteq Phases
        /\ "COMMAND" \in spi_user /\ "ADDR" \notin spi_user
    BY <1>1 DEF SpiInv, SpiTypes, Leftover
  <2>2. QED
    BY <2>1 DEF Enable, Phases
<1>3. /\ len \in [Phases -> Nat] /\ len["COMMAND"] = asked["COMMAND"]
      /\ len["MOSI"] = 8 /\ len["MISO"] = 8
  BY <1>1 DEF SpiInv, SpiTypes, Leftover, Phases
<1>4. spi_driver' = spi_driver /\ spi_user' = user /\ spi_bitlen' = len
  BY <1>1 DEF Start
<1>5. spi_past' = [data |-> data, command |-> spi_past.command]
  BY <1>1 DEF SpiInv, SpiTypes
<1> HIDE DEF user, len
<1>6. \A p \in {"MOSI", "MISO"} : p \in user => data = p
  BY <1>1, <1>2 DEF SpiInv, Leftover, ByteCallAsks
<1>7. SpiTypes' /\ Leftover'
  BY <1>1, <1>2, <1>3, <1>4, <1>5, <1>6 DEF SpiInv, SpiTypes, Leftover
<1>8. ASSUME NEW p \in Phases, Frame(user, len)[p] # asked[p]
      PROVE  asked["MOSI"] = 0 /\ asked["MISO"] = 0 /\ p = data
  BY <1>2, <1>3, <1>6, <1>8, FrameIs DEF Phases, ByteCallAsks
<1>9. QED
  BY <1>1, <1>2, <1>3, <1>5, <1>7, <1>8, SpiInvStart

LEMMA SpiInvBytes ==
  ASSUME SpiInv, spi_lcd_9bit_write \/ spi_mast_byte_write
                 \/ spi_byte_write_espslave \/ spi_byte_read_espslave
  PROVE  SpiInv'
<1>1. /\ \A bits \in Nat : /\ CommandOnly(bits) \in [Phases -> Nat]
                           /\ CommandOnly(bits)["COMMAND"] = bits
                           /\ CommandOnly(bits)["ADDR"] = 0
                           /\ CommandOnly(bits)["MOSI"] = 0
                           /\ CommandOnly(bits)["MISO"] = 0
  BY DEF CommandOnly, NoPhase, Phases
<1>2. /\ Status("MOSI") \in [Phases -> Nat] /\ Status("MISO") \in [Phases -> Nat]
      /\ Status("MOSI")["COMMAND"] = 8 /\ Status("MISO")["COMMAND"] = 8
      /\ Status("MOSI")["ADDR"] = 0 /\ Status("MISO")["ADDR"] = 0
      /\ Status("MOSI")["MOSI"] = 8 /\ Status("MOSI")["MISO"] = 0
      /\ Status("MISO")["MISO"] = 8 /\ Status("MISO")["MOSI"] = 0
  BY DEF Status, NoPhase, Phases
<1>3. CASE spi_lcd_9bit_write
  <2> DEFINE asked == CommandOnly(9)
  <2>1. ByteCall({}, {}, asked, spi_past.data, "idle")
    BY <1>3 DEF spi_lcd_9bit_write
  <2>2. spi_past.data \in {"none", "MOSI", "MISO"}
    BY DEF SpiInv, SpiTypes
  <2>3. /\ asked \in [Phases -> Nat] /\ asked["COMMAND"] # 0 /\ asked["ADDR"] = 0
        /\ \A p \in {"MOSI", "MISO"} :
                ByteCallAsks(p, {}, {}, asked, spi_past.data)
    BY <1>1 DEF ByteCallAsks
  <2> HIDE DEF asked
  <2>4. QED
    BY <2>1, <2>2, <2>3, SpiInvByte
<1>4. CASE spi_mast_byte_write
  <2> DEFINE asked == CommandOnly(8)
             off == {"MOSI", "MISO"}
  <2>1. ByteCall({}, off, asked, "none", "recv")
    BY <1>4 DEF spi_mast_byte_write
  <2>2. /\ asked \in [Phases -> Nat] /\ asked["COMMAND"] # 0 /\ asked["ADDR"] = 0
        /\ \A p \in {"MOSI", "MISO"} : ByteCallAsks(p, {}, off, asked, "none")
        /\ "COMMAND" \notin off
    BY <1>1 DEF ByteCallAsks
  <2> HIDE DEF asked, off
  <2>3. QED
    BY <2>1, <2>2, SpiInvByte
<1>5. CASE spi_byte_write_espslave
  <2> DEFINE asked == Status("MOSI")
             on == {"MOSI"}
             data == "MOSI"
             off == {"MISO", "ADDR"}
  <2>1. ByteCall(on, off, asked, data, "idle")
    BY <1>5 DEF spi_byte_write_espslave
  <2>2. /\ asked \in [Phases -> Nat] /\ asked["COMMAND"] # 0 /\ asked["ADDR"] = 0
        /\ \A p \in {"MOSI", "MISO"} : ByteCallAsks(p, on, off, asked, data)
        /\ "COMMAND" \notin off /\ on \subseteq {"MOSI", "MISO"}
        /\ data \in {"none", "MOSI", "MISO"}
    BY <1>2 DEF ByteCallAsks
  <2> HIDE DEF asked, on, off, data
  <2>3. QED
    BY <2>1, <2>2, SpiInvByte
<1>6. CASE spi_byte_read_espslave
  <2> DEFINE asked == Status("MISO")
             on == {"MISO"}
             data == "MISO"
             off == {"MOSI", "ADDR"}
  <2>1. ByteCall(on, off, asked, data, "recv")
    BY <1>6 DEF spi_byte_read_espslave
  <2>2. /\ asked \in [Phases -> Nat] /\ asked["COMMAND"] # 0 /\ asked["ADDR"] = 0
        /\ \A p \in {"MOSI", "MISO"} : ByteCallAsks(p, on, off, asked, data)
        /\ "COMMAND" \notin off /\ on \subseteq {"MOSI", "MISO"}
        /\ data \in {"none", "MOSI", "MISO"}
    BY <1>2 DEF ByteCallAsks
  <2> HIDE DEF asked, on, off, data
  <2>3. QED
    BY <2>1, <2>2, SpiInvByte
<1>7. QED
  BY <1>3, <1>4, <1>5, <1>6

-----------------------------------------------------------------------------
LEMMA SpiInvNext == SpiInv /\ [SpiNext]_SpiVars => SpiInv'
<1> SUFFICES ASSUME SpiInv, [SpiNext]_SpiVars
             PROVE  SpiInv'
  OBVIOUS
<1>1. CASE SpiMasterInit
  BY <1>1 DEF SpiMasterInit, SpiInv, SpiTypes, Leftover, SpiPhases, Phases
<1>2. CASE \E cmd, addr, n \in SpiLens :
             SPIMasterSendData(cmd, addr, n) \/ SPIMasterRecvData(cmd, addr, n)
  BY <1>2, SpiInvSend, SpiInvRecv
<1>3. CASE \E cmd, addr \in SpiLens : SpiRefused(cmd, addr)
  BY <1>3, SpiInvRefused
<1>4. CASE SPIMasterSendStatus \/ SPIMasterRecvStatus
  BY <1>4, SpiInvStatus
<1>5. CASE SpiInterrupts \/ SPIIntClear \/ SpiTransDone \/ SpiReturn
           \/ UNCHANGED SpiVars
  <2>1. UNCHANGED Registers /\ (spi_usr' => spi_usr)
    BY <1>5 DEF SpiInterrupts, SPIIntClear, SpiTransDone, SpiReturn, SpiVars,
                Registers
  <2>2. QED
    BY <2>1, SpiInvSame
<1>6. CASE spi_lcd_9bit_write \/ spi_mast_byte_write
           \/ spi_byte_write_espslave \/ spi_byte_read_espslave
  BY <1>6, SpiInvBytes
<1>7. QED
  BY <1>1, <1>2, <1>3, <1>4, <1>5, <1>6 DEF SpiNext

\* Whatever calls came before, refused ones included, a transaction has the
\* phases its call asked for, but for the data phase a call without data finds
\* and the command a status call does without (spi_interface.c:256-448).
THEOREM TransactionsHaveTheirPhases == SpiSpec => []SpiPhases
<1>1. SpiInv => SpiPhases
  BY DEF SpiInv
<1>2. QED
  BY SpiInvInit, SpiInvNext, <1>1, PTL DEF SpiSpec

-----------------------------------------------------------------------------
(***************************************************************************)
(* SlavePackets holds in every behaviour of SpiSlave, for every number of    *)
(* packets.  The handler's events, its place and the master's transaction    *)
(* have to be followed together: while an event of a write is on its way     *)
(* (Pending), the packet in SPI_W0..W7 is whole, it is the one after the     *)
(* last taken, and the master is held.                                       *)
(***************************************************************************)
SlaveTypes ==
    /\ slv_done \subseteq DoneEvents /\ regvalue \subseteq DoneEvents
    /\ slv_at \in {"idle", "clear", "low", "high", "ready", "end"}
    /\ mst_at \in {"idle", "write"}
    /\ mst_ready \in BOOLEAN
    /\ w_in \in [Halves -> Nat] /\ spi_data \in [Halves -> Nat]
    /\ written \in Nat /\ taken \in Nat

Pending ==
    \/ "WR_BUF_DONE" \in slv_done
    \/ slv_at = "clear" /\ "WR_BUF_DONE" \in regvalue
    \/ slv_at \in Halves

Held == ~mst_ready /\ mst_at = "idle"

SlaveInv ==
    /\ SlaveTypes
    /\ taken \in {written - 1, written}
    /\ Pending => Held /\ written = taken + 1 /\ w_in = Both(written)
    /\ slv_at \in Halves \union {"ready"} => "WR_BUF_DONE" \notin slv_done
    /\ slv_at = "ready" => Held
    /\ slv_at = "ready" \/ mst_ready \/ mst_at = "write" => taken = written
    /\ mst_at = "write" => ~mst_ready
    /\ IF slv_at = "high"
       THEN spi_data["low"] = written /\ spi_data["high"] = taken
       ELSE spi_data = Both(taken)

LEMMA SlaveInvInit == SlaveInit => SlaveInv
  BY DEF SlaveInit, SlaveInv, SlaveTypes, Pending, Held, Both, Halves, DoneEvents

LEMMA SlaveInvNext == SlaveInv /\ [SlaveNext]_SlaveVars => SlaveInv'
<1> SUFFICES ASSUME SlaveInv, [SlaveNext]_SlaveVars
             PROVE  SlaveInv'
  OBVIOUS
<1> USE DEF SlaveInv, SlaveTypes, Pending, Held, Both, Halves, DoneEvents,
            master, lines
<1>1. CASE MasterWrites
  <2>1. mst_ready /\ ~Pending /\ taken = written
    BY <1>1 DEF MasterWrites
  <2>2. ~mst_ready' /\ ~Pending' /\ slv_at # "ready"
    BY <1>1, <2>1 DEF MasterWrites
  <2>3. w_in' \in [Halves -> Nat]
    BY <1>1 DEF MasterWrites
  <2>4. mst_ready' \in BOOLEAN
    BY <1>1 DEF MasterWrites
  <2>5. QED
    BY <1>1, <2>1, <2>2, <2>3, <2>4 DEF MasterWrites
<1>2. CASE MasterWritten
  BY <1>2 DEF MasterWritten
<1>3. CASE MasterReads
  BY <1>3 DEF MasterReads
<1>4. CASE set_miso_data
  BY <1>4 DEF set_miso_data
<1>5. CASE SlaveIsr
  BY <1>5 DEF SlaveIsr
<1>6. CASE SlaveIsrClear
  BY <1>6 DEF SlaveIsrClear
<1>7. CASE SlaveIsrCopy
  <2>1. CASE slv_at = "low"
    BY <1>7, <2>1 DEF SlaveIsrCopy
  <2>2. CASE slv_at = "high"
    <3>1. spi_data' = Both(taken')
      BY <1>7, <2>2 DEF SlaveIsrCopy
    <3>2. QED
      BY <1>7, <2>2, <3>1 DEF SlaveIsrCopy
  <2>3. QED
    BY <1>7, <2>1, <2>2 DEF SlaveIsrCopy
<1>8. CASE SlaveIsrReady
  BY <1>8 DEF SlaveIsrReady
<1>9. CASE SlaveIsrEnd
  BY <1>9 DEF SlaveIsrEnd
<1>10. CASE UNCHANGED SlaveVars
  BY <1>10 DEF SlaveVars
<1>11. QED
  BY <1>1, <1>2, <1>3, <1>4, <1>5, <1>6, <1>7, <1>8, <1>9, <1>10 DEF SlaveNext

\* What the handler took over is always one whole packet, taken once, and a
\* master that may write finds the last one taken (spi.c:397-412).
THEOREM SlaveTakesWholePackets == SlaveSpec => []SlavePackets
<1>1. SlaveInv => SlavePackets
  BY DEF SlaveInv, SlaveTypes, SlavePackets, Both, Halves, Held
<1>2. QED
  BY SlaveInvInit, SlaveInvNext, <1>1, PTL DEF SlaveSpec

-----------------------------------------------------------------------------
(***************************************************************************)
(* OverlapSelected holds in every behaviour of SpiOverlap, for every set of  *)
(* dividers.  It is inductive once it is known what the two backups hold     *)
(* (Backups), and that nothing can be selected before they are taken.        *)
(***************************************************************************)
Regs == [flash_mode : BOOLEAN, read_mode : {"reset", "flash"}, falling : BOOLEAN,
         cs_setup : BOOLEAN, clock : [equ_sysclk : BOOLEAN, div : Int],
         cs : {"all", "CS0", "CS1", "CS2"}]

OverlapTypes ==
    /\ spi_io_80m \in BOOLEAN
    /\ hspi \in Regs
    /\ backup \in [flag : BOOLEAN, flash : Regs, dev : Regs]
    /\ hspi_dev_conf \in [Devices -> [active : BOOLEAN, clk_polar : Int, clk_div : Int]]
    /\ selected_dev_num \in Devices \union {"HSPI_IDLE"}

Backups ==
    IF backup.flag
    THEN /\ backup.flash.flash_mode = TRUE /\ backup.dev.flash_mode = FALSE
         /\ backup.flash.read_mode = "flash" /\ backup.dev.read_mode = "flash"
         /\ backup.flash.clock.equ_sysclk = spi_io_80m
         /\ backup.dev.clock.equ_sysclk = FALSE
    ELSE /\ \A d \in Devices : ~hspi_dev_conf[d].active
         /\ hspi.flash_mode = TRUE

\* The flash is read with one edge: hspi_overlap_flash_init has no choice.
FlashEdge == hspi_dev_conf["SPI_CS0_FLASH"].clk_polar = 0

OverlapInv == OverlapTypes /\ Backups /\ FlashEdge /\ OverlapSelected

-----------------------------------------------------------------------------
LEMMA DivsAreInts == ClockDivs \subseteq Int
  BY OverlapAssumption

LEMMA OverlapInvInit == OverlapInit => OverlapInv
<1> SUFFICES ASSUME OverlapInit PROVE OverlapInv
  OBVIOUS
<1>1. OverlapTypes
  BY DEF OverlapInit, OverlapTypes, Regs, Div, Devices
<1>2. Backups /\ FlashEdge /\ OverlapSelected
  BY DEF OverlapInit, Backups, FlashEdge, OverlapSelected, Div, Devices
<1>3. QED
  BY <1>1, <1>2 DEF OverlapInv

-----------------------------------------------------------------------------
LEMMA OverlapInvDevInit ==
  ASSUME OverlapInv, NEW dev \in Devices, NEW polar \in Int, NEW div \in Int,
         dev = "SPI_CS0_FLASH" => polar = 0,
         hspi_master_dev_init(dev, polar, div)
  PROVE  OverlapInv'
<1>1. /\ hspi_dev_conf' = [hspi_dev_conf EXCEPT
            ![dev] = [active |-> TRUE, clk_polar |-> polar, clk_div |-> div]]
      /\ UNCHANGED <<spi_io_80m, overlap>>
      /\ mtdo' = IF dev = "HSPI_CS_DEV" THEN "HSPI" ELSE mtdo
  BY DEF hspi_master_dev_init
<1>2. /\ hspi_dev_conf' \in [Devices -> [active : BOOLEAN, clk_polar : Int, clk_div : Int]]
      /\ FlashEdge'
  BY <1>1 DEF OverlapInv, OverlapTypes, FlashEdge, Devices
<1>3. CASE ~backup.flag
  <2> DEFINE flash == [hspi EXCEPT
            !.read_mode = "flash",
            !.clock = [@ EXCEPT !.equ_sysclk = spi_io_80m]]
  <2>1. /\ backup' = [flag |-> TRUE, flash |-> flash, dev |-> spi_master_init(flash)]
        /\ hspi' = spi_master_init(flash)
        /\ selected_dev_num' = "HSPI_IDLE"
    BY <1>3 DEF hspi_master_dev_init
  <2>2. /\ flash \in Regs
        /\ flash.flash_mode = TRUE /\ flash.read_mode = "flash"
        /\ flash.clock.equ_sysclk = spi_io_80m
    BY <1>3 DEF OverlapInv, OverlapTypes, Backups, Regs
  <2> HIDE DEF flash
  <2>3. /\ spi_master_init(flash) \in Regs
        /\ spi_master_init(flash).flash_mode = FALSE
        /\ spi_master_init(flash).read_mode = "flash"
        /\ spi_master_init(flash).clock.equ_sysclk = FALSE
    <3> DEFINE clock == MasterClock
               regs == [flash EXCEPT !.flash_mode = FALSE, !.cs_setup = TRUE,
                                     !.clock = clock]
    <3>1. clock \in [equ_sysclk : BOOLEAN, div : Int] /\ clock.equ_sysclk = FALSE
      BY DEF MasterClock, Div
    <3>2. spi_master_init(flash) = regs
      BY DEF spi_master_init
    <3> HIDE DEF clock
    <3>3. /\ regs \in Regs /\ regs.flash_mode = FALSE
          /\ regs.read_mode = flash.read_mode /\ regs.clock = clock
      BY <2>2, <3>1 DEF Regs
    <3>4. QED
      BY <2>2, <3>1, <3>2, <3>3
  <2>4. OverlapTypes'
    BY <1>1, <1>2, <2>1, <2>2, <2>3 DEF OverlapInv, OverlapTypes
  <2>5. Backups'
    BY <1>1, <2>1, <2>2, <2>3 DEF Backups
  <2>6. QED
    BY <1>2, <2>1, <2>4, <2>5 DEF OverlapInv, OverlapSelected
<1>4. CASE backup.flag
  <2>1. /\ UNCHANGED <<backup, hspi, selected_dev_num>>
        /\ selected_dev_num # "HSPI_IDLE" => stale' = stale \union {dev}
    BY <1>4 DEF hspi_master_dev_init
  <2>2. OverlapTypes' /\ Backups'
    BY <1>1, <1>2, <1>4, <2>1 DEF OverlapInv, OverlapTypes, Backups
  <2>3. ASSUME selected_dev_num # "HSPI_IDLE"
        PROVE  /\ selected_dev_num \notin stale' =>
                    /\ selected_dev_num \notin stale
                    /\ hspi_dev_conf'[selected_dev_num] = hspi_dev_conf[selected_dev_num]
               /\ "HSPI_CS_DEV" \notin stale' =>
                    /\ "HSPI_CS_DEV" \notin stale
                    /\ mtdo' = mtdo
    BY <1>1, <2>1, <2>3 DEF OverlapInv, OverlapTypes
  <2>4. OverlapSelected'
    BY <1>1, <1>4, <2>1, <2>3 DEF OverlapInv, OverlapSelected
  <2>5. QED
    BY <1>2, <2>2, <2>4 DEF OverlapInv
<1>5. QED
  BY <1>3, <1>4 DEF OverlapInv, OverlapTypes

-----------------------------------------------------------------------------
\* The registers recovered or kept when new is selected after old.
LEMMA RecoveredRegs ==
  ASSUME OverlapInv, backup.flag, NEW new \in Devices, new # selected_dev_num
  PROVE  LET regs == Recovered(selected_dev_num, new) IN
         /\ regs \in Regs
         /\ regs.flash_mode = (new = "SPI_CS0_FLASH")
         /\ regs.read_mode = "flash"
         /\ regs.clock.equ_sysclk =
                (spi_io_80m /\ (new = "SPI_CS0_FLASH" \/ selected_dev_num \in Guests))
<1> DEFINE old == selected_dev_num
           regs == Recovered(old, new)
<1>1. /\ backup.flash \in Regs /\ backup.dev \in Regs /\ hspi \in Regs
      /\ old \in Devices \union {"HSPI_IDLE"} /\ spi_io_80m \in BOOLEAN
  BY DEF OverlapInv, OverlapTypes
<1>2. CASE new = "SPI_CS0_FLASH"
  <2>1. regs = backup.flash
    BY <1>2 DEF Recovered
  <2>2. /\ backup.flash.flash_mode = TRUE /\ backup.flash.read_mode = "flash"
        /\ backup.flash.clock.equ_sysclk = spi_io_80m
    BY DEF OverlapInv, Backups
  <2>3. QED
    BY <1>1, <1>2, <2>1, <2>2
<1>3. CASE new # "SPI_CS0_FLASH" /\ old \in {"SPI_CS0_FLASH", "HSPI_IDLE"}
  <2>1. regs = backup.dev
    BY <1>3 DEF Recovered
  <2>2. /\ backup.dev.flash_mode = FALSE /\ backup.dev.read_mode = "flash"
        /\ backup.dev.clock.equ_sysclk = FALSE
    BY DEF OverlapInv, Backups
  <2>3. old \notin Guests
    BY <1>3 DEF Guests
  <2>4. QED
    BY <1>1, <1>3, <2>1, <2>2, <2>3
<1>4. CASE new # "SPI_CS0_FLASH" /\ old \notin {"SPI_CS0_FLASH", "HSPI_IDLE"}
  <2>1. /\ (old = "SPI_CS0_FLASH") = hspi.flash_mode /\ hspi.read_mode = "flash"
        /\ hspi.clock.equ_sysclk = (spi_io_80m /\ old # "HSPI_CS_DEV")
    BY <1>4 DEF OverlapInv, OverlapSelected
  <2>2. hspi.flash_mode = FALSE
    <3>1. hspi.flash_mode \in BOOLEAN
      BY <1>1 DEF Regs
    <3>2. QED
      BY <1>4, <2>1, <3>1
  <2>3. old \in Guests <=> old # "HSPI_CS_DEV"
    BY <1>1, <1>4 DEF Devices, Guests
  <2>4. regs \in {hspi, [hspi EXCEPT !.cs_setup = TRUE], [hspi EXCEPT !.cs_setup = FALSE]}
    BY <1>4 DEF Recovered, Switched, hspi_overlap_init, hspi_overlap_deinit
  <2> HIDE DEF regs
  <2>5. /\ regs \in Regs /\ regs.flash_mode = hspi.flash_mode
        /\ regs.read_mode = hspi.read_mode /\ regs.clock = hspi.clock
    BY <1>1, <2>4, ZenonT(60) DEF Regs
  <2>6. QED
    BY <1>4, <2>1, <2>2, <2>3, <2>5 DEF regs
<1>5. QED
  BY <1>2, <1>3, <1>4

LEMMA OverlapInvSel ==
  ASSUME OverlapInv, NEW new \in Devices, hspi_dev_sel(new)
  PROVE  OverlapInv'
<1> DEFINE old == selected_dev_num
           regs == Recovered(old, new)
           clock == SelectedClock(old, new, regs.clock)
           polar == hspi_dev_conf[new].clk_polar
<1>1. backup.flag /\ backup.flag \in BOOLEAN
  BY DEF OverlapInv, OverlapTypes, Backups, hspi_dev_sel
<1>2. /\ selected_dev_num' = new
      /\ UNCHANGED <<spi_io_80m, backup, hspi_dev_conf>>
  BY DEF hspi_dev_sel
<1>3. CASE old = new
  <2>1. UNCHANGED OverlapVars
    BY <1>2, <1>3 DEF hspi_dev_sel, OverlapVars
  <2>2. QED
    BY <2>1 DEF OverlapVars, OverlapInv, OverlapTypes, Backups, FlashEdge,
                OverlapSelected
<1>4. CASE old # new
  <2>1. /\ regs \in Regs
        /\ regs.flash_mode = (new = "SPI_CS0_FLASH")
        /\ regs.read_mode = "flash"
        /\ regs.clock.equ_sysclk =
                (spi_io_80m /\ (new = "SPI_CS0_FLASH" \/ old \in Guests))
    BY <1>1, <1>4, RecoveredRegs
  <2>2. /\ hspi' = [regs EXCEPT
              !.clock = clock,
              !.falling = new # "SPI_CS0_FLASH" /\ polar = 1,
              !.cs = ChipSelect(new)]
        /\ stale' = stale \ {new}
    BY <1>4 DEF hspi_dev_sel
  <2>3. IF new = "HSPI_CS_DEV" THEN overlap' = FALSE /\ mtdo' = "HSPI"
        ELSE IF Outside(old) THEN overlap' = TRUE /\ mtdo' = "GPIO15"
        ELSE UNCHANGED <<overlap, mtdo>>
    BY <1>4 DEF hspi_dev_sel
  <2>4. /\ clock \in [equ_sysclk : BOOLEAN, div : Int]
        /\ clock.equ_sysclk = (spi_io_80m /\ new # "HSPI_CS_DEV")
        /\ clock.equ_sysclk \/ new = "SPI_CS0_FLASH"
                            \/ clock.div = hspi_dev_conf[new].clk_div
    <3>1. /\ regs.clock \in [equ_sysclk : BOOLEAN, div : Int]
          /\ hspi_dev_conf[new].clk_div \in Int /\ spi_io_80m \in BOOLEAN
      BY <2>1 DEF OverlapInv, OverlapTypes, Regs
    <3> HIDE DEF regs
    <3>2. CASE new = "SPI_CS0_FLASH"
      BY <2>1, <3>1, <3>2 DEF SelectedClock, Equ
    <3>3. CASE new \in Guests
      BY <2>1, <3>1, <3>3 DEF SelectedClock, Equ, Div, Guests
    <3>4. CASE new = "HSPI_CS_DEV"
      BY <3>1, <3>4 DEF SelectedClock, Div, Guests
    <3>5. QED
      BY <3>2, <3>3, <3>4 DEF Devices, Guests
  <2>5. ChipSelect(new) \in {"CS0", "CS1", "CS2"}
    BY DEF ChipSelect
  <2> HIDE DEF regs, clock, polar
  <2>6. /\ hspi' \in Regs
        /\ hspi'.flash_mode = regs.flash_mode /\ hspi'.read_mode = regs.read_mode
        /\ hspi'.clock = clock /\ hspi'.cs = ChipSelect(new)
        /\ hspi'.falling = (new # "SPI_CS0_FLASH" /\ polar = 1)
    BY <2>1, <2>2, <2>4, <2>5 DEF Regs
  <2>7. overlap' = (new # "HSPI_CS_DEV")
    BY <1>1, <1>4, <2>3 DEF OverlapInv, OverlapTypes, OverlapSelected, Outside, Devices
  <2>8. "HSPI_CS_DEV" \notin stale' => mtdo' = IF overlap' THEN "GPIO15" ELSE "HSPI"
    BY <1>1, <1>4, <2>2, <2>3, <2>7
       DEF OverlapInv, OverlapTypes, OverlapSelected, Outside, Devices
  <2>9. OverlapTypes' /\ Backups' /\ FlashEdge'
    BY <1>1, <1>2, <2>6 DEF OverlapInv, OverlapTypes, Backups, FlashEdge
  <2>10. hspi'.falling = (hspi_dev_conf'[new].clk_polar = 1)
    BY <1>2, <2>6 DEF OverlapInv, FlashEdge, polar
  <2>11. OverlapSelected'
    BY <1>2, <2>1, <2>4, <2>6, <2>7, <2>8, <2>10 DEF OverlapSelected
  <2>12. QED
    BY <2>9, <2>11 DEF OverlapInv
<1>5. QED
  BY <1>3, <1>4

-----------------------------------------------------------------------------
LEMMA OverlapInvNext == OverlapInv /\ [OverlapNext]_OverlapVars => OverlapInv'
<1> SUFFICES ASSUME OverlapInv, [OverlapNext]_OverlapVars
             PROVE  OverlapInv'
  OBVIOUS
<1>1. CASE \E dev \in Devices \ {"SPI_CS0_FLASH"}, polar \in {0, 1}, div \in ClockDivs :
              hspi_master_dev_init(dev, polar, div)
  BY <1>1, OverlapInvDevInit, DivsAreInts
<1>2. CASE \E dev \in Devices \ {"SPI_CS0_FLASH"} : hspi_dev_sel(dev)
  BY <1>2, OverlapInvSel
<1>3. CASE hspi_overlap_flash_init
  BY <1>3, OverlapInvDevInit DEF hspi_overlap_flash_init, Devices
<1>4. CASE hspi_overlap_read_flash_data
  BY <1>4, OverlapInvSel DEF hspi_overlap_read_flash_data, Devices
<1>5. CASE UNCHANGED OverlapVars
  BY <1>5 DEF OverlapVars, OverlapInv, OverlapTypes, Backups, FlashEdge,
              OverlapSelected
<1>6. QED
  BY <1>1, <1>2, <1>3, <1>4, <1>5 DEF OverlapNext

\* In whatever order devices are initialised and selected and the flash is
\* read, the registers are those of the selected device (spi_overlap.c:206-400).
THEOREM SelectedDeviceIsSetUp == OverlapSpec => []OverlapSelected
<1>1. OverlapInv => OverlapSelected
  BY DEF OverlapInv
<1>2. QED
  BY OverlapInvInit, OverlapInvNext, <1>1, PTL DEF OverlapSpec

-----------------------------------------------------------------------------
(***************************************************************************)
(* I2cFrames holds in every behaviour of I2cMaster, for every set of bytes.  *)
(* What is heard in a trace is summed up setting by setting; the sum is what *)
(* one expects because a trace with another one would have a first setting   *)
(* at which they differ.                                                   *)
(***************************************************************************)
\* Every non-empty set of numbers has a least one: what holds of all smaller
\* numbers too holds of all.
LEMMA LeastNumber ==
  ASSUME NEW T, T \subseteq Nat, T # {}
  PROVE  \E x \in T : \A y \in T : x <= y
<1> DEFINE R == {ss \in Nat \X Nat : ss[1] < ss[2]}
<1>1. R = OpToRel(<, Nat)
  BY Zenon DEF OpToRel
<1>2. IsWellFoundedOn(R, Nat)
  BY <1>1, NatLessThanWellFounded, Zenon
<1> HIDE DEF R
<1>3. PICK x \in T : \A y \in T : ~ (<<y, x>> \in R)
  BY <1>2, WFMin
<1>4. ASSUME NEW y \in T PROVE x <= y
  <2>1. x \in Nat /\ y \in Nat
    OBVIOUS
  <2>2. y < x => <<y, x>> \in R
    BY <2>1 DEF R
  <2>3. QED
    BY <1>3, <2>1, <2>2
<1>5. QED
  BY <1>4

\* The first n symbols of a word.
Prefix(word, n) == [i \in 1 .. n |-> word[i]]

LEMMA PrefixGrows ==
  ASSUME NEW word, NEW n \in Nat
  PROVE  Prefix(word, n) \o <<word[n + 1]>> = Prefix(word, n + 1)
<1> DEFINE S == {word[i] : i \in 1 .. n + 1}
           p == Prefix(word, n)
           q == Prefix(word, n + 1)
           j == p \o <<word[n + 1]>>
<1>1. /\ p \in Seq(S) /\ Len(p) = n /\ \A i \in 1 .. n : p[i] = word[i]
      /\ q \in Seq(S) /\ Len(q) = n + 1 /\ \A i \in 1 .. n + 1 : q[i] = word[i]
      /\ word[n + 1] \in S
  BY DEF Prefix
<1> HIDE DEF S, p, q
<1>2. j \in Seq(S) /\ Len(j) = n + 1
  BY <1>1
<1>3. ASSUME NEW i \in 1 .. n + 1 PROVE j[i] = q[i]
  BY <1>1
<1> HIDE DEF j
<1>4. j = [i \in 1 .. n + 1 |-> j[i]] /\ q = [i \in 1 .. n + 1 |-> q[i]]
  BY <1>1, <1>2
<1>5. j = q
  BY <1>3, <1>4
<1>6. QED
  BY <1>5 DEF j, p, q

LEMMA PrefixStays ==
  ASSUME NEW word, NEW n \in Nat
  PROVE  Prefix(word, n) \o <<>> = Prefix(word, n)
<1> DEFINE p == Prefix(word, n)
<1>1. p \in Seq({word[i] : i \in 1 .. n})
  BY DEF Prefix
<1> HIDE DEF p
<1>2. p \o <<>> = p
  BY <1>1
<1>3. QED
  BY <1>2 DEF p

LEMMA EmptyPrefix == ASSUME NEW word PROVE Prefix(word, 0) = <<>>
  BY DEF Prefix

\* To know what a trace says it is enough to know how many symbols have been
\* heard after each of its settings.
LEMMA SymbolsAre ==
  ASSUME NEW trace, NEW word, NEW count, Len(trace) \in Nat \ {0},
         \A k \in 1 .. Len(trace) : count[k] \in Nat,
         count[1] = 0,
         \A k \in 2 .. Len(trace) :
            \/ /\ Heard(trace[k - 1], trace[k]) = <<>>
               /\ count[k] = count[k - 1]
            \/ /\ Heard(trace[k - 1], trace[k]) = <<word[count[k]]>>
               /\ count[k] = count[k - 1] + 1
  PROVE  Symbols(trace) = Prefix(word, count[Len(trace)])
<1> DEFINE n == Len(trace)
           F == CHOOSE Said : Said = [k \in 1 .. n |->
                    IF k = 1 THEN <<>> ELSE Said[k - 1] \o Heard(trace[k - 1], trace[k])]
<1>a. ASSUME NEW k \in 2 .. n
      PROVE  Prefix(word, count[k]) = Prefix(word, count[k - 1]) \o Heard(trace[k - 1], trace[k])
  <2> DEFINE c == count[k - 1]
             h == Heard(trace[k - 1], trace[k])
  <2>1. c \in Nat
    OBVIOUS
  <2>2. \/ h = <<>> /\ count[k] = c
        \/ h = <<word[count[k]]>> /\ count[k] = c + 1
    OBVIOUS
  <2> HIDE DEF c, h
  <2>3. Prefix(word, count[k]) = Prefix(word, c) \o h
    <3>1. CASE h = <<>> /\ count[k] = c
      BY <2>1, <3>1, PrefixStays
    <3>2. CASE h = <<word[count[k]]>> /\ count[k] = c + 1
      BY <2>1, <3>2, PrefixGrows
    <3>3. QED
      BY <2>2, <3>1, <3>2
  <2>4. QED
    BY <2>3 DEF c, h
<1>1. Symbols(trace) = F[n]
  BY Zenon DEF Symbols
<1>2. F = [k \in 1 .. n |->
            IF k = 1 THEN <<>> ELSE F[k - 1] \o Heard(trace[k - 1], trace[k])]
  <2> DEFINE G == [k \in 1 .. n |-> Prefix(word, count[k])]
  <2>1. ASSUME NEW k \in 1 .. n
        PROVE  G[k] = IF k = 1 THEN <<>> ELSE G[k - 1] \o Heard(trace[k - 1], trace[k])
    <3>1. CASE k = 1
      BY <3>1, EmptyPrefix
    <3>2. CASE k # 1
      <4>1. k \in 2 .. n /\ k - 1 \in 1 .. n
        BY <3>2
      <4>2. G[k] = Prefix(word, count[k]) /\ G[k - 1] = Prefix(word, count[k - 1])
        BY <4>1
      <4>3. Prefix(word, count[k]) = Prefix(word, count[k - 1]) \o Heard(trace[k - 1], trace[k])
        BY <1>a, <4>1
      <4> QED
        BY <3>2, <4>2, <4>3
    <3>3. QED
      BY <3>1, <3>2
  <2>2. G = [k \in 1 .. n |->
              IF k = 1 THEN <<>> ELSE G[k - 1] \o Heard(trace[k - 1], trace[k])]
    BY <2>1
  <2>3. QED
    BY <2>2, Zenon
<1> HIDE DEF F
<1>3. ASSUME NEW k \in 1 .. n
      PROVE  F[k] = IF k = 1 THEN <<>> ELSE F[k - 1] \o Heard(trace[k - 1], trace[k])
  BY <1>2
<1>4. ASSUME NEW k \in 2 .. n, F[k - 1] = Prefix(word, count[k - 1])
      PROVE  F[k] = Prefix(word, count[k])
  <2>1. k \in 1 .. n /\ k # 1 /\ k - 1 \in 1 .. n
    OBVIOUS
  <2>2. F[k] = Prefix(word, count[k - 1]) \o Heard(trace[k - 1], trace[k])
    BY <1>3, <1>4, <2>1
  <2>3. QED
    BY <1>a, <2>2
<1>5. ASSUME F[n] # Prefix(word, count[n])
      PROVE  FALSE
  <2> DEFINE T == {k \in 1 .. n : F[k] # Prefix(word, count[k])}
  <2>1. PICK k \in T : \A y \in T : k <= y
    <3>1. T \subseteq Nat /\ n \in T
      BY <1>5
    <3>2. QED
      BY <3>1, LeastNumber
  <2>2. k # 1
    BY <1>3, <2>1, EmptyPrefix
  <2>3. k \in 2 .. n /\ k - 1 \in 1 .. n /\ k - 1 \notin T
    BY <2>1, <2>2
  <2>4. QED
    BY <1>4, <2>1, <2>3
<1>6. QED
  BY <1>1, <1>5

\* Sequences by their elements.
IsSeq(s, n) == Len(s) = n /\ s = [k \in 1 .. n |-> s[k]]

\* Two sequences, one after the other.
Joint(f, g) == f \o g

LEMMA Joined ==
  ASSUME NEW n \in Nat, NEW m \in Nat, NEW f, IsSeq(f, n), NEW g, IsSeq(g, m)
  PROVE  /\ IsSeq(Joint(f, g), n + m)
         /\ \A k \in 1 .. n : Joint(f, g)[k] = f[k]
         /\ \A k \in 1 .. m : Joint(f, g)[n + k] = g[k]
<1> DEFINE S == {f[k] : k \in 1 .. n} \union {g[k] : k \in 1 .. m}
           s == f \o g
<1>1. f \in Seq(S) /\ g \in Seq(S) /\ Len(f) = n /\ Len(g) = m
  <2>1. [k \in 1 .. n |-> f[k]] \in Seq(S) /\ [k \in 1 .. m |-> g[k]] \in Seq(S)
    OBVIOUS
  <2>2. f = [k \in 1 .. n |-> f[k]] /\ g = [k \in 1 .. m |-> g[k]]
    BY DEF IsSeq
  <2>3. QED
    BY <2>1, <2>2 DEF IsSeq
<1> HIDE DEF S
<1>2. s \in Seq(S) /\ Len(s) = n + m
  BY <1>1
<1>3. ASSUME NEW k \in 1 .. n PROVE s[k] = f[k]
  BY <1>1
<1>4. ASSUME NEW k \in 1 .. m PROVE s[n + k] = g[k]
  BY <1>1
<1>5. s = Joint(f, g)
  BY DEF Joint
<1> HIDE DEF s
<1>6. s = [k \in 1 .. n + m |-> s[k]]
  BY <1>2
<1>7. IsSeq(s, n + m)
  BY <1>2, <1>6 DEF IsSeq
<1> QED
  BY <1>3, <1>4, <1>5, <1>7

LEMMA OneAhead ==
  ASSUME NEW x, NEW m \in Nat, NEW g, IsSeq(g, m)
  PROVE  /\ IsSeq(Joint(<<x>>, g), 1 + m)
         /\ Joint(<<x>>, g)[1] = x
         /\ \A k \in 1 .. m : Joint(<<x>>, g)[1 + k] = g[k]
<1> DEFINE f == <<x>>
<1>1. IsSeq(f, 1) /\ f[1] = x
  BY DEF IsSeq
<1> HIDE DEF f
<1>2. /\ IsSeq(Joint(f, g), 1 + m)
      /\ \A k \in 1 .. 1 : Joint(f, g)[k] = f[k]
      /\ \A k \in 1 .. m : Joint(f, g)[1 + k] = g[k]
  BY <1>1, Joined
<1> QED
  BY <1>1, <1>2 DEF f

\* The lines before an operation and after each of its settings.
LEMMA TraceIs ==
  ASSUME NEW name, NEW arg, NEW settings, NEW next, NEW n \in Nat, IsSeq(settings, n),
         Perform(name, arg, settings, next)
  PROVE  /\ Len(i2c_trace') = n + 1
         /\ i2c_trace'[1] = [sda |-> m_nLastSDA, scl |-> m_nLastSCL]
         /\ \A k \in 1 .. n : i2c_trace'[k + 1] = Level(settings[k])
<1> DEFINE first == [sda |-> m_nLastSDA, scl |-> m_nLastSCL]
           levels == [k \in 1 .. Len(settings) |-> Level(settings[k])]
           trace == i2c_trace'
<1>1. trace = Joint(<<first>>, levels)
  BY DEF Perform, Joint
<1>2. IsSeq(levels, n) /\ \A k \in 1 .. n : levels[k] = Level(settings[k])
  BY DEF IsSeq
<1> HIDE DEF first, levels, trace
<1>3. IsSeq(trace, 1 + n) /\ trace[1] = first /\ \A k \in 1 .. n : trace[1 + k] = levels[k]
  BY <1>1, <1>2, OneAhead
<1>4. Len(trace) = n + 1 /\ \A k \in 1 .. n : trace[k + 1] = Level(settings[k])
  <2>1. IsSeq(trace, 1 + n)
    BY <1>3
  <2>2. Len(trace) = 1 + n
    BY <2>1, Zenon DEF IsSeq
  <2>3. \A k \in 1 .. n : 1 + k = k + 1
    OBVIOUS
  <2> QED
    BY <1>2, <1>3, <2>2, <2>3
<1> QED
  BY <1>3, <1>4 DEF first, trace

LEMMA LevelOf ==
  ASSUME NEW sda, NEW scl
  PROVE  /\ Level(DC(sda, scl)) = [sda |-> sda, scl |-> scl]
         /\ sda \in {0, 1} => Level(Let(sda, scl)) = [sda |-> sda, scl |-> scl]
  BY DEF Level, DC, Let

\* What is heard between two settings.
LEMMA HeardIs ==
  ASSUME NEW a, NEW b, NEW c, NEW d
  PROVE  LET h == Heard([sda |-> a, scl |-> b], [sda |-> c, scl |-> d])
         IN  /\ b = 0 /\ d = 0 => h = <<>>
             /\ b = 0 /\ d = 1 => h = <<c>>
             /\ b = 1 /\ a = c => h = <<>>
             /\ b = 1 /\ d = 1 /\ a = 1 /\ c = 0 => h = <<"START">>
             /\ b = 1 /\ d = 1 /\ a = 0 /\ c = 1 => h = <<"STOP">>
  BY DEF Heard

LEMMA Power ==
  ASSUME NEW i \in 0 .. 8
  PROVE  2 ^ i \in Nat \ {0}
<1>1. /\ 2 ^ 0 = 1 /\ 2 ^ 1 = 2 /\ 2 ^ 2 = 4 /\ 2 ^ 3 = 8 /\ 2 ^ 4 = 16
      /\ 2 ^ 5 = 32 /\ 2 ^ 6 = 64 /\ 2 ^ 7 = 128 /\ 2 ^ 8 = 256
  OBVIOUS
<1>2. /\ 2 ^ 0 \in Nat \ {0} /\ 2 ^ 1 \in Nat \ {0} /\ 2 ^ 2 \in Nat \ {0}
      /\ 2 ^ 3 \in Nat \ {0} /\ 2 ^ 4 \in Nat \ {0} /\ 2 ^ 5 \in Nat \ {0}
      /\ 2 ^ 6 \in Nat \ {0} /\ 2 ^ 7 \in Nat \ {0} /\ 2 ^ 8 \in Nat \ {0}
  BY <1>1
<1>3. i = 0 \/ i = 1 \/ i = 2 \/ i = 3 \/ i = 4 \/ i = 5 \/ i = 6 \/ i = 7 \/ i = 8
  OBVIOUS
<1> QED
  BY ONLY <1>2, <1>3, Zenon

LEMMA Doubled ==
  ASSUME NEW i \in 0 .. 7
  PROVE  2 ^ (i + 1) = 2 * 2 ^ i
<1>1. /\ 2 ^ 0 = 1 /\ 2 ^ 1 = 2 /\ 2 ^ 2 = 4 /\ 2 ^ 3 = 8 /\ 2 ^ 4 = 16
      /\ 2 ^ 5 = 32 /\ 2 ^ 6 = 64 /\ 2 ^ 7 = 128 /\ 2 ^ 8 = 256
  OBVIOUS
<1>2. /\ 2 ^ (0 + 1) = 2 * 2 ^ 0 /\ 2 ^ (1 + 1) = 2 * 2 ^ 1
      /\ 2 ^ (2 + 1) = 2 * 2 ^ 2 /\ 2 ^ (3 + 1) = 2 * 2 ^ 3
      /\ 2 ^ (4 + 1) = 2 * 2 ^ 4 /\ 2 ^ (5 + 1) = 2 * 2 ^ 5
      /\ 2 ^ (6 + 1) = 2 * 2 ^ 6 /\ 2 ^ (7 + 1) = 2 * 2 ^ 7
  BY <1>1
<1>3. i = 0 \/ i = 1 \/ i = 2 \/ i = 3 \/ i = 4 \/ i = 5 \/ i = 6 \/ i = 7
  OBVIOUS
<1> QED
  BY ONLY <1>2, <1>3, Zenon

LEMMA Halving ==
  ASSUME NEW byte \in Nat, NEW d \in Nat \ {0}
  PROVE  byte \div d = 2 * (byte \div (2 * d)) + ((byte \div d) % 2)
<1> DEFINE q == byte \div d
           p == byte \div (2 * d)
           m == q % 2
<1>1. q \in Int /\ d * q <= byte /\ byte < d * q + d
  OBVIOUS
<1>2. p \in Int /\ (2 * d) * p <= byte /\ byte < (2 * d) * p + 2 * d
  OBVIOUS
<1> HIDE DEF q, p, m
<1>3. \A a, b \in Int : a + 1 <= b => d * a + d <= d * b
  OBVIOUS
<1>4. ~(q + 1 <= 2 * p)
  <2> SUFFICES ASSUME q + 1 <= 2 * p PROVE FALSE
    OBVIOUS
  <2>1. d * q + d <= d * (2 * p)
    BY <1>1, <1>2, <1>3
  <2>2. d * (2 * p) = (2 * d) * p
    BY <1>2
  <2> QED
    BY <1>1, <1>2, <2>1, <2>2
<1>5. ~((2 * p + 1) + 1 <= q)
  <2> SUFFICES ASSUME (2 * p + 1) + 1 <= q PROVE FALSE
    OBVIOUS
  <2>1. d * (2 * p + 1) + d <= d * q
    BY <1>1, <1>2, <1>3
  <2>2. d * (2 * p + 1) + d = (2 * d) * p + 2 * d
    BY <1>2
  <2> QED
    BY <1>1, <1>2, <2>1, <2>2
<1>6. q = 2 * p \/ q = 2 * p + 1
  BY ONLY <1>1, <1>2, <1>4, <1>5
<1>7. (2 * p) % 2 = 0 /\ (2 * p + 1) % 2 = 1
  BY ONLY <1>2
<1>8. CASE q = 2 * p
  <2>1. m = 0
    BY <1>7, <1>8 DEF m
  <2>2. q = 2 * p + m
    BY <1>2, <1>8, <2>1
  <2> QED
    BY <2>2 DEF q, p, m
<1>9. CASE q = 2 * p + 1
  <2>1. m = 1
    BY <1>7, <1>9 DEF m
  <2>2. q = 2 * p + m
    BY <1>2, <1>9, <2>1
  <2> QED
    BY <2>2 DEF q, p, m
<1> QED
  BY <1>6, <1>8, <1>9

LEMMA BitIs ==
  ASSUME NEW byte \in 0 .. 255, NEW i \in 0 .. 7
  PROVE  Bit(byte, i) \in {0, 1}
<1>1. 2 ^ i \in Nat \ {0}
  <2>1. i \in 0 .. 8
    OBVIOUS
  <2> QED
    BY ONLY <2>1, Power, Zenon
<1>2. byte \div 2 ^ i \in Nat
  BY <1>1
<1>3. \A x \in Nat : x % 2 \in {0, 1}
  OBVIOUS
<1> QED
  BY <1>2, <1>3 DEF Bit

\* Summed up bit by bit, most significant first, a byte's bits give the byte.
LEMMA ByteIs ==
  ASSUME NEW byte \in 0 .. 255, NEW bits, \A i \in 1 .. 8 : bits[i] = Bit(byte, 8 - i)
  PROVE  Byte(bits) = byte
<1> DEFINE F == CHOOSE Sum : Sum = [i \in 0 .. 8 |-> IF i = 0 THEN 0 ELSE 2 * Sum[i - 1] + bits[i]]
           G == [i \in 0 .. 8 |-> byte \div 2 ^ (8 - i)]
<1>1. /\ \A i \in 0 .. 8 : G[i] = byte \div 2 ^ (8 - i)
      /\ G = [i \in 0 .. 8 |-> G[i]]
  OBVIOUS
<1> HIDE DEF G
<1>2. G[0] = 0
  <2>1. 2 ^ (8 - 0) = 256 /\ byte \div 256 = 0
    OBVIOUS
  <2> QED
    BY <1>1, <2>1
<1>3. G[8] = byte
  <2>1. 2 ^ (8 - 8) = 1 /\ byte \div 1 = byte
    OBVIOUS
  <2> QED
    BY <1>1, <2>1
<1>4. ASSUME NEW i \in 1 .. 8
      PROVE  G[i] = 2 * G[i - 1] + bits[i]
  <2>1. 8 - i \in 0 .. 7 /\ 8 - i \in 0 .. 8 /\ (8 - i) + 1 = 8 - (i - 1)
        /\ i - 1 \in 0 .. 8 /\ i \in 0 .. 8 /\ byte \in Nat
    OBVIOUS
  <2> DEFINE d == 2 ^ (8 - i)
  <2>2. 2 ^ (8 - (i - 1)) = 2 * d /\ d \in Nat \ {0}
    <3>1. 2 ^ ((8 - i) + 1) = 2 * 2 ^ (8 - i)
      BY ONLY <2>1, Doubled, Zenon
    <3>2. 2 ^ (8 - i) \in Nat \ {0}
      BY ONLY <2>1, Power, Zenon
    <3> QED
      BY ONLY <2>1, <3>1, <3>2, Zenon
  <2>3. G[i] = byte \div d /\ G[i - 1] = byte \div (2 * d) /\ bits[i] = (byte \div d) % 2
    <3>1. G[i] = byte \div 2 ^ (8 - i) /\ G[i - 1] = byte \div 2 ^ (8 - (i - 1))
      BY ONLY <1>1, <2>1, Zenon
    <3>2. bits[i] = Bit(byte, 8 - i)
      OBVIOUS
    <3> QED
      BY ONLY <2>2, <3>1, <3>2, Zenon DEF Bit
  <2> HIDE DEF d
  <2>4. byte \div d = 2 * (byte \div (2 * d)) + ((byte \div d) % 2)
    BY <2>1, <2>2, Halving
  <2> DEFINE x == byte \div d
             y == byte \div (2 * d)
  <2>5. G[i] = x /\ G[i - 1] = y /\ bits[i] = x % 2 /\ x = 2 * y + (x % 2)
    BY <2>3, <2>4
  <2> HIDE DEF x, y
  <2> QED
    BY ONLY <2>5
<1>5. G = [i \in 0 .. 8 |-> IF i = 0 THEN 0 ELSE 2 * G[i - 1] + bits[i]]
  <2>1. ASSUME NEW i \in 0 .. 8
        PROVE  G[i] = IF i = 0 THEN 0 ELSE 2 * G[i - 1] + bits[i]
    BY <1>2, <1>4
  <2> QED
    BY <1>1, <2>1
<1>6. F = [i \in 0 .. 8 |-> IF i = 0 THEN 0 ELSE 2 * F[i - 1] + bits[i]]
  BY <1>5, Zenon
<1>7. Byte(bits) = F[8]
  BY Zenon DEF Byte
<1> HIDE DEF F
<1>8. /\ F[0] = 0
      /\ F[1] = 2 * F[0] + bits[1] /\ F[2] = 2 * F[1] + bits[2]
      /\ F[3] = 2 * F[2] + bits[3] /\ F[4] = 2 * F[3] + bits[4]
      /\ F[5] = 2 * F[4] + bits[5] /\ F[6] = 2 * F[5] + bits[6]
      /\ F[7] = 2 * F[6] + bits[7] /\ F[8] = 2 * F[7] + bits[8]
  BY <1>6
<1>9. /\ G[1] = 2 * G[0] + bits[1] /\ G[2] = 2 * G[1] + bits[2]
      /\ G[3] = 2 * G[2] + bits[3] /\ G[4] = 2 * G[3] + bits[4]
      /\ G[5] = 2 * G[4] + bits[5] /\ G[6] = 2 * G[5] + bits[6]
      /\ G[7] = 2 * G[6] + bits[7] /\ G[8] = 2 * G[7] + bits[8]
  BY <1>4
<1>10. F[8] = G[8]
  BY ONLY <1>2, <1>8, <1>9
<1> QED
  BY <1>3, <1>7, <1>10

-----------------------------------------------------------------------------
\* What an operation says.  One setting after another: nothing is heard, a bit, a START or a STOP.
Quiet(sda, scl, count, k) ==
    /\ \/ scl[k - 1] = 0 /\ scl[k] = 0
       \/ scl[k - 1] = 1 /\ sda[k - 1] = sda[k]
    /\ count[k] = count[k - 1]

Audible(sda, scl, count, word, k) ==
    /\ count[k] = count[k - 1] + 1
    /\ \/ scl[k - 1] = 0 /\ scl[k] = 1 /\ word[count[k]] = sda[k]
       \/ /\ scl[k - 1] = 1 /\ scl[k] = 1 /\ sda[k - 1] = 1 /\ sda[k] = 0
          /\ word[count[k]] = "START"
       \/ /\ scl[k - 1] = 1 /\ scl[k] = 1 /\ sda[k - 1] = 0 /\ sda[k] = 1
          /\ word[count[k]] = "STOP"

Change(sda, scl, count, word, k) ==
    Quiet(sda, scl, count, k) \/ Audible(sda, scl, count, word, k)

\* What an operation says, from the levels and what is heard at each setting.
LEMMA Says ==
  ASSUME NEW name, NEW arg, NEW settings, NEW next, NEW n \in Nat, IsSeq(settings, n),
         Perform(name, arg, settings, next),
         NEW sda, NEW scl, NEW count, NEW word,
         sda[0] = m_nLastSDA, scl[0] = m_nLastSCL,
         \A k \in 1 .. n : Level(settings[k]) = [sda |-> sda[k], scl |-> scl[k]],
         count[0] = 0, \A k \in 0 .. n : count[k] \in Nat,
         \A k \in 1 .. n : Change(sda, scl, count, word, k)
  PROVE  Symbols(i2c_trace') = Prefix(word, count[n])
<1> DEFINE line(k) == [sda |-> sda[k], scl |-> scl[k]]
           heard == [k \in 1 .. n + 1 |-> count[k - 1]]
           trace == i2c_trace'
<1>1. Len(trace) = n + 1 /\ Len(trace) \in Nat \ {0}
  BY TraceIs
<1>2. ASSUME NEW k \in 1 .. n + 1 PROVE trace[k] = line(k - 1)
  <2>1. CASE k = 1
    BY <2>1, TraceIs
  <2>2. CASE k # 1
    <3>1. k - 1 \in 1 .. n /\ (k - 1) + 1 = k
      BY <2>2
    <3>2. trace[(k - 1) + 1] = Level(settings[k - 1])
      BY <3>1, TraceIs
    <3> QED
      BY <3>1, <3>2
  <2> QED
    BY <2>1, <2>2
<1>3. ASSUME NEW k \in 1 .. n
      PROVE  \/ Heard(line(k - 1), line(k)) = <<>> /\ count[k] = count[k - 1]
             \/ /\ Heard(line(k - 1), line(k)) = <<word[count[k]]>>
                /\ count[k] = count[k - 1] + 1
  <2> DEFINE h == Heard(line(k - 1), line(k))
  <2>1. /\ scl[k - 1] = 0 /\ scl[k] = 0 => h = <<>>
        /\ scl[k - 1] = 0 /\ scl[k] = 1 => h = <<sda[k]>>
        /\ scl[k - 1] = 1 /\ sda[k - 1] = sda[k] => h = <<>>
        /\ scl[k - 1] = 1 /\ scl[k] = 1 /\ sda[k - 1] = 1 /\ sda[k] = 0 => h = <<"START">>
        /\ scl[k - 1] = 1 /\ scl[k] = 1 /\ sda[k - 1] = 0 /\ sda[k] = 1 => h = <<"STOP">>
    BY HeardIs
  <2> HIDE DEF h
  <2>2. Change(sda, scl, count, word, k)
    OBVIOUS
  <2>3. CASE Quiet(sda, scl, count, k)
    <3>1. h = <<>> /\ count[k] = count[k - 1]
      BY ONLY <2>1, <2>3 DEF Quiet
    <3> QED
      BY <3>1 DEF h
  <2>4. CASE Audible(sda, scl, count, word, k)
    <3>1. h = <<word[count[k]]>> /\ count[k] = count[k - 1] + 1
      BY ONLY <2>1, <2>4 DEF Audible
    <3> QED
      BY <3>1 DEF h
  <2> QED
    BY <2>2, <2>3, <2>4 DEF Change
<1> HIDE DEF line
<1>4. \A k \in 1 .. n + 1 : heard[k] = count[k - 1] /\ heard[k] \in Nat
  OBVIOUS
<1> HIDE DEF heard, trace
<1>5. ASSUME NEW k \in 2 .. Len(trace)
      PROVE  \/ Heard(trace[k - 1], trace[k]) = <<>> /\ heard[k] = heard[k - 1]
             \/ /\ Heard(trace[k - 1], trace[k]) = <<word[heard[k]]>>
                /\ heard[k] = heard[k - 1] + 1
  <2>1. k \in 1 .. n + 1 /\ k - 1 \in 1 .. n + 1 /\ k - 1 \in 1 .. n
    BY <1>1
  <2>2. trace[k] = line(k - 1) /\ trace[k - 1] = line((k - 1) - 1)
    BY <1>2, <2>1
  <2>3. heard[k] = count[k - 1] /\ heard[k - 1] = count[(k - 1) - 1]
    BY <1>4, <2>1
  <2> QED
    BY <1>3, <2>1, <2>2, <2>3
<1>6. heard[1] = 0 /\ \A k \in 1 .. Len(trace) : heard[k] \in Nat
  BY <1>1, <1>4
<1>7. Symbols(trace) = Prefix(word, heard[Len(trace)])
  BY <1>1, <1>5, <1>6, SymbolsAre
<1>8. heard[Len(trace)] = count[n]
  BY <1>1, <1>4
<1> QED
  BY <1>7, <1>8 DEF trace

\* Words of one and two symbols.
LEMMA ShortWords ==
  ASSUME NEW word
  PROVE  /\ Prefix(word, 1) = <<word[1]>>
         /\ Prefix(word, 2) = <<word[1], word[2]>>
  BY DEF Prefix

-----------------------------------------------------------------------------
\* The short operations, from the levels at which a transfer calls them.
LEMMA Three ==
  ASSUME NEW a, NEW b, NEW c
  PROVE  IsSeq(<<a, b, c>>, 3)
  BY DEF IsSeq

LEMMA Four ==
  ASSUME NEW a, NEW b, NEW c, NEW d
  PROVE  IsSeq(<<a, b, c, d>>, 4)
  BY DEF IsSeq

LEMMA Five ==
  ASSUME NEW a, NEW b, NEW c, NEW d, NEW e
  PROVE  IsSeq(<<a, b, c, d, e>>, 5)
  BY DEF IsSeq

LEMMA StartSays ==
  ASSUME m_nLastSDA = 1, m_nLastSCL \in {0, 1},
         Perform("start", 0, i2c_master_start, "open")
  PROVE  Symbols(i2c_trace') \in {<<"START">>, <<1, "START">>}
<1> DEFINE c == m_nLastSCL
           settings == <<DC(1, c), DC(1, 1), DC(0, 1)>>
           sda == [k \in 0 .. 3 |-> IF k = 3 THEN 0 ELSE 1]
           scl == [k \in 0 .. 3 |-> IF k < 2 THEN c ELSE 1]
           count == [k \in 0 .. 3 |-> IF k < 2 THEN 0 ELSE IF k = 2 THEN 1 - c ELSE 2 - c]
           word == [i \in 1 .. 2 |-> IF i = 2 - c THEN "START" ELSE 1]
<1>1. IsSeq(settings, 3) /\ Perform("start", 0, settings, "open")
  BY Three DEF i2c_master_start
<1>2. /\ sda[0] = 1 /\ sda[1] = 1 /\ sda[2] = 1 /\ sda[3] = 0
      /\ scl[0] = c /\ scl[1] = c /\ scl[2] = 1 /\ scl[3] = 1
      /\ count[0] = 0 /\ count[1] = 0 /\ count[2] = 1 - c /\ count[3] = 2 - c
      /\ c = 0 => word[1] = 1 /\ word[2] = "START"
      /\ c = 1 => word[1] = "START"
  OBVIOUS
<1>3. /\ settings[1] = DC(1, c) /\ settings[2] = DC(1, 1) /\ settings[3] = DC(0, 1)
  OBVIOUS
<1> HIDE DEF settings, sda, scl, count, word
<1>4. \A k \in 1 .. 3 : Level(settings[k]) = [sda |-> sda[k], scl |-> scl[k]]
  BY <1>2, <1>3, LevelOf
<1>5. \A k \in 0 .. 3 : count[k] \in Nat
  BY <1>2
<1>6. \A k \in 1 .. 3 : Change(sda, scl, count, word, k)
  <2>1. Change(sda, scl, count, word, 1)
    BY <1>2 DEF Change, Quiet
  <2>2. Change(sda, scl, count, word, 2)
    BY <1>2 DEF Change, Quiet, Audible
  <2>3. Change(sda, scl, count, word, 3)
    BY <1>2 DEF Change, Audible
  <2> QED
    BY <2>1, <2>2, <2>3
<1>7. Symbols(i2c_trace') = Prefix(word, count[3])
  <2>1. sda[0] = m_nLastSDA /\ scl[0] = m_nLastSCL /\ count[0] = 0 /\ 3 \in Nat
    BY <1>2
  <2> QED
    BY <1>1, <1>4, <1>5, <1>6, <2>1, Says
<1>8. CASE c = 0
  <2>1. count[3] = 2 /\ word[1] = 1 /\ word[2] = "START"
    BY <1>2, <1>8
  <2>2. Prefix(word, 2) = <<1, "START">>
    BY <2>1, ShortWords
  <2> QED
    BY <1>7, <2>1, <2>2
<1>9. CASE c = 1
  <2>1. count[3] = 1 /\ word[1] = "START"
    BY <1>2, <1>9
  <2>2. Prefix(word, 1) = <<"START">>
    BY <2>1, ShortWords
  <2> QED
    BY <1>7, <2>1, <2>2
<1> QED
  BY <1>8, <1>9

LEMMA StopSays ==
  ASSUME m_nLastSDA = 1, m_nLastSCL = 0,
         Perform("stop", 0, i2c_master_stop(m_nLastSCL), "idle")
  PROVE  Symbols(i2c_trace') = <<0, "STOP">>
<1> DEFINE settings == <<DC(0, 0), DC(0, 1), DC(1, 1)>>
           sda == [k \in 0 .. 3 |-> IF k \in {0, 3} THEN 1 ELSE 0]
           scl == [k \in 0 .. 3 |-> IF k < 2 THEN 0 ELSE 1]
           count == [k \in 0 .. 3 |-> IF k < 2 THEN 0 ELSE k - 1]
           word == [i \in 1 .. 2 |-> IF i = 2 THEN "STOP" ELSE 0]
<1>1. IsSeq(settings, 3) /\ Perform("stop", 0, settings, "idle")
  BY Three DEF i2c_master_stop
<1>2. /\ sda[0] = 1 /\ sda[1] = 0 /\ sda[2] = 0 /\ sda[3] = 1
      /\ scl[0] = 0 /\ scl[1] = 0 /\ scl[2] = 1 /\ scl[3] = 1
      /\ count[0] = 0 /\ count[1] = 0 /\ count[2] = 1 /\ count[3] = 2
      /\ word[1] = 0 /\ word[2] = "STOP"
  OBVIOUS
<1>3. /\ settings[1] = DC(0, 0) /\ settings[2] = DC(0, 1) /\ settings[3] = DC(1, 1)
  OBVIOUS
<1> HIDE DEF settings, sda, scl, count, word
<1>4. \A k \in 1 .. 3 : Level(settings[k]) = [sda |-> sda[k], scl |-> scl[k]]
  BY <1>2, <1>3, LevelOf
<1>5. \A k \in 0 .. 3 : count[k] \in Nat
  BY <1>2
<1>6. \A k \in 1 .. 3 : Change(sda, scl, count, word, k)
  <2>1. Change(sda, scl, count, word, 1)
    BY <1>2 DEF Change, Quiet
  <2>2. Change(sda, scl, count, word, 2)
    BY <1>2 DEF Change, Audible
  <2>3. Change(sda, scl, count, word, 3)
    BY <1>2 DEF Change, Audible
  <2> QED
    BY <2>1, <2>2, <2>3
<1>7. Symbols(i2c_trace') = Prefix(word, count[3])
  BY <1>1, <1>2, <1>4, <1>5, <1>6, Says
<1> QED
  BY <1>2, <1>7, ShortWords

LEMMA GetAckSays ==
  ASSUME m_nLastSCL = 0, NEW ack \in {0, 1},
         Perform("getAck", ack, i2c_master_getAck(ack), "acked")
  PROVE  Symbols(i2c_trace') = <<ack>> /\ getDC(i2c_master_getAck(ack), 3) = ack
<1> DEFINE settings == <<DC(m_nLastSDA, 0), Let(ack, 0), Let(ack, 1), Let(ack, 0)>>
           sda == [k \in 0 .. 4 |-> IF k < 2 THEN m_nLastSDA ELSE ack]
           scl == [k \in 0 .. 4 |-> IF k = 3 THEN 1 ELSE 0]
           count == [k \in 0 .. 4 |-> IF k < 3 THEN 0 ELSE 1]
           word == [i \in 1 .. 1 |-> ack]
<1>1. /\ IsSeq(settings, 4) /\ Perform("getAck", ack, settings, "acked")
      /\ i2c_master_getAck(ack) = settings
  BY Four DEF i2c_master_getAck
<1>2. /\ sda[0] = m_nLastSDA /\ sda[1] = m_nLastSDA
      /\ sda[2] = ack /\ sda[3] = ack /\ sda[4] = ack
      /\ scl[0] = 0 /\ scl[1] = 0 /\ scl[2] = 0 /\ scl[3] = 1 /\ scl[4] = 0
      /\ count[0] = 0 /\ count[1] = 0 /\ count[2] = 0 /\ count[3] = 1 /\ count[4] = 1
      /\ word[1] = ack
  OBVIOUS
<1>3. /\ settings[1] = DC(m_nLastSDA, 0) /\ settings[2] = Let(ack, 0)
      /\ settings[3] = Let(ack, 1) /\ settings[4] = Let(ack, 0)
  OBVIOUS
<1> HIDE DEF settings, sda, scl, count, word
<1>4. \A k \in 1 .. 4 : Level(settings[k]) = [sda |-> sda[k], scl |-> scl[k]]
  BY <1>2, <1>3, LevelOf
<1>5. \A k \in 0 .. 4 : count[k] \in Nat
  BY <1>2
<1>6. \A k \in 1 .. 4 : Change(sda, scl, count, word, k)
  <2>1. Change(sda, scl, count, word, 1)
    BY <1>2 DEF Change, Quiet
  <2>2. Change(sda, scl, count, word, 2)
    BY <1>2 DEF Change, Quiet
  <2>3. Change(sda, scl, count, word, 3)
    BY <1>2 DEF Change, Audible
  <2>4. Change(sda, scl, count, word, 4)
    BY <1>2 DEF Change, Quiet
  <2> QED
    BY <2>1, <2>2, <2>3, <2>4
<1>7. Symbols(i2c_trace') = Prefix(word, count[4])
  BY <1>1, <1>2, <1>4, <1>5, <1>6, Says
<1>8. getDC(settings, 3) = ack
  BY <1>3, LevelOf DEF getDC
<1> QED
  BY <1>1, <1>2, <1>7, <1>8, ShortWords

LEMMA SetAckSays ==
  ASSUME m_nLastSDA = 1, m_nLastSCL = 0, NEW level \in {0, 1},
         Perform("setAck", level, i2c_master_setAck(level), "acked")
  PROVE  Symbols(i2c_trace') = <<level>>
<1> DEFINE settings == <<DC(1, 0), DC(level, 0), DC(level, 1), DC(level, 0), DC(1, 0)>>
           sda == [k \in 0 .. 5 |-> IF k \in {0, 1, 5} THEN 1 ELSE level]
           scl == [k \in 0 .. 5 |-> IF k = 3 THEN 1 ELSE 0]
           count == [k \in 0 .. 5 |-> IF k < 3 THEN 0 ELSE 1]
           word == [i \in 1 .. 1 |-> level]
<1>1. IsSeq(settings, 5) /\ Perform("setAck", level, settings, "acked")
  BY Five DEF i2c_master_setAck
<1>2. /\ sda[0] = 1 /\ sda[1] = 1 /\ sda[2] = level
      /\ sda[3] = level /\ sda[4] = level /\ sda[5] = 1
      /\ scl[0] = 0 /\ scl[1] = 0 /\ scl[2] = 0 /\ scl[3] = 1 /\ scl[4] = 0 /\ scl[5] = 0
      /\ count[0] = 0 /\ count[1] = 0 /\ count[2] = 0
      /\ count[3] = 1 /\ count[4] = 1 /\ count[5] = 1
      /\ word[1] = level
  OBVIOUS
<1>3. /\ settings[1] = DC(1, 0) /\ settings[2] = DC(level, 0) /\ settings[3] = DC(level, 1)
      /\ settings[4] = DC(level, 0) /\ settings[5] = DC(1, 0)
  OBVIOUS
<1> HIDE DEF settings, sda, scl, count, word
<1>4. \A k \in 1 .. 5 : Level(settings[k]) = [sda |-> sda[k], scl |-> scl[k]]
  BY <1>2, <1>3, LevelOf
<1>5. \A k \in 0 .. 5 : count[k] \in Nat
  BY <1>2
<1>6. \A k \in 1 .. 5 : Change(sda, scl, count, word, k)
  <2>1. Change(sda, scl, count, word, 1)
    BY <1>2 DEF Change, Quiet
  <2>2. Change(sda, scl, count, word, 2)
    BY <1>2 DEF Change, Quiet
  <2>3. Change(sda, scl, count, word, 3)
    BY <1>2 DEF Change, Audible
  <2>4. Change(sda, scl, count, word, 4)
    BY <1>2 DEF Change, Quiet
  <2>5. Change(sda, scl, count, word, 5)
    BY <1>2 DEF Change, Quiet
  <2> QED
    BY <2>1, <2>2, <2>3, <2>4, <2>5
<1>7. Symbols(i2c_trace') = Prefix(word, count[5])
  BY <1>1, <1>2, <1>4, <1>5, <1>6, Says
<1> QED
  BY <1>2, <1>7, ShortWords

-----------------------------------------------------------------------------
\* A byte written: the level of each bit is set three times, the second time
\* with SCL high.
LEMMA WriteByteIs ==
  ASSUME NEW wrdata
  PROVE  /\ IsSeq(i2c_master_writeByte(wrdata), 25)
         /\ i2c_master_writeByte(wrdata)[1] = DC(m_nLastSDA, 0)
         /\ \A k \in 1 .. 24 : i2c_master_writeByte(wrdata)[1 + k] =
                DC(Bit(wrdata, 7 - ((k - 1) \div 3)), IF k % 3 = 2 THEN 1 ELSE 0)
<1> DEFINE Set(k) == DC(Bit(wrdata, 7 - ((k - 1) \div 3)), IF k % 3 = 2 THEN 1 ELSE 0)
           first == DC(m_nLastSDA, 0)
           j == i2c_master_writeByte(wrdata)
<1>1. PICK m \in Nat : m = 24
  OBVIOUS
<1> DEFINE g == [k \in 1 .. m |-> Set(k)]
<1>2. j = Joint(<<first>>, g)
  BY <1>1, Zenon DEF i2c_master_writeByte, Joint
<1> HIDE DEF Set, first
<1>3. IsSeq(g, m) /\ \A k \in 1 .. m : g[k] = Set(k)
  BY DEF IsSeq
<1> HIDE DEF g, j
<1>4. IsSeq(j, 1 + m) /\ j[1] = first /\ \A k \in 1 .. m : j[1 + k] = g[k]
  BY <1>2, <1>3, OneAhead
<1>5. 1 + m = 25
  BY <1>1
<1>6. IsSeq(j, 25) /\ j[1] = first /\ \A k \in 1 .. 24 : j[1 + k] = Set(k)
  BY ONLY <1>1, <1>3, <1>4, <1>5, Zenon
<1> QED
  BY <1>6 DEF j, first, Set

LEMMA WriteSays ==
  ASSUME NEW wrdata, m_nLastSCL \in {0, 1},
         Perform("writeByte", wrdata, i2c_master_writeByte(wrdata), "written")
  PROVE  Symbols(i2c_trace') = [i \in 1 .. 8 |-> Bit(wrdata, 8 - i)]
<1> DEFINE settings == i2c_master_writeByte(wrdata)
           sda == [j \in 0 .. 25 |-> IF j < 2 THEN m_nLastSDA
                                     ELSE Bit(wrdata, 7 - ((j - 2) \div 3))]
           scl == [j \in 0 .. 25 |-> IF j = 0 THEN m_nLastSCL
                                     ELSE IF j > 1 /\ (j - 1) % 3 = 2 THEN 1 ELSE 0]
           count == [j \in 0 .. 25 |-> j \div 3]
           word == [i \in 1 .. 8 |-> Bit(wrdata, 8 - i)]
<1>1. /\ IsSeq(settings, 25) /\ Perform("writeByte", wrdata, settings, "written")
      /\ settings[1] = DC(m_nLastSDA, 0)
      /\ \A k \in 1 .. 24 : settings[1 + k] =
             DC(Bit(wrdata, 7 - ((k - 1) \div 3)), IF k % 3 = 2 THEN 1 ELSE 0)
  BY WriteByteIs
<1>2. /\ sda[0] = m_nLastSDA /\ sda[1] = m_nLastSDA
      /\ scl[0] = m_nLastSCL /\ scl[1] = 0
      /\ count[0] = 0 /\ count[1] = 0
      /\ \A i \in 1 .. 8 : word[i] = Bit(wrdata, 8 - i)
  OBVIOUS
<1>3. ASSUME NEW j \in 2 .. 25
      PROVE  /\ sda[j] = Bit(wrdata, 7 - ((j - 2) \div 3))
             /\ scl[j] = IF (j - 1) % 3 = 2 THEN 1 ELSE 0
  OBVIOUS
<1>4. \A j \in 0 .. 25 : count[j] = j \div 3 /\ count[j] \in Nat
  OBVIOUS
<1> HIDE DEF settings, sda, scl, count
<1>5. \A j \in 1 .. 25 : Level(settings[j]) = [sda |-> sda[j], scl |-> scl[j]]
  <2>1. Level(settings[1]) = [sda |-> sda[1], scl |-> scl[1]]
    BY <1>1, <1>2, LevelOf
  <2>2. ASSUME NEW j \in 2 .. 25
        PROVE  Level(settings[j]) = [sda |-> sda[j], scl |-> scl[j]]
    <3>1. j - 1 \in 1 .. 24 /\ 1 + (j - 1) = j /\ (j - 1) - 1 = j - 2
      OBVIOUS
    <3>2. settings[j] = DC(sda[j], scl[j])
      BY <1>1, <1>3, <3>1
    <3> QED
      BY <3>2, LevelOf
  <2> QED
    BY <2>1, <2>2
<1>6. ASSUME NEW q \in 1 .. 8
      PROVE  /\ scl[3 * q - 2] = 0 /\ scl[3 * q - 1] = 0
             /\ scl[3 * q] = 1 /\ scl[3 * q + 1] = 0
             /\ sda[3 * q] = Bit(wrdata, 8 - q) /\ sda[3 * q + 1] = Bit(wrdata, 8 - q)
             /\ count[3 * q - 2] = q - 1 /\ count[3 * q - 1] = q - 1
             /\ count[3 * q] = q /\ count[3 * q + 1] = q
  <2>1. /\ (3 * q - 2) \div 3 = q - 1 /\ (3 * q - 1) \div 3 = q - 1
        /\ (3 * q) \div 3 = q /\ (3 * q + 1) \div 3 = q
        /\ (3 * q - 3) % 3 = 0 /\ (3 * q - 2) % 3 = 1
        /\ (3 * q - 1) % 3 = 2 /\ (3 * q) % 3 = 0
    OBVIOUS
  <2>2. /\ scl[3 * q - 1] = 0 /\ scl[3 * q] = 1 /\ scl[3 * q + 1] = 0
        /\ sda[3 * q] = Bit(wrdata, 8 - q) /\ sda[3 * q + 1] = Bit(wrdata, 8 - q)
    <3>1. /\ 3 * q - 1 \in 2 .. 25 /\ 3 * q \in 2 .. 25 /\ 3 * q + 1 \in 2 .. 25
          /\ (3 * q - 1) - 1 = 3 * q - 2 /\ (3 * q + 1) - 1 = 3 * q
          /\ (3 * q + 1) - 2 = 3 * q - 1 /\ 7 - (q - 1) = 8 - q
      OBVIOUS
    <3>2. scl[3 * q - 1] = 0
      BY <1>3, <2>1, <3>1
    <3>3. scl[3 * q] = 1 /\ sda[3 * q] = Bit(wrdata, 8 - q)
      BY <1>3, <2>1, <3>1
    <3>4. scl[3 * q + 1] = 0 /\ sda[3 * q + 1] = Bit(wrdata, 8 - q)
      BY <1>3, <2>1, <3>1
    <3> QED
      BY <3>2, <3>3, <3>4
  <2>3. scl[3 * q - 2] = 0
    <3>1. CASE q = 1
      BY <1>2, <3>1
    <3>2. CASE q # 1
      <4>1. 3 * q - 2 \in 2 .. 25 /\ (3 * q - 2) - 1 = 3 * q - 3
        BY <3>2
      <4> QED
        BY <1>3, <2>1, <4>1
    <3> QED
      BY <3>1, <3>2
  <2>4. /\ 3 * q - 2 \in 0 .. 25 /\ 3 * q - 1 \in 0 .. 25
        /\ 3 * q \in 0 .. 25 /\ 3 * q + 1 \in 0 .. 25
    OBVIOUS
  <2>5. /\ count[3 * q - 2] = q - 1 /\ count[3 * q - 1] = q - 1
        /\ count[3 * q] = q /\ count[3 * q + 1] = q
    BY <1>4, <2>1, <2>4
  <2> QED
    BY <2>2, <2>3, <2>5
<1> HIDE DEF word
<1>7. \A j \in 1 .. 25 : Change(sda, scl, count, word, j)
  <2>1. Change(sda, scl, count, word, 1)
    BY <1>2 DEF Change, Quiet
  <2>2. ASSUME NEW q \in 1 .. 8
        PROVE  /\ Change(sda, scl, count, word, 3 * q - 1)
               /\ Change(sda, scl, count, word, 3 * q)
               /\ Change(sda, scl, count, word, 3 * q + 1)
    <3>1. (3 * q - 1) - 1 = 3 * q - 2 /\ (3 * q + 1) - 1 = 3 * q /\ (q - 1) + 1 = q
      OBVIOUS
    <3>2. Change(sda, scl, count, word, 3 * q - 1)
      BY <1>6, <3>1 DEF Change, Quiet
    <3>3. Change(sda, scl, count, word, 3 * q)
      BY <1>2, <1>6, <3>1 DEF Change, Audible
    <3>4. Change(sda, scl, count, word, 3 * q + 1)
      BY <1>6, <3>1 DEF Change, Quiet
    <3> QED
      BY <3>2, <3>3, <3>4
  <2>3. ASSUME NEW j \in 2 .. 25
        PROVE  \E q \in 1 .. 8 : j = 3 * q - 1 \/ j = 3 * q \/ j = 3 * q + 1
    <3> DEFINE q == (j + 1) \div 3
    <3>1. q \in 1 .. 8 /\ (j = 3 * q - 1 \/ j = 3 * q \/ j = 3 * q + 1)
      OBVIOUS
    <3> QED
      BY <3>1
  <2>4. ASSUME NEW j \in 2 .. 25
        PROVE  Change(sda, scl, count, word, j)
    <3>1. PICK q \in 1 .. 8 : j = 3 * q - 1 \/ j = 3 * q \/ j = 3 * q + 1
      BY <2>3
    <3> QED
      BY <2>2, <3>1
  <2> QED
    BY <2>1, <2>4
<1>8. Symbols(i2c_trace') = Prefix(word, count[25])
  BY <1>1, <1>2, <1>4, <1>5, <1>7, Says
<1>9. count[25] = 8
  BY <1>4
<1>10. Prefix(word, 8) = [i \in 1 .. 8 |-> Bit(wrdata, 8 - i)]
  BY <1>2 DEF Prefix
<1> QED
  BY <1>8, <1>9, <1>10

\* A byte read: the slave moves SDA after SCL has fallen, and holds it while
\* SCL rises and falls.
Sent(byte, i) == IF i = 0 THEN 1 ELSE Bit(byte, 8 - i)

LEMMA ReadByteIs ==
  ASSUME NEW byte
  PROVE  /\ IsSeq(i2c_master_readByte(byte), 26)
         /\ i2c_master_readByte(byte)[1] = DC(m_nLastSDA, 0)
         /\ \A k \in 1 .. 24 : i2c_master_readByte(byte)[1 + k] =
                Let(Sent(byte, IF k % 3 = 1 THEN (k + 2) \div 3 - 1 ELSE (k + 2) \div 3),
                    IF k % 3 = 0 THEN 1 ELSE 0)
         /\ i2c_master_readByte(byte)[26] = Let(Sent(byte, 8), 0)
<1> DEFINE Set(k) == Let(Sent(byte, IF k % 3 = 1 THEN (k + 2) \div 3 - 1 ELSE (k + 2) \div 3),
                         IF k % 3 = 0 THEN 1 ELSE 0)
           first == DC(m_nLastSDA, 0)
           last == Let(Sent(byte, 8), 0)
           j == i2c_master_readByte(byte)
<1>1. PICK m \in Nat : m = 24
  OBVIOUS
<1> DEFINE g == [k \in 1 .. m |-> Set(k)]
           h == <<last>>
           f == Joint(<<first>>, g)
<1>2. j = Joint(f, h)
  BY <1>1, Zenon DEF i2c_master_readByte, Joint, Sent
<1>3. IsSeq(h, 1) /\ h[1] = last
  BY DEF IsSeq
<1> HIDE DEF Set, first, last
<1>4. IsSeq(g, m) /\ \A k \in 1 .. m : g[k] = Set(k)
  BY DEF IsSeq
<1> HIDE DEF g, h, j
<1>5. IsSeq(f, 1 + m) /\ f[1] = first /\ \A k \in 1 .. m : f[1 + k] = g[k]
  BY <1>4, OneAhead
<1> HIDE DEF f
<1>6. /\ IsSeq(j, (1 + m) + 1)
      /\ \A k \in 1 .. 1 + m : j[k] = f[k]
      /\ \A k \in 1 .. 1 : j[(1 + m) + k] = h[k]
  <2>1. PICK l \in Nat : l = 1 + m
    OBVIOUS
  <2>2. IsSeq(f, l) /\ IsSeq(h, 1)
    BY <1>3, <1>5, <2>1
  <2>3. /\ IsSeq(Joint(f, h), l + 1)
        /\ \A k \in 1 .. l : Joint(f, h)[k] = f[k]
        /\ \A k \in 1 .. 1 : Joint(f, h)[l + k] = h[k]
    BY <2>2, Joined
  <2> QED
    BY ONLY <1>2, <2>1, <2>3, Zenon
<1>7. j[1] = first /\ \A k \in 1 .. m : j[1 + k] = Set(k)
  BY <1>4, <1>5, <1>6
<1>8. j[26] = last /\ (1 + m) + 1 = 26
  BY <1>1, <1>3, <1>6
<1>9. IsSeq(j, 26) /\ \A k \in 1 .. 24 : j[1 + k] = Set(k)
  BY ONLY <1>1, <1>6, <1>7, <1>8, Zenon
<1> QED
  BY <1>7, <1>8, <1>9 DEF j, first, last, Set

LEMMA SentIs ==
  ASSUME NEW byte \in 0 .. 255, NEW i \in 0 .. 8
  PROVE  Sent(byte, i) \in {0, 1}
<1>1. CASE i = 0
  BY <1>1 DEF Sent
<1>2. CASE i # 0
  <2>1. 8 - i \in 0 .. 7
    BY <1>2
  <2> QED
    BY <1>2, <2>1, BitIs DEF Sent
<1> QED
  BY <1>1, <1>2

LEMMA ReadSays ==
  ASSUME NEW byte \in 0 .. 255, m_nLastSCL = 0,
         Perform("readByte", byte, i2c_master_readByte(byte), "read")
  PROVE  /\ Symbols(i2c_trace') = [i \in 1 .. 8 |-> Bit(byte, 8 - i)]
         /\ Byte([i \in 1 .. 8 |-> getDC(i2c_master_readByte(byte), 3 * i + 1)]) = byte
<1> DEFINE settings == i2c_master_readByte(byte)
           At(j) == IF j % 3 = 2 THEN (j + 1) \div 3 - 1 ELSE (j + 1) \div 3
           sda == [j \in 0 .. 26 |-> IF j < 2 THEN m_nLastSDA
                                     ELSE IF j = 26 THEN Sent(byte, 8) ELSE Sent(byte, At(j))]
           scl == [j \in 0 .. 26 |-> IF j \in 4 .. 25 /\ j % 3 = 1 THEN 1 ELSE 0]
           count == [j \in 0 .. 26 |-> IF j = 0 THEN 0 ELSE (j - 1) \div 3]
           word == [i \in 1 .. 8 |-> Bit(byte, 8 - i)]
<1>1. /\ IsSeq(settings, 26) /\ Perform("readByte", byte, settings, "read")
      /\ settings[1] = DC(m_nLastSDA, 0)
      /\ \A k \in 1 .. 24 : settings[1 + k] =
                Let(Sent(byte, IF k % 3 = 1 THEN (k + 2) \div 3 - 1 ELSE (k + 2) \div 3),
                    IF k % 3 = 0 THEN 1 ELSE 0)
      /\ settings[26] = Let(Sent(byte, 8), 0)
  BY ReadByteIs
<1>2. /\ sda[0] = m_nLastSDA /\ sda[1] = m_nLastSDA /\ sda[26] = Sent(byte, 8)
      /\ scl[0] = 0 /\ scl[1] = 0 /\ scl[2] = 0 /\ scl[26] = 0
      /\ count[0] = 0 /\ count[1] = 0 /\ count[2] = 0
      /\ \A i \in 1 .. 8 : word[i] = Bit(byte, 8 - i)
  OBVIOUS
<1>3. ASSUME NEW j \in 2 .. 25
      PROVE  /\ sda[j] = Sent(byte, At(j))
             /\ scl[j] = IF j % 3 = 1 THEN 1 ELSE 0
  OBVIOUS
<1>4. /\ \A j \in 1 .. 26 : count[j] = (j - 1) \div 3
      /\ \A j \in 0 .. 26 : count[j] \in Nat
  OBVIOUS
<1> HIDE DEF settings, sda, scl, count
<1>5. \A j \in 1 .. 26 : Level(settings[j]) = [sda |-> sda[j], scl |-> scl[j]]
  <2>1. Level(settings[1]) = [sda |-> sda[1], scl |-> scl[1]]
    BY <1>1, <1>2, LevelOf
  <2>2. ASSUME NEW j \in 2 .. 25
        PROVE  Level(settings[j]) = [sda |-> sda[j], scl |-> scl[j]]
    <3>1. /\ j - 1 \in 1 .. 24 /\ 1 + (j - 1) = j /\ (j - 1) + 2 = j + 1
          /\ (j - 1) % 3 = 1 <=> j % 3 = 2
          /\ (j - 1) % 3 = 0 <=> j % 3 = 1
          /\ At(j) \in 0 .. 8
      OBVIOUS
    <3>2. settings[j] = Let(sda[j], scl[j])
      BY <1>1, <1>3, <3>1
    <3>3. sda[j] \in {0, 1}
      <4> HIDE DEF At
      <4> QED
        BY <1>3, <3>1, SentIs
    <3> QED
      BY <3>2, <3>3, LevelOf
  <2>3. Level(settings[26]) = [sda |-> sda[26], scl |-> scl[26]]
    <3>1. Sent(byte, 8) \in {0, 1}
      BY SentIs
    <3> QED
      BY <1>1, <1>2, <3>1, LevelOf
  <2>4. \A j \in 1 .. 26 : j = 1 \/ j \in 2 .. 25 \/ j = 26
    OBVIOUS
  <2> QED
    BY <2>1, <2>2, <2>3, <2>4
<1>6. ASSUME NEW q \in 1 .. 8
      PROVE  /\ scl[3 * q - 1] = 0 /\ scl[3 * q] = 0
             /\ scl[3 * q + 1] = 1 /\ scl[3 * q + 2] = 0
             /\ sda[3 * q + 1] = Bit(byte, 8 - q) /\ sda[3 * q + 2] = Bit(byte, 8 - q)
             /\ count[3 * q - 1] = q - 1 /\ count[3 * q] = q - 1
             /\ count[3 * q + 1] = q /\ count[3 * q + 2] = q
  <2>1. /\ (3 * q - 2) \div 3 = q - 1 /\ (3 * q - 1) \div 3 = q - 1
        /\ (3 * q) \div 3 = q /\ (3 * q + 1) \div 3 = q
        /\ (3 * q + 2) \div 3 = q /\ (3 * q + 3) \div 3 = q + 1
        /\ (3 * q - 1) % 3 = 2 /\ (3 * q) % 3 = 0
        /\ (3 * q + 1) % 3 = 1 /\ (3 * q + 2) % 3 = 2
    OBVIOUS
  <2>2. /\ 3 * q - 1 \in 2 .. 25 /\ 3 * q \in 2 .. 25 /\ 3 * q + 1 \in 2 .. 25
        /\ (3 * q - 1) - 1 = 3 * q - 2 /\ (3 * q + 1) - 1 = 3 * q
        /\ (3 * q + 2) - 1 = 3 * q + 1
        /\ 3 * q - 1 \in 1 .. 26 /\ 3 * q \in 1 .. 26
        /\ 3 * q + 1 \in 1 .. 26 /\ 3 * q + 2 \in 1 .. 26
    OBVIOUS
  <2>3. Sent(byte, q) = Bit(byte, 8 - q)
    BY DEF Sent
  <2>4. scl[3 * q - 1] = 0 /\ scl[3 * q] = 0 /\ scl[3 * q + 1] = 1
    BY <1>3, <2>1, <2>2
  <2>5. sda[3 * q + 1] = Bit(byte, 8 - q)
    <3>1. At(3 * q + 1) = q
      <4>1. (3 * q + 1) + 1 = 3 * q + 2
        OBVIOUS
      <4> QED
        BY <2>1, <4>1
    <3> HIDE DEF At
    <3> QED
      BY <1>3, <2>2, <2>3, <3>1
  <2>6. scl[3 * q + 2] = 0 /\ sda[3 * q + 2] = Bit(byte, 8 - q)
    <3>1. CASE q = 8
      BY <1>2, <2>3, <3>1
    <3>2. CASE q # 8
      <4>1. 3 * q + 2 \in 2 .. 25
        BY <3>2
      <4>2. At(3 * q + 2) = q
        <5>1. (3 * q + 2) + 1 = 3 * q + 3 /\ (q + 1) - 1 = q
          OBVIOUS
        <5> QED
          BY <2>1, <5>1
      <4>3. scl[3 * q + 2] = 0
        BY <1>3, <2>1, <4>1
      <4> HIDE DEF At
      <4> QED
        BY <1>3, <2>3, <4>1, <4>2, <4>3
    <3> QED
      BY <3>1, <3>2
  <2>7. /\ count[3 * q - 1] = q - 1 /\ count[3 * q] = q - 1
        /\ count[3 * q + 1] = q /\ count[3 * q + 2] = q
    BY <1>4, <2>1, <2>2
  <2> QED
    BY <2>4, <2>5, <2>6, <2>7
<1> HIDE DEF word, At
<1>7. \A j \in 1 .. 26 : Change(sda, scl, count, word, j)
  <2>1. Change(sda, scl, count, word, 1)
    BY <1>2 DEF Change, Quiet
  <2>2. Change(sda, scl, count, word, 2)
    BY <1>2 DEF Change, Quiet
  <2>3. ASSUME NEW q \in 1 .. 8
        PROVE  /\ Change(sda, scl, count, word, 3 * q)
               /\ Change(sda, scl, count, word, 3 * q + 1)
               /\ Change(sda, scl, count, word, 3 * q + 2)
    <3>1. (3 * q + 1) - 1 = 3 * q /\ (3 * q + 2) - 1 = 3 * q + 1 /\ (q - 1) + 1 = q
      OBVIOUS
    <3>2. Change(sda, scl, count, word, 3 * q)
      BY <1>6 DEF Change, Quiet
    <3>3. Change(sda, scl, count, word, 3 * q + 1)
      BY <1>2, <1>6, <3>1 DEF Change, Audible
    <3>4. Change(sda, scl, count, word, 3 * q + 2)
      BY <1>6, <3>1 DEF Change, Quiet
    <3> QED
      BY <3>2, <3>3, <3>4
  <2>4. ASSUME NEW j \in 3 .. 26
        PROVE  \E q \in 1 .. 8 : j = 3 * q \/ j = 3 * q + 1 \/ j = 3 * q + 2
    <3> DEFINE q == j \div 3
    <3>1. q \in 1 .. 8 /\ (j = 3 * q \/ j = 3 * q + 1 \/ j = 3 * q + 2)
      OBVIOUS
    <3> QED
      BY <3>1
  <2>5. ASSUME NEW j \in 3 .. 26
        PROVE  Change(sda, scl, count, word, j)
    <3>1. PICK q \in 1 .. 8 : j = 3 * q \/ j = 3 * q + 1 \/ j = 3 * q + 2
      BY <2>4
    <3> QED
      BY <2>3, <3>1
  <2>6. \A j \in 1 .. 26 : j = 1 \/ j = 2 \/ j \in 3 .. 26
    OBVIOUS
  <2> QED
    BY <2>1, <2>2, <2>5, <2>6
<1>8. Symbols(i2c_trace') = Prefix(word, count[26])
  <2>1. sda[0] = m_nLastSDA /\ scl[0] = m_nLastSCL /\ count[0] = 0 /\ 26 \in Nat
    BY <1>2
  <2> QED
    BY ONLY <1>1, <1>4, <1>5, <1>7, <2>1, Says, SMTT(30)
<1>9. count[26] = 8
  BY <1>4
<1>10. Prefix(word, 8) = [i \in 1 .. 8 |-> Bit(byte, 8 - i)]
  BY <1>2 DEF Prefix
<1>11. Byte([i \in 1 .. 8 |-> getDC(settings, 3 * i + 1)]) = byte
  <2> DEFINE bits == [i \in 1 .. 8 |-> getDC(settings, 3 * i + 1)]
  <2>1. ASSUME NEW i \in 1 .. 8
        PROVE  bits[i] = Bit(byte, 8 - i)
    <3>1. 3 * i + 1 \in 1 .. 26
      OBVIOUS
    <3>2. getDC(settings, 3 * i + 1) = sda[3 * i + 1]
      BY <1>5, <3>1 DEF getDC
    <3> QED
      BY <1>6, <3>2
  <2> HIDE DEF bits
  <2>2. Byte(bits) = byte
    BY <2>1, ByteIs
  <2> QED
    BY <2>2 DEF bits
<1> QED
  BY <1>8, <1>9, <1>10, <1>11 DEF settings

\* The bus is freed: 28 clocks with SDA high, then a START and a STOP.
LEMMA InitIs ==
  /\ IsSeq(i2c_master_init, 62)
  /\ i2c_master_init[1] = DC(1, 0)
  /\ i2c_master_init[2] = DC(0, 0)
  /\ i2c_master_init[3] = DC(1, 0)
  /\ \A k \in 1 .. 56 : i2c_master_init[3 + k] = DC(1, (k + 1) % 2)
  /\ i2c_master_init[60] = DC(0, 1)
  /\ i2c_master_init[61] = DC(0, 1)
  /\ i2c_master_init[62] = DC(1, 1)
<1> DEFINE Set(k) == DC(1, (k + 1) % 2)
           f == <<DC(1, 0), DC(0, 0), DC(1, 0)>>
           h == <<DC(0, 1), DC(0, 1), DC(1, 1)>>
           j == i2c_master_init
<1>1. PICK m \in Nat : m = 56
  OBVIOUS
<1> DEFINE g == [k \in 1 .. m |-> Set(k)]
           fg == Joint(f, g)
<1>2. j = Joint(fg, h)
  <2>1. 2 * 28 = m
    BY <1>1
  <2>2. i2c_master_stop(1) = h
    BY DEF i2c_master_stop
  <2> HIDE DEF h
  <2> QED
    BY <2>1, <2>2, Zenon DEF i2c_master_init, Joint
<1>3. /\ IsSeq(f, 3) /\ f[1] = DC(1, 0) /\ f[2] = DC(0, 0) /\ f[3] = DC(1, 0)
      /\ IsSeq(h, 3) /\ h[1] = DC(0, 1) /\ h[2] = DC(0, 1) /\ h[3] = DC(1, 1)
  BY Three
<1> HIDE DEF Set, f, h
<1>4. IsSeq(g, m) /\ \A k \in 1 .. m : g[k] = Set(k)
  BY DEF IsSeq
<1> HIDE DEF g, j
<1>5. /\ IsSeq(fg, 3 + m)
      /\ \A k \in 1 .. 3 : fg[k] = f[k]
      /\ \A k \in 1 .. m : fg[3 + k] = g[k]
  <2>1. PICK l \in Nat : l = 3
    OBVIOUS
  <2>2. IsSeq(f, l) /\ IsSeq(g, m)
    BY <1>3, <1>4, <2>1
  <2>3. /\ IsSeq(Joint(f, g), l + m)
        /\ \A k \in 1 .. l : Joint(f, g)[k] = f[k]
        /\ \A k \in 1 .. m : Joint(f, g)[l + k] = g[k]
    BY <2>2, Joined
  <2> QED
    BY ONLY <2>1, <2>3, Zenon
<1> HIDE DEF fg
<1>6. /\ IsSeq(j, (3 + m) + 3)
      /\ \A k \in 1 .. 3 + m : j[k] = fg[k]
      /\ \A k \in 1 .. 3 : j[(3 + m) + k] = h[k]
  <2>1. PICK l \in Nat : l = 3 + m
    OBVIOUS
  <2>2. IsSeq(fg, l) /\ IsSeq(h, 3)
    BY <1>3, <1>5, <2>1
  <2>3. /\ IsSeq(Joint(fg, h), l + 3)
        /\ \A k \in 1 .. l : Joint(fg, h)[k] = fg[k]
        /\ \A k \in 1 .. 3 : Joint(fg, h)[l + k] = h[k]
    BY <2>2, Joined
  <2> QED
    BY ONLY <1>2, <2>1, <2>3, Zenon
<1>7. j[1] = DC(1, 0) /\ j[2] = DC(0, 0) /\ j[3] = DC(1, 0)
  <2>1. 1 \in 1 .. 3 + m /\ 2 \in 1 .. 3 + m /\ 3 \in 1 .. 3 + m
    OBVIOUS
  <2> QED
    BY <1>3, <1>5, <1>6, <2>1
<1>8. \A k \in 1 .. m : j[3 + k] = Set(k)
  BY <1>4, <1>5, <1>6
<1>9. /\ (3 + m) + 3 = 62
      /\ j[60] = DC(0, 1) /\ j[61] = DC(0, 1) /\ j[62] = DC(1, 1)
  <2>1. (3 + m) + 1 = 60 /\ (3 + m) + 2 = 61 /\ (3 + m) + 3 = 62
    BY <1>1
  <2> QED
    BY <1>3, <1>6, <2>1
<1>10. IsSeq(j, 62) /\ \A k \in 1 .. 56 : j[3 + k] = Set(k)
  BY ONLY <1>1, <1>6, <1>8, <1>9, Zenon
<1> QED
  BY <1>7, <1>9, <1>10 DEF j, Set

LEMMA InitSays ==
  ASSUME m_nLastSDA = 1, m_nLastSCL = 1,
         Perform("init", 0, i2c_master_init, "idle")
  PROVE  Symbols(i2c_trace') = [k \in 1 .. 28 |-> 1] \o <<"START", "STOP">>
<1> DEFINE settings == i2c_master_init
           sda == [j \in 0 .. 62 |-> IF j \in {2, 60, 61} THEN 0 ELSE 1]
           scl == [j \in 0 .. 62 |-> IF j = 0 \/ j >= 60 THEN 1
                                     ELSE IF j < 4 THEN 0 ELSE (j - 2) % 2]
           count == [j \in 0 .. 62 |-> IF j < 4 THEN 0
                                       ELSE IF j = 62 THEN 30
                                       ELSE IF j >= 60 THEN 29 ELSE (j - 3) \div 2]
           word == [i \in 1 .. 30 |-> IF i = 29 THEN "START" ELSE IF i = 30 THEN "STOP" ELSE 1]
<1>1. IsSeq(settings, 62) /\ Perform("init", 0, settings, "idle")
  BY InitIs
<1>2. /\ sda[0] = 1 /\ sda[1] = 1 /\ sda[2] = 0 /\ sda[3] = 1
      /\ sda[60] = 0 /\ sda[61] = 0 /\ sda[62] = 1
      /\ scl[0] = 1 /\ scl[1] = 0 /\ scl[2] = 0 /\ scl[3] = 0
      /\ scl[60] = 1 /\ scl[61] = 1 /\ scl[62] = 1
      /\ count[0] = 0 /\ count[1] = 0 /\ count[2] = 0 /\ count[3] = 0
      /\ count[60] = 29 /\ count[61] = 29 /\ count[62] = 30
      /\ word[29] = "START" /\ word[30] = "STOP"
      /\ \A i \in 1 .. 28 : word[i] = 1
  OBVIOUS
<1>3. ASSUME NEW j \in 4 .. 59
      PROVE  /\ sda[j] = 1 /\ scl[j] = (j - 2) % 2 /\ count[j] = (j - 3) \div 2
  OBVIOUS
<1>4. \A j \in 0 .. 62 : count[j] \in Nat
  OBVIOUS
<1> HIDE DEF sda, scl, count, settings
<1>5. \A j \in 1 .. 62 : Level(settings[j]) = [sda |-> sda[j], scl |-> scl[j]]
  <2>1. \A j \in 1 .. 62 : \/ j = 1 \/ j = 2 \/ j = 3 \/ j \in 4 .. 59
                           \/ j = 60 \/ j = 61 \/ j = 62
    OBVIOUS
  <2>2. ASSUME NEW j \in 4 .. 59
        PROVE  settings[j] = DC(sda[j], scl[j])
    <3>1. j - 3 \in 1 .. 56 /\ 3 + (j - 3) = j /\ (j - 3) + 1 = j - 2
      OBVIOUS
    <3> QED
      BY <1>3, <3>1, InitIs DEF settings
  <2>3. /\ settings[1] = DC(sda[1], scl[1]) /\ settings[2] = DC(sda[2], scl[2])
        /\ settings[3] = DC(sda[3], scl[3]) /\ settings[60] = DC(sda[60], scl[60])
        /\ settings[61] = DC(sda[61], scl[61]) /\ settings[62] = DC(sda[62], scl[62])
    BY <1>2, InitIs DEF settings
  <2>4. ASSUME NEW j \in 1 .. 62
        PROVE  settings[j] = DC(sda[j], scl[j])
    BY <2>1, <2>2, <2>3
  <2> QED
    BY <2>4, LevelOf
<1>6. ASSUME NEW q \in 1 .. 28
      PROVE  /\ scl[2 * q + 1] \in {0, 1} /\ scl[2 * q + 2] = 0 /\ scl[2 * q + 3] = 1
             /\ sda[2 * q + 1] = 1 /\ sda[2 * q + 2] = 1 /\ sda[2 * q + 3] = 1
             /\ count[2 * q + 1] = q - 1 /\ count[2 * q + 2] = q - 1
             /\ count[2 * q + 3] = q
  <2>1. /\ (2 * q) % 2 = 0 /\ (2 * q + 1) % 2 = 1 /\ (2 * q - 1) % 2 = 1
        /\ (2 * q - 2) \div 2 = q - 1 /\ (2 * q - 1) \div 2 = q - 1
        /\ (2 * q) \div 2 = q
    OBVIOUS
  <2>2. /\ 2 * q + 2 \in 4 .. 59 /\ 2 * q + 3 \in 4 .. 59
        /\ (2 * q + 1) - 2 = 2 * q - 1 /\ (2 * q + 1) - 3 = 2 * q - 2
        /\ (2 * q + 2) - 2 = 2 * q /\ (2 * q + 2) - 3 = 2 * q - 1
        /\ (2 * q + 3) - 2 = 2 * q + 1 /\ (2 * q + 3) - 3 = 2 * q
    OBVIOUS
  <2>3. scl[2 * q + 2] = 0 /\ sda[2 * q + 2] = 1 /\ count[2 * q + 2] = q - 1
    BY <1>3, <2>1, <2>2
  <2>4. scl[2 * q + 3] = 1 /\ sda[2 * q + 3] = 1 /\ count[2 * q + 3] = q
    BY <1>3, <2>1, <2>2
  <2>5. scl[2 * q + 1] \in {0, 1} /\ sda[2 * q + 1] = 1 /\ count[2 * q + 1] = q - 1
    <3>1. CASE q = 1
      BY <1>2, <3>1
    <3>2. CASE q # 1
      <4>1. 2 * q + 1 \in 4 .. 59
        BY <3>2
      <4> QED
        BY <1>3, <2>1, <2>2, <4>1
    <3> QED
      BY <3>1, <3>2
  <2> QED
    BY <2>3, <2>4, <2>5
<1>7. scl[59] = 1 /\ sda[59] = 1 /\ count[59] = 28
  <2>1. 59 \in 4 .. 59 /\ (59 - 2) % 2 = 1 /\ (59 - 3) \div 2 = 28
    OBVIOUS
  <2> QED
    BY <1>3, <2>1
<1> HIDE DEF word
<1>8. \A j \in 1 .. 62 : Change(sda, scl, count, word, j)
  <2>1. /\ Change(sda, scl, count, word, 1)
        /\ Change(sda, scl, count, word, 2)
        /\ Change(sda, scl, count, word, 3)
    <3>1. Change(sda, scl, count, word, 1)
      BY <1>2 DEF Change, Quiet
    <3>2. Change(sda, scl, count, word, 2)
      BY <1>2 DEF Change, Quiet
    <3>3. Change(sda, scl, count, word, 3)
      BY <1>2 DEF Change, Quiet
    <3> QED
      BY <3>1, <3>2, <3>3
  <2>2. ASSUME NEW q \in 1 .. 28
        PROVE  /\ Change(sda, scl, count, word, 2 * q + 2)
               /\ Change(sda, scl, count, word, 2 * q + 3)
    <3>1. (2 * q + 2) - 1 = 2 * q + 1 /\ (2 * q + 3) - 1 = 2 * q + 2 /\ (q - 1) + 1 = q
      OBVIOUS
    <3>2. Change(sda, scl, count, word, 2 * q + 2)
      BY <1>6, <3>1 DEF Change, Quiet
    <3>3. Change(sda, scl, count, word, 2 * q + 3)
      BY <1>2, <1>6, <3>1 DEF Change, Audible
    <3> QED
      BY <3>2, <3>3
  <2>3. ASSUME NEW j \in 4 .. 59
        PROVE  Change(sda, scl, count, word, j)
    <3> DEFINE p == (j - 2) \div 2
    <3>1. p \in 1 .. 28 /\ (j = 2 * p + 2 \/ j = 2 * p + 3)
      OBVIOUS
    <3> HIDE DEF p
    <3> QED
      BY <2>2, <3>1
  <2>4. /\ Change(sda, scl, count, word, 60)
        /\ Change(sda, scl, count, word, 61)
        /\ Change(sda, scl, count, word, 62)
    <3>1. Change(sda, scl, count, word, 60)
      BY <1>2, <1>7 DEF Change, Audible
    <3>2. Change(sda, scl, count, word, 61)
      BY <1>2 DEF Change, Quiet
    <3>3. Change(sda, scl, count, word, 62)
      BY <1>2 DEF Change, Audible
    <3> QED
      BY <3>1, <3>2, <3>3
  <2>5. \A j \in 1 .. 62 : \/ j = 1 \/ j = 2 \/ j = 3 \/ j \in 4 .. 59
                           \/ j = 60 \/ j = 61 \/ j = 62
    OBVIOUS
  <2> QED
    BY <2>1, <2>3, <2>4, <2>5
<1>9. Symbols(i2c_trace') = Prefix(word, 30)
  <2>1. Symbols(i2c_trace') = Prefix(word, count[62])
    <3>1. sda[0] = m_nLastSDA /\ scl[0] = m_nLastSCL /\ count[0] = 0 /\ 62 \in Nat
      BY <1>2
    <3> QED
      BY ONLY <1>1, <1>4, <1>5, <1>8, <3>1, Says
  <2> QED
    BY <1>2, <2>1
<1>10. [k \in 1 .. 28 |-> 1] \o <<"START", "STOP">> = Prefix(word, 30)
  <2>1. PICK l \in Nat : l = 28
    OBVIOUS
  <2> DEFINE ones == [k \in 1 .. l |-> 1]
             rest == <<"START", "STOP">>
             all == Joint(ones, rest)
             heard == Prefix(word, 30)
  <2>2. IsSeq(ones, l) /\ \A k \in 1 .. l : ones[k] = 1
    BY DEF IsSeq
  <2>3. PICK m \in Nat : m = 2
    OBVIOUS
  <2>4. IsSeq(rest, m) /\ rest[1] = "START" /\ rest[2] = "STOP"
    BY <2>3 DEF IsSeq
  <2> HIDE DEF ones, rest
  <2>5. /\ IsSeq(all, l + m)
        /\ \A k \in 1 .. l : all[k] = ones[k]
        /\ \A k \in 1 .. m : all[l + k] = rest[k]
    <3>1. IsSeq(ones, l) /\ IsSeq(rest, m)
      BY <2>2, <2>4
    <3> QED
      BY <3>1, Joined
  <2> HIDE DEF all
  <2>6. all[29] = "START" /\ all[30] = "STOP" /\ \A k \in 1 .. 28 : all[k] = 1
    <3>1. l + 1 = 29 /\ l + 2 = 30 /\ 1 \in 1 .. m /\ 2 \in 1 .. m
      BY <2>1, <2>3
    <3>2. \A k \in 1 .. 28 : all[k] = 1
      BY <2>1, <2>2, <2>5
    <3> QED
      BY <2>4, <2>5, <3>1, <3>2
  <2>7. PICK n \in Nat : n = 30
    OBVIOUS
  <2>8. ASSUME NEW k \in 1 .. n
        PROVE  all[k] = word[k]
    BY <1>2, <2>6, <2>7
  <2>9. all = [k \in 1 .. n |-> all[k]]
    <3>1. IsSeq(all, n)
      BY <2>1, <2>3, <2>5, <2>7
    <3> QED
      BY <3>1, Zenon DEF IsSeq
  <2>10. heard = [k \in 1 .. n |-> word[k]]
    BY <2>7, Zenon DEF Prefix
  <2> HIDE DEF heard
  <2>11. all = heard
    BY <2>8, <2>9, <2>10
  <2> QED
    BY <2>1, <2>11, Zenon DEF all, Joint, ones, rest, heard
<1> QED
  BY <1>9, <1>10

-----------------------------------------------------------------------------
(***************************************************************************)
(* The inductive invariant: the levels at which each place of a transfer     *)
(* leaves the lines, which is what makes the next operation's first setting  *)
(* silent.                                                                 *)
(***************************************************************************)
I2cLines ==
    /\ i2c_at \in {"off", "idle", "open", "acked", "written", "read"}
    /\ i2c_at \in {"off", "idle"} => m_nLastSDA = 1 /\ m_nLastSCL = 1
    /\ i2c_at = "open" => m_nLastSCL = 1
    /\ i2c_at \in {"acked", "read"} => m_nLastSDA = 1 /\ m_nLastSCL = 0
    /\ i2c_at = "written" => m_nLastSCL = 0

I2cInv == I2cLines /\ I2cFrames

\* Where an operation leaves the lines.
LEMMA Leaves ==
  ASSUME NEW name, NEW arg, NEW settings, NEW next, NEW n \in Nat, IsSeq(settings, n),
         Perform(name, arg, settings, next)
  PROVE  /\ m_nLastSDA' = settings[n].sda /\ m_nLastSCL' = settings[n].scl
         /\ i2c_at' = next
         /\ i2c_op' = [name |-> name, arg |-> arg]
<1>1. Len(settings) = n
  BY Zenon DEF IsSeq
<1> QED
  BY <1>1, Zenon DEF Perform

LEMMA Meanings ==
  ASSUME NEW arg
  PROVE  /\ Meaning([name |-> "none", arg |-> arg]) = {<<>>}
         /\ Meaning([name |-> "init", arg |-> arg]) =
                {[k \in 1 .. 28 |-> 1] \o <<"START", "STOP">>}
         /\ Meaning([name |-> "start", arg |-> arg]) = {<<"START">>, <<1, "START">>}
         /\ Meaning([name |-> "stop", arg |-> arg]) = {<<0, "STOP">>}
         /\ Meaning([name |-> "writeByte", arg |-> arg]) = {[i \in 1 .. 8 |-> Bit(arg, 8 - i)]}
         /\ Meaning([name |-> "readByte", arg |-> arg]) = {[i \in 1 .. 8 |-> Bit(arg, 8 - i)]}
         /\ Meaning([name |-> "getAck", arg |-> arg]) = {<<arg>>}
         /\ Meaning([name |-> "setAck", arg |-> arg]) = {<<arg>>}
  BY DEF Meaning

LEMMA I2cInvInit == I2cInit => I2cInv
<1> SUFFICES ASSUME I2cInit PROVE I2cInv
  OBVIOUS
<1>1. I2cLines
  BY DEF I2cInit, I2cLines
<1>2. Symbols(i2c_trace) = <<>>
  <2> DEFINE word == <<>>
             count == [k \in 1 .. 1 |-> 0]
  <2>1. Len(i2c_trace) = 1 /\ count[1] = 0
    BY DEF I2cInit
  <2> HIDE DEF word, count
  <2>2. Symbols(i2c_trace) = Prefix(word, count[Len(i2c_trace)])
    <3>1. /\ Len(i2c_trace) \in Nat \ {0}
          /\ \A k \in 1 .. Len(i2c_trace) : count[k] \in Nat
          /\ \A k \in 2 .. Len(i2c_trace) : FALSE
      BY <2>1
    <3> QED
      BY ONLY <2>1, <3>1, SymbolsAre
  <2> QED
    BY <2>1, <2>2, EmptyPrefix
<1>3. i2c_op = [name |-> "none", arg |-> 0]
  BY DEF I2cInit
<1> QED
  BY <1>1, <1>2, <1>3, Meanings DEF I2cInv, I2cFrames

LEMMA I2cInvNext == I2cInv /\ [I2cNext]_I2cVars => I2cInv'
<1> SUFFICES ASSUME I2cInv, [I2cNext]_I2cVars PROVE I2cInv'
  OBVIOUS
<1> USE DEF I2cInv
<1>1. CASE I2cBusInit
  <2>1. Perform("init", 0, i2c_master_init, "idle")
    BY <1>1 DEF I2cBusInit
  <2>2. m_nLastSDA = 1 /\ m_nLastSCL = 1
    BY <1>1 DEF I2cBusInit, I2cLines
  <2>3. /\ m_nLastSDA' = 1 /\ m_nLastSCL' = 1 /\ i2c_at' = "idle"
        /\ i2c_op' = [name |-> "init", arg |-> 0]
    BY <2>1, Leaves, InitIs DEF DC
  <2>4. Symbols(i2c_trace') \in Meaning(i2c_op')
    BY <2>1, <2>2, <2>3, InitSays, Meanings
  <2> QED
    BY <2>3, <2>4 DEF I2cLines, I2cFrames
<1>2. CASE I2cStart
  <2>1. Perform("start", 0, i2c_master_start, "open")
    BY <1>2 DEF I2cStart
  <2>2. m_nLastSDA = 1 /\ m_nLastSCL \in {0, 1}
    BY <1>2 DEF I2cStart, I2cLines
  <2>3. IsSeq(i2c_master_start, 3) /\ i2c_master_start[3] = DC(0, 1)
    BY Three DEF i2c_master_start
  <2>4. /\ m_nLastSCL' = 1 /\ i2c_at' = "open"
        /\ i2c_op' = [name |-> "start", arg |-> 0]
    BY <2>1, <2>3, Leaves DEF DC
  <2>5. Symbols(i2c_trace') \in Meaning(i2c_op')
    BY <2>1, <2>2, <2>4, StartSays, Meanings
  <2> QED
    BY <2>4, <2>5 DEF I2cLines, I2cFrames
<1>3. CASE I2cStop
  <2>1. Perform("stop", 0, i2c_master_stop(m_nLastSCL), "idle")
    BY <1>3 DEF I2cStop
  <2>2. m_nLastSDA = 1 /\ m_nLastSCL = 0
    BY <1>3 DEF I2cStop, I2cLines
  <2>3. IsSeq(i2c_master_stop(m_nLastSCL), 3) /\ i2c_master_stop(m_nLastSCL)[3] = DC(1, 1)
    BY Three DEF i2c_master_stop
  <2>4. /\ m_nLastSDA' = 1 /\ m_nLastSCL' = 1 /\ i2c_at' = "idle"
        /\ i2c_op' = [name |-> "stop", arg |-> 0]
    BY <2>1, <2>3, Leaves DEF DC
  <2>5. Symbols(i2c_trace') \in Meaning(i2c_op')
    BY <2>1, <2>2, <2>4, StopSays, Meanings
  <2> QED
    BY <2>4, <2>5 DEF I2cLines, I2cFrames
<1>4. CASE I2cWrite
  <2>1. PICK wrdata \in I2cBytes :
            Perform("writeByte", wrdata, i2c_master_writeByte(wrdata), "written")
    BY <1>4 DEF I2cWrite
  <2>2. m_nLastSCL \in {0, 1}
    BY <1>4 DEF I2cWrite, I2cLines
  <2>3. /\ IsSeq(i2c_master_writeByte(wrdata), 25)
        /\ i2c_master_writeByte(wrdata)[25].scl = 0
    <3> DEFINE last == i2c_master_writeByte(wrdata)[25]
    <3>1. 24 \in 1 .. 24 /\ 1 + 24 = 25 /\ ~(24 % 3 = 2)
      OBVIOUS
    <3>2. i2c_master_writeByte(wrdata)[1 + 24] =
              DC(Bit(wrdata, 7 - ((24 - 1) \div 3)), IF 24 % 3 = 2 THEN 1 ELSE 0)
      BY <3>1, WriteByteIs, Zenon
    <3>3. last = DC(Bit(wrdata, 7 - ((24 - 1) \div 3)), 0)
      BY ONLY <3>1, <3>2, Zenon
    <3> HIDE DEF last
    <3>4. last.scl = 0
      BY <3>3 DEF DC
    <3> QED
      BY <3>4, WriteByteIs, Zenon DEF last
  <2>4. /\ m_nLastSCL' = 0 /\ i2c_at' = "written"
        /\ i2c_op' = [name |-> "writeByte", arg |-> wrdata]
    BY <2>1, <2>3, Leaves
  <2>5. Symbols(i2c_trace') \in Meaning(i2c_op')
    <3>1. Symbols(i2c_trace') = [i \in 1 .. 8 |-> Bit(wrdata, 8 - i)]
      BY <2>1, <2>2, WriteSays
    <3>2. Meaning(i2c_op') = {[i \in 1 .. 8 |-> Bit(wrdata, 8 - i)]}
      BY <2>4, Meanings, Zenon
    <3> QED
      BY ONLY <3>1, <3>2, Zenon
  <2> QED
    BY <2>4, <2>5 DEF I2cLines, I2cFrames
<1>5. CASE I2cGetAck
  <2>1. PICK ack \in {0, 1} :
            /\ Perform("getAck", ack, i2c_master_getAck(ack), "acked")
            /\ i2c_ret' = getDC(i2c_master_getAck(ack), 3)
    BY <1>5 DEF I2cGetAck
  <2>2. m_nLastSCL = 0
    BY <1>5 DEF I2cGetAck, I2cLines
  <2>3. IsSeq(i2c_master_getAck(ack), 4) /\ i2c_master_getAck(ack)[4] = Let(ack, 0)
    BY Four DEF i2c_master_getAck
  <2>4. /\ m_nLastSDA' = 1 /\ m_nLastSCL' = 0 /\ i2c_at' = "acked"
        /\ i2c_op' = [name |-> "getAck", arg |-> ack]
    BY <2>1, <2>3, Leaves DEF Let
  <2>5. Symbols(i2c_trace') \in Meaning(i2c_op') /\ i2c_ret' = ack
    BY <2>1, <2>2, <2>4, GetAckSays, Meanings
  <2> QED
    BY <2>4, <2>5 DEF I2cLines, I2cFrames
<1>6. CASE I2cRead
  <2>1. PICK byte \in I2cBytes :
            /\ Perform("readByte", byte, i2c_master_readByte(byte), "read")
            /\ i2c_ret' = Byte([i \in 1 .. 8 |->
                                getDC(i2c_master_readByte(byte), 3 * i + 1)])
    BY <1>6 DEF I2cRead
  <2>2. m_nLastSCL = 0 /\ byte \in 0 .. 255
    BY <1>6, I2cAssumption DEF I2cRead, I2cLines
  <2>3. /\ m_nLastSDA' = 1 /\ m_nLastSCL' = 0 /\ i2c_at' = "read"
        /\ i2c_op' = [name |-> "readByte", arg |-> byte]
    <3> DEFINE last == i2c_master_readByte(byte)[26]
    <3>1. IsSeq(i2c_master_readByte(byte), 26) /\ last = Let(Sent(byte, 8), 0)
      BY ReadByteIs, Zenon
    <3> HIDE DEF last
    <3>2. last.sda = 1 /\ last.scl = 0
      BY <3>1 DEF Let
    <3>3. 26 \in Nat
      OBVIOUS
    <3>4. /\ m_nLastSDA' = last.sda /\ m_nLastSCL' = last.scl /\ i2c_at' = "read"
          /\ i2c_op' = [name |-> "readByte", arg |-> byte]
      BY <2>1, <3>1, <3>3, Leaves DEF last
    <3> QED
      BY <3>2, <3>4
  <2>4. Symbols(i2c_trace') \in Meaning(i2c_op') /\ i2c_ret' = byte
    <3> DEFINE back == Byte([i \in 1 .. 8 |->
                              getDC(i2c_master_readByte(byte), 3 * i + 1)])
    <3>1. /\ Perform("readByte", byte, i2c_master_readByte(byte), "read")
          /\ i2c_ret' = back
      BY <2>1, Zenon
    <3>2. Symbols(i2c_trace') = [i \in 1 .. 8 |-> Bit(byte, 8 - i)] /\ back = byte
      BY <2>2, <3>1, ReadSays, Zenon
    <3> HIDE DEF back
    <3>3. Symbols(i2c_trace') = [i \in 1 .. 8 |-> Bit(byte, 8 - i)] /\ i2c_ret' = byte
      BY <3>1, <3>2, Zenon
    <3>4. Meaning(i2c_op') = {[i \in 1 .. 8 |-> Bit(byte, 8 - i)]}
      BY <2>3, Meanings, Zenon
    <3> QED
      BY ONLY <3>3, <3>4, Zenon
  <2> QED
    BY <2>3, <2>4 DEF I2cLines, I2cFrames
<1>7. CASE I2cSetAck
  <2>1. PICK level \in {0, 1} : Perform("setAck", level, i2c_master_setAck(level), "acked")
    BY <1>7 DEF I2cSetAck
  <2>2. m_nLastSDA = 1 /\ m_nLastSCL = 0
    BY <1>7 DEF I2cSetAck, I2cLines
  <2>3. IsSeq(i2c_master_setAck(level), 5) /\ i2c_master_setAck(level)[5] = DC(1, 0)
    BY Five DEF i2c_master_setAck
  <2>4. /\ m_nLastSDA' = 1 /\ m_nLastSCL' = 0 /\ i2c_at' = "acked"
        /\ i2c_op' = [name |-> "setAck", arg |-> level]
    BY <2>1, <2>3, Leaves DEF DC
  <2>5. Symbols(i2c_trace') \in Meaning(i2c_op')
    BY <2>1, <2>2, <2>4, SetAckSays, Meanings
  <2> QED
    BY <2>4, <2>5 DEF I2cLines, I2cFrames
<1>8. CASE UNCHANGED I2cVars
  BY <1>8 DEF I2cVars, I2cLines, I2cFrames
<1> QED
  BY <1>1, <1>2, <1>3, <1>4, <1>5, <1>6, <1>7, <1>8 DEF I2cNext

\* In every order of operations a transfer allows, for every set of bytes, the
\* bus carries what each operation means and the master returns what the
\* slave drove.
THEOREM I2cStaysFramed == I2cSpec => []I2cFrames
<1>1. I2cInv => I2cFrames
  BY DEF I2cInv
<1> QED
  BY <1>1, I2cInvInit, I2cInvNext, PTL DEF I2cSpec

=============================================================================
