------------------------------ MODULE SpiMaster ------------------------------
(***************************************************************************)
(* An SPI controller as master, driven by src/app/driver/spi_interface.c or  *)
(* by the byte functions of src/app/driver/spi.c.  Which phases a            *)
(* transaction has is kept in the USER registers, and each call changes only *)
(* some of them: the rest is what earlier calls left.                        *)
(***************************************************************************)
EXTENDS Integers

CONSTANT SpiLens        \* bytes of a command, an address, a piece of data

ASSUME SpiAssumption == SpiLens \subseteq 0 .. 64 /\ 0 \in SpiLens

Phases == {"COMMAND", "ADDR", "MOSI", "MISO"}

VARIABLES
    spi_driver,         \* which of the two files the application uses
    spi_user,           \* the phases enabled in SPI_USER
    spi_bitlen,         \* their bits, by SPI_USER1 and SPI_USER2
    spi_usr,            \* SPI_USR of SPI_CMD: a transaction runs
    trans_done,         \* SPI_TRANS_DONE, and its interrupt enable
    trans_done_en,
    spi_at,             \* what the calling task waits for
    spi_asked, spi_sent,    \* bits the last transaction was to have, and had
    spi_past            \* what earlier calls asked, for the properties

SpiVars == <<spi_driver, spi_user, spi_bitlen, spi_usr, trans_done,
             trans_done_en, spi_at, spi_asked, spi_sent, spi_past>>

Frame(user, len) == [p \in Phases |-> IF p \in user THEN len[p] ELSE 0]
NoPhase == [p \in Phases |-> 0]

\* The length field holds one bit less; its least value is one bit.
Bits(n) == IF n = 0 THEN 1 ELSE 8 * n

\* After reset a transaction is a command, and a phase has one byte.
SpiInit ==
    /\ spi_driver \in {"spi_interface", "spi"}
    /\ spi_user = {"COMMAND"}
    /\ spi_bitlen = [p \in Phases |-> 8]
    /\ spi_usr = FALSE
    /\ trans_done = FALSE /\ trans_done_en = FALSE
    /\ spi_at = "init"
    /\ spi_asked = NoPhase /\ spi_sent = NoPhase
    /\ spi_past = [data |-> "none", command |-> TRUE]

\* SPIInit as master enables MOSI; spi_master_init enables the command phase.
SpiMasterInit ==
    /\ spi_at = "init"
    /\ spi_user' = spi_user \union
            {IF spi_driver = "spi" THEN "COMMAND" ELSE "MOSI"}
    /\ spi_at' = "idle"
    /\ UNCHANGED <<spi_driver, spi_bitlen, spi_usr, trans_done, trans_done_en,
                   spi_asked, spi_sent, spi_past>>

\* Every call first waits for the transaction before it: WHILE SPI_USR.
SpiFree(driver) == spi_driver = driver /\ spi_at = "idle" /\ ~spi_usr

\* Setting SPI_USR starts a transaction with the phases then enabled.
Start(user, len, asked, wait) ==
    /\ spi_user' = user /\ spi_bitlen' = len
    /\ spi_usr' = TRUE
    /\ spi_asked' = asked
    /\ spi_sent' = Frame(user, len)
    /\ spi_at' = wait
    /\ UNCHANGED <<spi_driver, trans_done, trans_done_en>>

Enable(user, on, off) == (user \ off) \union on

-----------------------------------------------------------------------------
(***************************************************************************)
(* spi_interface.c.                                                        *)
(***************************************************************************)

\* Mutant: a length of 0 leaves the phase as it was.
SetupKeeping(user, phase, n) == IF n = 0 THEN user ELSE user \union {phase}

\* The command and address part of SPIMasterSendData and SPIMasterRecvData:
\* a length of 0 turns the phase off.
Setup(user, phase, n) == IF n = 0 THEN user \ {phase} ELSE user \union {phase}

Lens(cmd, addr, phase, n) ==
    [spi_bitlen EXCEPT !["COMMAND"] = Bits(cmd), !["ADDR"] = Bits(addr),
                       ![phase] = Bits(n)]

\* What a call asks for: 8 bits a byte, and no phase for a length of 0.
Asked(cmd, addr, mosi, miso) ==
    [COMMAND |-> 8 * cmd, ADDR |-> 8 * addr, MOSI |-> 8 * mosi, MISO |-> 8 * miso]

\* Without data MOSI is off; MISO stays as it was.
SPIMasterSendData(cmd, addr, n) ==
    LET user == Setup(Setup(spi_user, "COMMAND", cmd), "ADDR", addr)
        data == IF n = 0 THEN user \ {"MOSI"}
                ELSE Enable(user, {"MOSI"}, {"MISO"})
    IN  /\ SpiFree("spi_interface")
        /\ Start(data, Lens(cmd, addr, "MOSI", n),
                 Asked(cmd, addr, n, 0), "send")
        /\ spi_past' = [data |-> IF n = 0 THEN spi_past.data ELSE "MOSI",
                         command |-> cmd # 0]

SPIMasterRecvData(cmd, addr, n) ==
    LET user == Setup(Setup(spi_user, "COMMAND", cmd), "ADDR", addr)
        data == IF n = 0 THEN user \ {"MOSI", "MISO"}
                ELSE Enable(user, {"MISO"}, {"MOSI"})
    IN  /\ SpiFree("spi_interface")
        /\ Start(data, Lens(cmd, addr, "MISO", n),
                 Asked(cmd, addr, 0, n), "recv")
        /\ spi_past' = [data |-> IF n = 0 THEN "none" ELSE "MISO",
                         command |-> cmd # 0]

\* Either of them without an address or a data buffer returns -1: by then the
\* command phase is set up, the address phase only if the data was missing.
SpiRefused(cmd, addr) ==
    LET command == Setup(spi_user, "COMMAND", cmd)
    IN  /\ SpiFree("spi_interface")
        /\ \/ /\ addr # 0
              /\ spi_user' = command
              /\ spi_bitlen' = [spi_bitlen EXCEPT !["COMMAND"] = Bits(cmd)]
           \/ /\ spi_user' = Setup(command, "ADDR", addr)
              /\ spi_bitlen' = [spi_bitlen EXCEPT !["COMMAND"] = Bits(cmd),
                                                  !["ADDR"] = Bits(addr)]
        /\ spi_past' = [spi_past EXCEPT !.command = cmd # 0]
        /\ UNCHANGED <<spi_driver, spi_usr, trans_done, trans_done_en, spi_at,
                       spi_asked, spi_sent>>

\* The status calls write an 8-bit command, but do not enable its phase.
Status(phase) == [NoPhase EXCEPT !["COMMAND"] = 8, ![phase] = 8]
StatusLens(phase) == [spi_bitlen EXCEPT !["COMMAND"] = 8, ![phase] = 8]

SPIMasterSendStatus ==
    /\ SpiFree("spi_interface")
    /\ Start(Enable(spi_user, {"MOSI"}, {"MISO", "ADDR"}), StatusLens("MOSI"),
             Status("MOSI"), "idle")
    /\ spi_past' = [spi_past EXCEPT !.data = "MOSI"]

SPIMasterRecvStatus ==
    /\ SpiFree("spi_interface")
    /\ Start(Enable(spi_user, {"MISO"}, {"MOSI", "ADDR"}), StatusLens("MISO"),
             Status("MISO"), "recv")
    /\ spi_past' = [spi_past EXCEPT !.data = "MISO"]

\* SPIIntCfg disables and clears everything and enables its source;
\* SPIIntEnable enables it.  SPIIntDisable has the source's mask without the
\* shift, so it clears the event and leaves the interrupt enabled.
SpiInterrupts ==
    /\ spi_at = "idle"
    /\ spi_driver = "spi_interface"
    /\ \/ trans_done_en' = TRUE /\ trans_done' = FALSE      \* SPIIntCfg
       \/ trans_done_en' = TRUE /\ UNCHANGED trans_done     \* SPIIntEnable
       \/ trans_done' = FALSE /\ UNCHANGED trans_done_en    \* SPIIntDisable
    /\ UNCHANGED <<spi_driver, spi_user, spi_bitlen, spi_usr, spi_at, spi_asked,
                   spi_sent, spi_past>>

\* Mutant: a handler that clears the flag of an interrupt not its own.
ClearUnasked ==
    /\ trans_done
    /\ trans_done' = FALSE
    /\ UNCHANGED <<spi_driver, spi_user, spi_bitlen, spi_usr, trans_done_en,
                   spi_at, spi_asked, spi_sent, spi_past>>

\* The application's handler ends its interrupt with SPIIntClear.
SPIIntClear ==
    /\ trans_done /\ trans_done_en
    /\ trans_done' = FALSE
    /\ UNCHANGED <<spi_driver, spi_user, spi_bitlen, spi_usr, trans_done_en,
                   spi_at, spi_asked, spi_sent, spi_past>>

-----------------------------------------------------------------------------
(***************************************************************************)
(* spi.c.  USER1 is never written: data has the length it had after reset.   *)
(***************************************************************************)
ByteCall(on, off, asked, data, wait) ==
    /\ SpiFree("spi")
    /\ Start(Enable(spi_user, on, off),
             [spi_bitlen EXCEPT !["COMMAND"] = asked["COMMAND"]], asked, wait)
    /\ spi_past' = [spi_past EXCEPT !.data = data]

CommandOnly(bits) == [NoPhase EXCEPT !["COMMAND"] = bits]

\* Nine bits in one command; the data phases stay as they were.
spi_lcd_9bit_write == ByteCall({}, {}, CommandOnly(9), spi_past.data, "idle")

spi_mast_byte_write ==
    ByteCall({}, {"MOSI", "MISO"}, CommandOnly(8), "none", "recv")

spi_byte_write_espslave ==
    ByteCall({"MOSI"}, {"MISO", "ADDR"}, Status("MOSI"), "MOSI", "idle")

spi_byte_read_espslave ==
    ByteCall({"MISO"}, {"MOSI", "ADDR"}, Status("MISO"), "MISO", "recv")

-----------------------------------------------------------------------------
\* The controller finishes a transaction.
SpiTransDone ==
    /\ spi_usr
    /\ spi_usr' = FALSE
    /\ trans_done' = TRUE
    /\ UNCHANGED <<spi_driver, spi_user, spi_bitlen, trans_done_en, spi_at,
                   spi_asked, spi_sent, spi_past>>

\* SPIMasterSendData waits for SPI_TRANS_DONE and clears it, the others for
\* SPI_USR.
SpiReturn ==
    /\ \/ spi_at = "send" /\ trans_done /\ trans_done' = FALSE
       \/ spi_at = "recv" /\ ~spi_usr /\ UNCHANGED trans_done
    /\ spi_at' = "idle"
    /\ UNCHANGED <<spi_driver, spi_user, spi_bitlen, spi_usr, trans_done_en,
                   spi_asked, spi_sent, spi_past>>

SpiNext ==
    \/ SpiMasterInit
    \/ \E cmd, addr, n \in SpiLens :
        SPIMasterSendData(cmd, addr, n) \/ SPIMasterRecvData(cmd, addr, n)
    \/ \E cmd, addr \in SpiLens : SpiRefused(cmd, addr)
    \/ SPIMasterSendStatus \/ SPIMasterRecvStatus
    \/ SpiInterrupts
    \/ SPIIntClear
    \/ spi_lcd_9bit_write
    \/ spi_mast_byte_write
    \/ spi_byte_write_espslave
    \/ spi_byte_read_espslave
    \/ SpiTransDone
    \/ SpiReturn

\* The controller finishes what it started, and a task polls again and again.
SpiSpec ==
    /\ SpiInit /\ [][SpiNext]_SpiVars
    /\ WF_SpiVars(SpiTransDone) /\ WF_SpiVars(SpiReturn)

-----------------------------------------------------------------------------
\* A transaction has the phases its call asked for, whatever calls - refused
\* ones too - came before it, but for two: a call without data still has the
\* data phase of the last one that had data (in spi_interface.c only if that
\* was a read), and a status call goes without its command if the last command
\* was empty.
SpiPhases ==
    spi_usr => \A p \in Phases : spi_sent[p] # spi_asked[p] =>
        \/ /\ spi_asked["MOSI"] = 0 /\ spi_asked["MISO"] = 0
           /\ p = spi_past.data
           /\ p = "MISO" \/ spi_driver = "spi"
        \/ p = "COMMAND" /\ ~spi_past.command /\ spi_sent[p] = 0

\* SPIMasterSendData returns.  An interrupt for the end of a transaction is
\* the exception: its handler clears the flag the call is waiting for.
SpiSendReturns == []<>(spi_at # "send" \/ trans_done_en)

=============================================================================
