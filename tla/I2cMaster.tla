------------------------------ MODULE I2cMaster ------------------------------
(***************************************************************************)
(* The bit-banged I2C master of src/app/driver/i2c_master.c.  Each operation *)
(* is the sequence of settings it makes with i2c_master_setDC; the bus is    *)
(* open drain, so a line is low when either side pulls it down.  The trace   *)
(* of the last operation is kept for the properties.                         *)
(***************************************************************************)
EXTENDS Integers, Sequences

CONSTANT I2cBytes       \* the bytes written, and those a slave answers with

ASSUME I2cAssumption == I2cBytes \subseteq 0 .. 255

VARIABLES
    m_nLastSDA, m_nLastSCL,
    i2c_at,             \* where in a transfer the caller is
    i2c_op,             \* the last operation, its argument or the slave's answer
    i2c_ret,            \* what it returned
    i2c_trace           \* the lines before it and after each of its settings

I2cVars == <<m_nLastSDA, m_nLastSCL, i2c_at, i2c_op, i2c_ret, i2c_trace>>

\* A setting of both lines, and one that lets a slave drive SDA.
DC(sda, scl) == [sda |-> sda, scl |-> scl, slave |-> 1]
Let(bit, scl) == [sda |-> 1, scl |-> scl, slave |-> bit]

Level(dc) == [sda |-> IF dc.slave = 0 THEN 0 ELSE dc.sda, scl |-> dc.scl]

\* What i2c_master_getDC reads after the k-th setting of an operation.
getDC(settings, k) == Level(settings[k]).sda

Bit(byte, i) == (byte \div 2 ^ i) % 2
Byte(bits) ==
    LET Sum[i \in 0 .. 8] == IF i = 0 THEN 0 ELSE 2 * Sum[i - 1] + bits[i]
    IN  Sum[8]

-----------------------------------------------------------------------------
(***************************************************************************)
(* The operations, from the levels last set.                               *)
(***************************************************************************)
i2c_master_start == <<DC(1, m_nLastSCL), DC(1, 1), DC(0, 1)>>

i2c_master_stop(scl) == <<DC(0, scl), DC(0, 1), DC(1, 1)>>

\* SDA is toggled with SCL low, and SCL clocked 28 times to free the bus.
i2c_master_init ==
    <<DC(1, 0), DC(0, 0), DC(1, 0)>>
    \o [k \in 1 .. 2 * 28 |-> DC(1, (k + 1) % 2)]
    \o i2c_master_stop(1)

i2c_master_setAck(level) ==
    <<DC(m_nLastSDA, 0), DC(level, 0), DC(level, 1), DC(level, 0), DC(1, 0)>>

\* A slave holds SDA while SCL falls and moves it afterwards.
i2c_master_getAck(ack) ==
    <<DC(m_nLastSDA, 0), Let(ack, 0), Let(ack, 1), Let(ack, 0)>>

i2c_master_readByte(byte) ==
    LET Sent(i) == IF i = 0 THEN 1 ELSE Bit(byte, 8 - i)
        BitOf(k) == (k + 2) \div 3
    IN  <<DC(m_nLastSDA, 0)>>
        \o [k \in 1 .. 24 |-> Let(Sent(IF k % 3 = 1 THEN BitOf(k) - 1 ELSE BitOf(k)),
                                 IF k % 3 = 0 THEN 1 ELSE 0)]
        \o <<Let(Sent(8), 0)>>

\* Mutant: SDA is set at once with the first low SCL.
WriteByteAtOnce(wrdata) ==
    [k \in 1 .. 24 |-> DC(Bit(wrdata, 7 - ((k - 1) \div 3)),
                          IF k % 3 = 2 THEN 1 ELSE 0)]

i2c_master_writeByte(wrdata) ==
    <<DC(m_nLastSDA, 0)>>
    \o [k \in 1 .. 24 |-> DC(Bit(wrdata, 7 - ((k - 1) \div 3)),
                             IF k % 3 = 2 THEN 1 ELSE 0)]

-----------------------------------------------------------------------------
\* i2c_master_gpio_init lets both lines rise and clears the bus.
I2cInit ==
    /\ m_nLastSDA = 1 /\ m_nLastSCL = 1
    /\ i2c_at = "off"
    /\ i2c_op = [name |-> "none", arg |-> 0]
    /\ i2c_ret = 0
    /\ i2c_trace = <<[sda |-> 1, scl |-> 1]>>

Perform(name, arg, settings, next) ==
    LET last == settings[Len(settings)] IN
    /\ m_nLastSDA' = last.sda /\ m_nLastSCL' = last.scl
    /\ i2c_at' = next
    /\ i2c_op' = [name |-> name, arg |-> arg]
    /\ i2c_trace' = <<[sda |-> m_nLastSDA, scl |-> m_nLastSCL]>>
                    \o [k \in 1 .. Len(settings) |-> Level(settings[k])]

I2cBusInit ==
    /\ i2c_at = "off"
    /\ Perform("init", 0, i2c_master_init, "idle")
    /\ UNCHANGED i2c_ret

\* A transfer is started on an idle bus, or again after an acknowledge.
I2cStart ==
    /\ i2c_at \in {"idle", "acked"}
    /\ Perform("start", 0, i2c_master_start, "open")
    /\ UNCHANGED i2c_ret

I2cStop ==
    /\ i2c_at = "acked"
    /\ Perform("stop", 0, i2c_master_stop(m_nLastSCL), "idle")
    /\ UNCHANGED i2c_ret

I2cWrite ==
    /\ i2c_at \in {"open", "acked"}
    /\ \E wrdata \in I2cBytes :
        Perform("writeByte", wrdata, i2c_master_writeByte(wrdata), "written")
    /\ UNCHANGED i2c_ret

\* i2c_master_getAck samples SDA after its third setting; i2c_master_checkAck
\* is true when it returns 0.
I2cGetAck ==
    /\ i2c_at = "written"
    /\ \E ack \in {0, 1} :
        /\ Perform("getAck", ack, i2c_master_getAck(ack), "acked")
        /\ i2c_ret' = getDC(i2c_master_getAck(ack), 3)

I2cRead ==
    /\ i2c_at = "acked"
    /\ \E byte \in I2cBytes :
        /\ Perform("readByte", byte, i2c_master_readByte(byte), "read")
        /\ i2c_ret' = Byte([i \in 1 .. 8 |->
                            getDC(i2c_master_readByte(byte), 3 * i + 1)])

\* i2c_master_send_ack and i2c_master_send_nack.
I2cSetAck ==
    /\ i2c_at = "read"
    /\ \E level \in {0, 1} :
        Perform("setAck", level, i2c_master_setAck(level), "acked")
    /\ UNCHANGED i2c_ret

I2cNext ==
    \/ I2cBusInit \/ I2cStart \/ I2cStop
    \/ I2cWrite \/ I2cGetAck
    \/ I2cRead \/ I2cSetAck

I2cSpec == I2cInit /\ [][I2cNext]_I2cVars

-----------------------------------------------------------------------------
(***************************************************************************)
(* What a listener on the bus makes of a trace: SDA sampled at each rise of  *)
(* SCL, a START or STOP when SDA moves while SCL is high, and an error when  *)
(* it moves in the same setting as SCL falls.                                *)
(***************************************************************************)
Heard(old, new) ==
    CASE old.scl = 0 /\ new.scl = 1 -> <<new.sda>>
      [] old.scl = 1 /\ old.sda # new.sda ->
            <<IF new.scl = 0 THEN "error"
              ELSE IF new.sda = 0 THEN "START" ELSE "STOP">>
      [] OTHER -> <<>>

Symbols(trace) ==
    LET Said[k \in 1 .. Len(trace)] ==
            IF k = 1 THEN <<>> ELSE Said[k - 1] \o Heard(trace[k - 1], trace[k])
    IN  Said[Len(trace)]

Meaning(op) ==
    CASE op.name = "none" -> {<<>>}
      [] op.name = "init" -> {[k \in 1 .. 28 |-> 1] \o <<"START", "STOP">>}
      [] op.name = "start" -> {<<"START">>, <<1, "START">>}
      [] op.name = "stop" -> {<<0, "STOP">>}
      [] op.name \in {"writeByte", "readByte"} ->
            {[i \in 1 .. 8 |-> Bit(op.arg, 8 - i)]}
      [] op.name \in {"getAck", "setAck"} -> {<<op.arg>>}

\* In every order of operations a transfer allows, the bus carries exactly
\* what each means - eight bits, most significant first, one acknowledge bit,
\* and a START or STOP nowhere else - and what the master returns is what the
\* slave drove.  It rests on each operation leaving the lines as the next
\* expects them.
I2cFrames ==
    /\ Symbols(i2c_trace) \in Meaning(i2c_op)
    /\ i2c_op.name \in {"getAck", "readByte"} => i2c_ret = i2c_op.arg

=============================================================================
