------------------------------ MODULE SpiOverlap ------------------------------
(***************************************************************************)
(* src/app/driver/spi_overlap.c: the HSPI controller serves a device of its  *)
(* own and, overlapped onto the pins of the flash, two devices there and the *)
(* flash itself.  Its registers are saved once for a device and once for the *)
(* flash, and rewritten in part or whole at each selection, depending on     *)
(* what was selected before.                                               *)
(***************************************************************************)
EXTENDS Integers

CONSTANT ClockDivs      \* the dividers a device is initialised with

ASSUME OverlapAssumption == ClockDivs \subseteq 0 .. 31

Devices == {"HSPI_CS_DEV", "SPI_CS1_DEV", "SPI_CS2_DEV", "SPI_CS0_FLASH"}
Guests == {"SPI_CS1_DEV", "SPI_CS2_DEV"}

VARIABLES
    spi_io_80m,         \* BIT8 of PERIPHS_IO_MUX: the flash runs at 80 MHz
    hspi,               \* the HSPI registers that are saved and recovered
    overlap,            \* reg_cspi_overlap
    mtdo,               \* what drives the HSPI device's chip select pin
    backup,             \* hspi_flash_reg_backup, hspi_dev_reg_backup and the flag
    hspi_dev_conf,
    selected_dev_num,
    stale               \* devices initialised while one was selected, and not
                        \* selected anew since

OverlapVars == <<spi_io_80m, hspi, overlap, mtdo, backup, hspi_dev_conf,
                 selected_dev_num, stale>>

Div(n) == [equ_sysclk |-> FALSE, div |-> n]     \* CONF_HSPI_CLK_DIV
Equ(clock) == [clock EXCEPT !.equ_sysclk = TRUE]

\* The divider spi_master_init sets.
MasterClock == Div(1)

\* ACTIVE_HSPI_CS0, 1, 2: the only chip select left enabled.
ChipSelect(dev) ==
    CASE dev = "SPI_CS1_DEV" -> "CS1"
      [] dev = "SPI_CS2_DEV" -> "CS2"
      [] OTHER -> "CS0"

OverlapInit ==
    /\ spi_io_80m \in BOOLEAN
    /\ hspi = [flash_mode |-> TRUE, read_mode |-> "reset", falling |-> FALSE,
               cs_setup |-> FALSE, clock |-> Div(0), cs |-> "all"]
    /\ overlap = FALSE
    /\ mtdo = "GPIO15"
    /\ backup = [flag |-> FALSE, flash |-> hspi, dev |-> hspi]
    /\ hspi_dev_conf = [d \in Devices |-> [active |-> FALSE, clk_polar |-> 0,
                                           clk_div |-> 0]]
    /\ selected_dev_num = "HSPI_CS_DEV"
    /\ stale = {}

spi_master_init(regs) ==
    [regs EXCEPT !.flash_mode = FALSE, !.cs_setup = TRUE, !.clock = MasterClock]

\* The first call takes both backups.  Every call stores the device's
\* configuration, and that of the HSPI device routes the chip select pin.
hspi_master_dev_init(dev, polar, div) ==
    LET flash == [hspi EXCEPT
            !.read_mode = "flash",
            !.clock = [@ EXCEPT !.equ_sysclk = spi_io_80m]]
        idle == IF backup.flag THEN selected_dev_num ELSE "HSPI_IDLE"
    IN  /\ IF backup.flag THEN UNCHANGED <<backup, hspi>>
           ELSE /\ backup' = [flag |-> TRUE, flash |-> flash,
                              dev |-> spi_master_init(flash)]
                /\ hspi' = spi_master_init(flash)
        /\ selected_dev_num' = idle
        /\ hspi_dev_conf' = [hspi_dev_conf EXCEPT
                ![dev] = [active |-> TRUE, clk_polar |-> polar, clk_div |-> div]]
        /\ mtdo' = IF dev = "HSPI_CS_DEV" THEN "HSPI" ELSE mtdo
        /\ stale' = IF idle = "HSPI_IDLE" THEN stale ELSE stale \union {dev}
        /\ UNCHANGED <<spi_io_80m, overlap>>

-----------------------------------------------------------------------------
(***************************************************************************)
(* hspi_dev_sel, by the registers as each case leaves them.  A device of the *)
(* other group enters or leaves overlap mode, the backup of the new device's *)
(* kind is recovered when the old one was of the other kind or none, and     *)
(* then clock, edge and chip select are set.                                *)
(***************************************************************************)
Outside(dev) == dev \in {"HSPI_CS_DEV", "HSPI_IDLE"}    \* not overlapped

hspi_overlap_init(regs) == [regs EXCEPT !.cs_setup = TRUE]
hspi_overlap_deinit(regs) == [regs EXCEPT !.cs_setup = FALSE]

Switched(old, new) ==
    IF new = "HSPI_CS_DEV" THEN hspi_overlap_deinit(hspi)
    ELSE IF Outside(old) THEN hspi_overlap_init(hspi) ELSE hspi

\* Mutant: after a flash read the flash's registers stay.
RecoveredOnce(old, new) ==
    IF new = "SPI_CS0_FLASH" THEN backup.flash
    ELSE IF old = "HSPI_IDLE" THEN backup.dev
    ELSE Switched(old, new)

Recovered(old, new) ==
    IF new = "SPI_CS0_FLASH" THEN backup.flash
    ELSE IF old \in {"SPI_CS0_FLASH", "HSPI_IDLE"} THEN backup.dev
    ELSE Switched(old, new)

SelectedClock(old, new, clock) ==
    CASE new = "SPI_CS0_FLASH" ->
            IF spi_io_80m /\ Outside(old) THEN Equ(clock) ELSE clock
      [] new \in Guests /\ spi_io_80m ->
            IF old \in Guests THEN clock ELSE Equ(clock)
      [] OTHER -> Div(hspi_dev_conf[new].clk_div)

hspi_dev_sel(new) ==
    LET old == selected_dev_num IN
    /\ hspi_dev_conf[new].active
    /\ selected_dev_num' = new
    /\ IF old = new THEN UNCHANGED <<hspi, overlap, mtdo, stale>>
       ELSE /\ hspi' = [Recovered(old, new) EXCEPT
                    !.clock = SelectedClock(old, new, @),
                    !.falling = new # "SPI_CS0_FLASH" /\ hspi_dev_conf[new].clk_polar = 1,
                    !.cs = ChipSelect(new)]
            /\ IF new = "HSPI_CS_DEV" THEN overlap' = FALSE /\ mtdo' = "HSPI"
               ELSE IF Outside(old) THEN overlap' = TRUE /\ mtdo' = "GPIO15"
               ELSE UNCHANGED <<overlap, mtdo>>
            /\ stale' = stale \ {new}
    /\ UNCHANGED <<spi_io_80m, backup, hspi_dev_conf>>

\* hspi_overlap_read_flash_data, which hspi_overlap_flash_init makes the
\* flash's read function: any read, refused ones too, selects the flash.
hspi_overlap_read_flash_data == hspi_dev_sel("SPI_CS0_FLASH")
hspi_overlap_flash_init == hspi_master_dev_init("SPI_CS0_FLASH", 0, 0)

OverlapNext ==
    \/ \E dev \in Devices \ {"SPI_CS0_FLASH"}, polar \in {0, 1}, div \in ClockDivs :
        hspi_master_dev_init(dev, polar, div)
    \/ \E dev \in Devices \ {"SPI_CS0_FLASH"} : hspi_dev_sel(dev)
    \/ hspi_overlap_flash_init
    \/ hspi_overlap_read_flash_data

OverlapSpec == OverlapInit /\ [][OverlapNext]_OverlapVars

-----------------------------------------------------------------------------
\* Whatever was selected before, in whatever order and with flash reads in
\* between, the registers are those of the selected device: its chip select,
\* overlap mode for the devices on the flash pins and only for them, the
\* clock, the edge, and for the flash its read mode.  An initialisation that
\* comes while a device is selected is the exception: it waits for the next
\* change of selection, but already routes the HSPI device's chip select.
OverlapSelected ==
    LET dev == selected_dev_num
        conf == hspi_dev_conf[dev]
    IN  dev # "HSPI_IDLE" /\ backup.flag =>
        /\ hspi.cs = ChipSelect(dev)
        /\ overlap = (dev # "HSPI_CS_DEV")
        /\ "HSPI_CS_DEV" \notin stale => mtdo = IF overlap THEN "GPIO15" ELSE "HSPI"
        /\ (dev = "SPI_CS0_FLASH") = hspi.flash_mode
        /\ hspi.read_mode = "flash"
        /\ hspi.clock.equ_sysclk = (spi_io_80m /\ dev # "HSPI_CS_DEV")
        /\ dev \notin stale =>
            /\ hspi.falling = (conf.clk_polar = 1)
            /\ \/ hspi.clock.equ_sysclk
               \/ dev = "SPI_CS0_FLASH"
               \/ hspi.clock.div = conf.clk_div

=============================================================================
