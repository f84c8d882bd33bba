# A specification of the zRGBW lamp firmware

zRGBW is an ESP8266 firmware (Espressif non-OS SDK) for a lamp with four PWM
channels: red, green, blue and white. It is controlled by JSON messages over
MQTT, UDP, TCP and HTTP, by time tasks, and by switching its power. These TLA+
modules describe the part of the firmware that is its own, `src/app/user`, and
the peripheral drivers in `src/app/driver`; TLC checks them on small instances,
and TLAPS proves the most important invariants for every value of their
constants.

## 1. Inventory

| Part | Source | State it keeps | Operations |
|---|---|---|---|
| LED engine | `user_led.c`, globals of `user_main.c` | switch `on`, remembered colour `r g b w`, target `r_now..`, start of the fade `r_old..`, colour shown `r_real..`, static `step` and `h`, `timer_led`, `led_init_flag`, PWM duties and pins | `user_led_set` (at once or by a fade), `user_led_timer_func` (hue wheel or fade frame), `user_led_gpio_config`, `user_led_init`, `user_led_mode_wificonfig` |
| colour conversion | `user_led.c:256-360` | none | `HSL2RGB`, `RGB2HSL`, `Hue2RGB` |
| power-cycle counter | `user_setting.c` | one word in a flash sector of its own; `timer_setting` | read, repair, count, clear after 4 s |
| configuration | `user_setting.c`, `user_config.h` | `user_config` in RAM, its copy in flash | load, restore defaults, delayed save |
| message handler | `user_json.c` | static `gradient`, auto-off timer, save timer | one callback for each message, two timer callbacks |
| time tasks | `user_rtc.c` | static `minute_last`; the tasks are in `user_config` | a callback each second |
| start-up | `user_main.c`, `user_main_pre.c` | none | `user_init` |
| MQTT set-up | `user_mqtt.c` | topic strings | `user_mqtt_init` |
| zlib, cJSON | submodules without source | Wi-Fi, MQTT session, OTA, flash helpers, delayed restart | external |
| UART driver | `uart.c` | ring buffers for receiving and sending, queue of `uart_recvTask`; FIFOs and interrupt registers of the UART | interrupt handler, receive task, `rx_buff_deq`, `tx_buff_enq`, direct output, resets, mask changes |
| key driver | `key.c` | level believed, edge armed, 5 s and 50 ms timers | edge interrupt, two timer callbacks |
| SDIO slave | `sdio_slv.c` | buffers in the lists `pHead_ToSend`, `pHead_Sended`; `has_read`; links and status of the SLC | `sdio_load_data`, `sdio_slave_isr` |
| I2C master | `i2c_master.c` | the levels last set, `m_nLastSDA` and `m_nLastSCL` | start, stop, bytes and acknowledges, bit by bit |
| SPI overlap | `spi_overlap.c` | `hspi_dev_reg`: configurations, two backups, device selected | initialise, select, read flash |
| SPI master and slave | `spi.c`, `spi_interface.c` | the controller's USER and SLAVE registers; packet memory | send, receive, status, interrupts; the slave's handler |
| hardware timer, GPIO 16 | `hw_timer.c`, `gpio16.c` | a callback pointer | a few register writes each |
| vendored code | `src/third_party`, `src/include`, `src/lib`, `src/ld`, `src/tools`, `src/bin` | - | lwIP, mbedTLS, SDK headers and libraries, images |

**How they interact.** `user_init` calls everything once, in order: counter,
configuration, pins, Wi-Fi (configuration mode if the counter exceeds 4), MQTT,
JSON, RTC; then it starts the hue wheel in access-point mode or sets white.
Afterwards the SDK calls back: a message, a due timer, the clock. Callbacks run
to completion and share all state through globals. The auto-off timer and the
clock build a message of their own and call the message handler with it. The
application reaches the drivers through `uart_init` and `os_printf` only; they
share no state with each other or with the rest, and each is modelled with the
peer it talks to: the line, a host, a bus, a finger on a key.

**What is hard.** In the application nothing pre-empts a callback, so the hazards are in the order of
callbacks and in power failures: commands that arrive during a fade; a save that
every change postpones against a restart that nothing postpones; auto-off against
everything that switches the lamp; one-shot tasks against saves and restarts;
flash that is erased and not yet written; messages delivered twice; and 8-bit
arithmetic. In the drivers an interrupt handler comes between any two register
accesses of the task level: masks are read in one step and written in another,
events are read in one step and cleared in another, lists and positions are
shared, and registers keep what an earlier call left in them. `PROJECT.json`
lists each at its line.

**What makes each part correct.**

* LED engine: the light gets to its target and stays between the ends of a fade;
  the remembered colour is never black; the driver knows what is shown.
* Counter: configuration mode after five short starts, and only then.
* Configuration and messages: what was accepted is saved or about to be; pins
  driven are the pins configured; auto-off runs only for a lit lamp, and ends.
* Time tasks: a one-shot task runs once.
* Colour conversion: what the lamp reports in hsl gives nearly the same colour when
  it is sent back, and does not switch the lamp off.
* UART: no byte is lost or reordered inside, reception is never off for good, what is
  written is sent.
* SDIO: bytes in order, no buffer leaks, and data does not wait for nothing.
* Key: it never goes deaf. I2C: the bus says what the caller meant. SPI: a
  transaction has its phases, the device selected is the device set up, and a
  packet is taken whole and once.

## 2. The modules

| Module | Models |
|---|---|
| `Colours` | levels, channels, colours, "between two colours" |
| `LedEngine` | `user_led.c` as functions on a record that holds its variables. One callback may call `user_led_set` several times (a message with `hsl`, `rgb` and `on`), so the operations must compose within a step |
| `Led` | the engine at work: one action for each kind of caller, and the ticks of `timer_led` |
| `Lamp` | the abstract specification of the engine: switch, remembered colour, light that jumps or glides. It has no timer, no step counter, no `r_now` |
| `BootTimes` | the power-cycle counter, one action per flash operation, with power failing between any two |
| `UserJson` | `user_json_deal_cb` and `json_task_analysis`, stage by stage in the order of the code: light, configuration, timers |
| `Device` | messages, light, configuration in RAM and flash, and three countdowns, with traps, torn saves, restarts and power failures |
| `Store` | the abstract specification of the configuration: one in effect, one stored, and whether it is due to be stored. It has no messages, no timers and no boot sequence |
| `UserRtc` | `Device` composed with the clock and the time tasks |
| `Hsl` | `RGB2HSL`, `HSL2RGB`, `Hue2RGB`, and a client that sends the reported hsl back |
| `Uart` | `uart.c`: the handler, the receive task and the application's calls, one action per register access that the handler can come between |
| `Sdio` | `sdio_slv.c` with its host |
| `Key` | one key of `key.c` with the finger on it |
| `I2cMaster` | `i2c_master.c` as sequences of line settings, and `Symbols`, what a listener hears in them |
| `SpiOverlap` | `spi_overlap.c` and the registers it saves, recovers and rewrites |
| `SpiMaster` | the two master files, `spi_interface.c` and `spi.c`, on one controller |
| `SpiSlave` | the slave handler of `spi.c` with its master |
| `LedProofs`, `BootTimesProofs`, `HslProofs`, `DeviceProofs`, `UserRtcProofs`, `UartProofs`, `SdioProofs`, `BusProofs` (SPI master, slave and overlap, I2C) | theorems |
| `MCLed`, `MCLedFade`, `MCDevice`, `MCUserRtc`, `MCHsl`, `MCUart`, `MCPeripherals` | instances for TLC (`BootTimes` needs none). `MCPeripherals` has the six small drivers, one of them at work in each behaviour |

Definitions that stand for a C function have its name. The rest correspond so:

* `led` in `Led` and `Device` is the record of `LedEngine`; `led.timer` is "idle",
  "wheel" (argument 1) or "fade" (argument 2), which is all that `timer_led` knows.
* `cfg` and `flash` are `user_config` and its sector. `setting` stands for name
  and MQTT parameters. `timer` has the ticks left of `_timer_auto_off`,
  `_timer_json` and zlib's delayed restart, or `Off`.
* A message is a record whose fields are the well-formed items; `bad` names those
  that are present with a wrong type, because the code tests presence in some
  places (`user_json.c:225, 244`) and type in others.
* Storing into `uint8_t`, `int8_t` and `uint16_t` is modulo `U8`, 256 and `U16`.
* GPIO 16 passes the test `<= 16` but `gpio[]` has 16 rows: what lies behind
  the table is the nondeterministic `behindTable`.
* A message with just one of `wifi_ssid` and `wifi_password` makes the reply follow
  a null pointer (`user_json.c:370`). That traps: `CrashOnMessage`.
* `Hsl` has fractions where the code has doubles: `HueTimesSpread` is the numerator of
  the hue, `Var1` and `Var2` count in 1/255^2. Rounding errors matter where a double
  is cut to an integer: `Truncated` gives, for a fraction that is whole, also the
  number one below. A comparison that a rounding error could turn (`L < 0.5`, the
  borders between sextants) is harmless because both sides agree there.
* Bytes, packets and buffers of the drivers carry numbers in the order in which they
  were accepted, so that loss, repetition and reordering show. A ring buffer of
  `Uart` has its positions and cells as in the code; `Content` is the queue that it
  stands for. `Garbage` is what a wrong position would read.
* A read-modify-write of a register that the handler also changes is two actions, with
  the value to be written in `task.mask`. Other accesses are one.
* What a build or an application chooses is chosen in `Init` and stays: `buff_en`
  (`UART_BUFF_EN`), `spi_driver` (which of the two files it uses), `spi_io_80m`.
* Lengths of `SpiMaster` are bits in the registers and bytes in the calls. `spi_past`
  and `stale` remember what earlier calls asked, for the properties.
* Definitions preceded by "Mutant:" are deliberately wrong variants of the one that
  follows. No specification uses them; they exist to show that the properties
  notice the bug they are about.

## 3. What TLC checks

| Run | Instance | Shows |
|---|---|---|
| `led` (`MCLed`) | 2 channels, 6 levels, 4 frames, a wheel of 4 hues, 6 pin settings | `SavedNotBlack`, `SwitchAgrees`, `SettledShowsTarget`, `FadeEnvelope`, `DutyShowsReal`, `OffRemembersTarget`, and `ImplementsLamp` with its liveness |
| `led_fade` (`MCLedFade`) | 1 channel, the device's 256 levels and 100 frames | `FadeApproaches` on the real arithmetic; `ShowsTargetAgain` however often fades are restarted |
| `boot_times` | the device's 200 and 4, streaks up to 203 starts | `ConfigModeNeedsShortBoots`, `ShortBootsGiveConfigMode`, `CountHonest`, `CounterCleared` |
| `device` (`MCDevice`) | 16 messages of which 3 arrive, 1 channel, 1 task, 200 ms ticks | `ImplementsStore` with its liveness, `AutoOffOnlyWhenOn`, `PwmDrivesConfig`, `DuplicateHarmless`, `EventuallySaved`, `AutoOffComes` |
| `rtc` (`MCUserRtc`) | 2 tasks, a week of 4 minutes, 3 messages or clock corrections | `DoneStaysOff`, `OneShotRuns`, and `UnsavedIsScheduled` for the composition |
| `hsl` (`MCHsl`) | 23 levels for each channel, at the ends, around the middle (where the formulas change) and between | `SentBackIsNear`: one round trip moves no channel by more than 7; `OrderKept`, `LitStaysLit` |
| `uart` (`MCUart`) | FIFOs of 3 bytes, ring buffers of 4, a queue of 2 events; both builds; five loads | `NothingLost`, `ReceptionArmed`, and with fairness `ReceivedIsDelivered` and `WrittenIsSent` |
| `peripherals` (`MCPeripherals`) | see the bounds below | `SdioInOrder`, `SdioOffered`; `BenchKeyHeard`; `I2cFrames`; `OverlapSelected`; `SpiPhases`, `SpiSendReturns`; `SlavePackets` |

The runs `led`, `boot_times` and `hsl` check a type invariant too. Some properties of
`peripherals` name the cases in which a driver does *not* behave as one would
wish, and show that there are no others:

* `SdioOffered`: a load of exactly a whole buffer (or of nothing) while the driver is
  idle is put on the send list and never offered (`sdio_slv.c:360-390`), and an
  event that comes during the handler's last lines is cleared and lost (`:248`).
* `SpiPhases`: `SPIMasterSendData` without data still has a reception phase if the
  last transfer received, and a status call goes without its command phase if the
  last command was empty.
* `SpiSendReturns`: not if an interrupt handler clears the flag it polls. It says that the
  call returns, not that its transaction is over: after `SPIMasterRecvData` or a status call, which
  leave `SPI_TRANS_DONE` set, `SPIMasterSendData` returns at once (`spi_interface.c:273-276`);
  the next call waits for `SPI_USR` itself.
* `OverlapSelected`: an initialisation while a device is selected takes effect with the
  next change of selection, except for the chip select pin.
* `SlavePackets` is about safety only: a packet whose event comes between the
  handler's reading and clearing is never taken, and the master waits for ever.

Four runs show a
disagreement between what the sources say and what the code does:

| Run | What the counterexample shows |
|---|---|
| `led_immediate` | A colour set with `gradient` 0 in the middle of a fade is overwritten by the fade's next frame: `user_led_set` stops neither `timer_led` nor `step`. The light then glides to the new colour from the *old* fade's start |
| `device_auto_off_saved` | `auto_off` is confirmed but not saved (`user_json.c:169`) |
| `device_restart` | MQTT settings schedule a restart in 1 s; a second change within 0.8 s postpones the save past it, and the change is lost |
| `device_switched_on` | a pin setting (and start-up) switches the lamp on without the auto-off timer that `auto_off` promises for "each time" |

**Bounds, and why they are enough.**

* *Channels.* They influence each other only through the test for black and the
  comparison of pins; two channels show both.
* *Levels and frames.* `led` uses few levels so that commands, ticks and reboots
  interleave freely; `led_fade` uses the device's numbers with few commands, for
  the arithmetic. In `led`, `6 < 2 * 4` makes a difference of levels times a frame
  number exceed the width, so a wrong signedness shows.
* *`BootBound` (203).* Beyond the saturation at 200, and so beyond the last start at
  which anything changes.
* *`MaxMessages` (3).* The interactions that the code can have are between a message
  that arms a timer, one that re-arms or disarms it, and one after. Power
  failures, ticks and timers are not bounded. In `rtc` clock corrections
  are counted with the messages. For liveness the bound is an assumption: `EventuallySaved`,
  `AutoOffComes` and the liveness of `ImplementsStore` are about lamps that get no more
  messages from some time on. Changes less than 800 ms apart without end postpone the
  save for ever (`user_json.c:416`), and messages that switch the light postpone auto-off.
* *Ticks of 200 ms.* The largest unit that divides 800 ms, 1000 ms and 2000 ms, so
  the countdowns keep their exact order. `SECOND` is 5 ticks; fades are
  shortened to 2 frames, and their ticks interleave freely with time.
* *`U16` = 4 and `U8` = 32* in `device` let a message carry values that do not fit.
* *23 levels in `hsl`.* They include colours where seven, the bound of `SentBackIsNear`,
  is reached; the theorems about `Hsl` cover all levels.
* *`uart`.* Three bytes in the FIFO and four in a buffer let positions wrap after two
  chunks and let a FIFO just not fit. The loads bound the traffic: five bytes
  received, six sent, or both directions together, with resets and noise; the
  other direction's state does not change what one does, except through the mask.
* *`peripherals`.* SDIO: 3 buffers of 2 bytes, loads of up to 5 bytes, 6 in all, so that
  buffers are part-filled, filled exactly and exhausted. Key: 3 moves of the pin
  while the driver is busy, any number while it rests. I2C: all 256 bytes, so that
  the run leaves nothing about a single byte open. Overlap: two dividers
  for each of four devices, at 40 and 80 MHz. SPI: lengths 0, 1, 2 for command, address and
  data; transactions are not bounded. Slave: 3 packets each way.
* `CHECK_DEADLOCK FALSE` only in `boot_times`, where a lamp that has seen `BootBound`
  short starts and is off stays off, in `hsl`, where the client sends back once, and
  in `peripherals`, where the bounded input of SDIO and the slave is used up, and an
  application that polls a flag its own handler has cleared waits for ever.

**Fairness.** `Led`: a repeating SDK timer keeps firing (`user_led.c:236`); commands
are not assumed to come or to stop. `BootTimes`: the processor executes, an armed
timer fires; nothing about the power supply, so `CounterCleared` has "power stays on"
as its premise. `Device`: the SDK runs timers that are due, and time goes on.
`EventuallySaved` needs no assumption about restarts: a power failure makes RAM
equal to flash. The liveness of `Store`, that what stays due is stored, follows from the
same assumptions. `UserRtc`: the clock calls back and minutes pass (about 60 calls
to a minute); `OneShotRuns` is about behaviours in which restarts cease.
`Uart`: the FIFO shifts out, the causes TOUT and EMPTY are latched while they hold, the
handler and a begun call go on (weak fairness); a queued task gets its turn and the
application reads its buffer, although other callbacks come in between (strong
fairness; `uart_test_rx` reads on a timer, `uart.c:287-297`). Nothing is assumed of FULL:
the timeout alone must do. `Key`: interrupts are served, the 50 ms timer fires, and the
user moves a key at rest. `SpiMaster`: a transaction ends and a polling call returns once
it sees its flag.

## 4. What TLAPS proves

**`LedProofs`**, from `ColoursAssumption`, `EngineAssumption` and `LedAssumption`
only (a fade has at least one frame and fewer than `U8`, white and the wheel's colours
are not black):

* `TypeCorrect`, `SavedNeverBlack`, `SwitchFollowsTarget`, `NothingStopsHalfWay`,
  `FadesStayBetween`, `DutyFollows`: the invariants of run `led`.
* `SwitchingOffRemembers`, `FadesApproach`: its action properties.
* `EngineRefinesLamp`: the engine implements the abstract lamp's safety part.

The argument. The first lemmas are about numbers: `Share` bounds a truncating
quotient, from which `FadeLevelBetween` gets that frame `s` of a fade is between its
ends and that storing it into `U8` values changes nothing, and `FadeLevelApproaches`
that frame `s + 1` is between frame `s` and the target. The invariant `IInv` is
`Good(led)`: the type, switch and colours in agreement (`Core`), the driver's duties
(`DutyRight`) and, by `timer`, where the light can be (`LightRight`). The last is
needed because `FadeEnvelope` alone is not inductive: the frame after a restart
depends on `old`, `now` and `step` together, and an immediate command leaves a running
fade with a light that is between the ends only because it *is* the new target.
Each operation of `LedEngine` gets a lemma that it keeps `Good`, and says which kind
of order the abstract lamp sees (`Followed`, a frame, or `Fresh`); `NextGood`
collects them, and invariants, action properties and refinement follow from it.

**`BootTimesProofs`**, from `BootTimesAssumption`: `TypeCorrect`,
`NoFalseConfigMode`, `ConfigModeReached`, `FlashCountHonest`. `IInv` says for each
place of the code how flash word, local variable and true number of starts are
related (`WordAgrees`, `BootTimesAgrees`); the properties alone are not inductive
because between an erase and a write the count is in RAM only.

**`HslProofs`**, from `SamplesAssumption`: `TypeCorrect`, `LitStays`, and `WheelIsLit`,
which justifies what `EngineAssumption` asks of the hue wheel. `HueRange` and
`TruncatedBelow` bound a report; `VarRange` and `Hue2RGBRange` bound a channel of the way
back. `OwnThird` is the key to `LitStays`: some channel always has the hue in its own
third of the circle, where `Hue2RGB` gives `Var2`, which is at least the lightness.
`IInv` adds which colour the report belongs to. `OrderStays` and `SentBackStaysNear` are the
other two invariants of the run, here for all 256^3 colours. `HueInSextant`
and `Arcs` place the report's hue in the sextant of the colour's order of channels, up to the
truncation; `SextantColour` says what `HSL2RGB` makes of a hue in a sextant: a channel at
either end and one between that rises or falls with the hue. `BackInOrder` compares
them. `EndsNear` and `MiddleNear` bound what cutting hue, saturation and lightness to
integers can move the ends and the one between; with the rounding it is seven
(`WithinSeven`), and TLC finds colours that reach it.

**`DeviceProofs`**, from `DeviceAssumption`, `UserJsonAssumption` and `EngineAssumption`
(messages are well formed: numbers are numbers): `UnsavedStaysScheduled`,
`AutoOffFollowsSwitch`, `PwmFollowsConfig`, `DuplicatesHarmless` and `DeviceRefinesStore`, for every set of messages, every duration
and any number of channels and tasks. `DeviceInv` adds to the three properties what the stages
of a message need: `Shaped`, that the engine's record has its switch, hue, timer and
pins; `Kept`, that user_config in RAM and in flash is made of the fields the stages
copy, so that a message without the flag leaves it *equal*; and `Countdowns`, that an
armed timer has a number. The lemmas follow the code: `SetSwitches` for one call of
`user_led_set`, `MessageLight`, `MessageConfig` and `MessageTimers` for a whole
message, then one lemma for each action of `Device`.
`DuplicatesHarmless` says that a message delivered twice changes what it changed the
first time. It goes stage by stage: the colour a message asks for is the
same when the light already has it (`ColourStages`, with the rule that black keeps the old
colour), so is the switch (`OnTwice`), and the stages of the configuration overwrite
fields with values that do not depend on them (`ConfigTwice`).
`DeviceRefinesStore` is the safety part of `ImplementsStore`: every step of `Device` is one of
`Store` or a stutter. It needs one more invariant, `Versioned`, that both copies carry
the current version, because a start with another version would bring back the defaults
although nothing was torn.

**`UserRtcProofs`**, from the same assumptions and `RtcAssumption` (the default tasks are
off): `OneShotsStayDone` and, for the composition, `TasksKeepDevice`. `DoneStaysOff` speaks
of RAM and flash, and whether a message replaces a task's record depends on the table of tasks:
`RtcInv` is `DeviceInv` with `Tabled` tables in both. A due task goes through the lemmas of a message
(`MessageLight`, `MessageTimers`), since the code hands it to the message handler.
`TasksRefineStore`: with its tasks the lamp is still a `Store`, one with `Record`: a one-shot task that has
run is switched off in RAM and flash by the same step, also when another change is
waiting to be saved. Only the safety part: `RtcFairness` is about clock and minutes,
and does not make the save timer fire.

**`UartProofs`**, from `UartAssumption`: `ReceptionStaysArmed`, for every size of FIFO,
buffer and queue and every threshold. `ReceptionArmed` alone is not inductive: a
read-modify-write may be about to write an old mask. `NoStaleDisable` says that a
mask in flight disables reception only if the register has it disabled already, and
`Snapshot` that the receive task's count is not above what the FIFO holds, so that a
buffer that refuses it is really too full. `NothingIsLost` is about contents:
the receive buffer followed by the FIFO holds exactly the bytes accepted and not yet read, in
order, and the same towards the line. `Holding` says for a ring buffer which number each
cell from `out` to `in` carries; the lemmas on one copy into a buffer and one out of it
keep it, also over the wrap. `RxInv` and `TxInv` tie buffers and FIFOs to the
numbers of bytes accepted, read, written and sent. The proof shows why the wrap in
`rx_buff_deq`, which the code makes under a condition only, is right: the receive
buffer always keeps a free cell.

**`SdioProofs`**, from `SdioAssumption`: `SdioStaysInOrder` and `SdioKeepsOffering`, for any number
and size of buffers. `Ordered` says what the two lists hold: in `pHead_ToSend`
whole buffers behind the first, each with the bytes that follow those before it; in
`pHead_Sended` empty ones, but for the first, which may hold the bytes after those.
`LoadKeepsOrder` shows that `sdio_load_data` keeps it, with a partly filled buffer,
whole buffers and a rest. `Settled` lists who has to move the head of `pHead_ToSend`: it is
offered; or it is read, and the event is with the handler or lost; or it is one of the
two buffers that `sdio_load_data` does not offer.

**`BusProofs`**, from `SpiAssumption`, `SlaveAssumption`, `OverlapAssumption` and `I2cAssumption`. `TransactionsHaveTheirPhases`:
`Leftover` ties the phases enabled to the last call that had data and the last that had
a command. `SlaveTakesWholePackets`: `SlaveInv` says for each place of the handler what
has been copied; `Pending`, that the event of a packet or its copy is under way, implies
`Held`, that the master may not write meanwhile. `SelectedDeviceIsSetUp`: `Backups` says what
the overlap driver's two backups hold once they were taken, and `FlashEdge` that the flash's
configuration is the one `hspi_overlap_flash_init` gives it. `I2cStaysFramed`: for any set of
bytes and any order of operations, each is heard as what it means. `I2cLines` gives the
levels of the lines at each place of a transfer, which make the first setting of the next
operation silent. What `Symbols` hears in a trace is a recursive function over it;
`SymbolsAre` has its value from the value after each setting, by the least setting at which
the two would differ. `WriteSays` and `ReadSays` apply it to the settings of a byte, the
others to theirs, and `ByteIs` puts the byte read together from its bits.

**Model-checked only.** Liveness (`ShowsTargetAgain`, the liveness parts of
`ImplementsLamp` and `ImplementsStore`, `CounterCleared`, `EventuallySaved`, `AutoOffComes`,
`OneShotRuns`, `ReceivedIsDelivered`, `WrittenIsSent`, `BenchKeyHeard`,
`SpiSendReturns`), which is out of the prover's reach, and nothing else.

## 5. What is not modelled, and why

* The text of replies, device reports and topics, and buffer sizes: no property is
  about them, and strings are values of a set.
* The colours that `HSL2RGB` gives are constants of `LedEngine` and `UserJson`
  (`HueColour`, `HSL2RGB`), which work with few levels; `Hsl` has the conversion itself.
* A client that sends reports back again and again: the losses of the round trips add
  up, and nothing in the sources promises otherwise.
* OTA and the delayed change of the Wi-Fi network: calls into zlib, whose source is
  absent. Their effect, a restart, is `PowerCut`.
* A save torn in the middle of its write in `Device`. `Led` has one such case: a
  valid version byte with erased pins (`ErasedPins`).
* The upper limit of `os_timer_arm` and the wrap of `auto_off_once * 1000`: SDK.
* Of the UART: the setters of baud rate, parity and stop bits (`uart.c:683-736`), which
  touch no modelled state; `UART_WaitTxFifoEmpty` and `UART_CheckOutputFinished`, which
  only read (the latter reads the FIFO before the buffer, and the handler may move
  bytes in between, so it can answer "finished" too early); UART1, which only prints.
* Of SPI: `SPICsPinSelect`, the slave mode of `spi_interface.c`, which copies words, and
  the test code. The comments give the status commands as 0x04 and 0x06, the
  constants are 4 and 1: commands are not told apart in the model.
* Of SDIO: the value `sdio_load_data` returns, which omits the bytes put into a
  partly filled buffer (`sdio_slv.c:352-354`: `len` is cleared before it is added). The
  lists are shared with the handler and the driver does not protect them: `Sdio` assumes
  that `sdio_load_data` is called from the handler's receive callback or with the
  interrupt off, and says nothing of other uses.
* `hw_timer.c` and `gpio16.c`: register writes without state to speak of.
* `SPIIntDisable` is modelled as written: its mask lacks the shift, so it leaves the
  interrupt enabled (`spi_interface.c:516-523`).
* The interval between two messages is arbitrary, that between two ticks of a
  countdown too; callbacks due at the same tick run in any order.

## 6. Plan

Done: all modules of section 2, every safety property of the runs as a theorem, and the
safety parts of both refinements.

What would add most, in this order:

1. The type of `Device`'s configuration, for messages with well-formed fields.
2. A safety core of `Key`: a key is never disarmed with nobody left to arm it.
