# Ventilation device: a TLA+ verification project

The program is the firmware of a ventilation controller on a Raspberry Pi Pico W: it keeps the pressure of a duct by
steering a fan over Modbus, is operated with a rotary encoder, buttons and a display, and reports to and takes commands
from an MQTT broker. This directory holds TLA+ models of its logic, TLC runs that check them on small instances, and
TLAPS proofs for every size. Paths are relative to `src/`. The models follow the files at the top level; `New/` and
`extraextra.cpp` are older variants of the same code.

1. [Inventory](#1-inventory)
2. [Modules and how they correspond to the code](#2-modules)
3. [Runs: what they check and show, bounds, fairness](#3-runs)
4. [Proofs](#4-proofs)
5. [Disagreements, and what was noticed](#5-disagreements)
6. [Not modelled, and why](#6-not-modelled-and-why)

## 1. Inventory

One superloop (`main.cpp`) runs everything; there are no threads. Concurrency comes from two interrupt sources, the
GPIO callback of the panel and the UART interrupt, and from the world: the operator, the devices on the RS-485 line,
the broker, the power. lwIP is polled from the loop. Nearly every wait has a timeout; the exceptions are in section 5.

| Component | State it keeps | Operations | Interacts with |
|---|---|---|---|
| Superloop, `main.cpp` | `connectNow`, `pullInternet`, copies of the credentials and of the last command | boot, connect, take the menu's connection request and store it, apply a broker command, call `event()`, poll the network for 100 ms | all others, by calls |
| Menu and pressure control, `MenuHandler` | screen (`MenuEventType`), selected entry (`menuRot`), `speed`, `pressure`, `setPressure`, `autoMode`, `mqttFlag`, `errorFlag`, `errorCount`, two deadlines | `event()`: one case per screen; setters for broker commands; `publishStatus` | reads and clears the panel's flags, calls Modbus and the display, sets `connectNow` for `main` |
| Credential editor, two cases of `event()` | keyboard, text being typed, text shown, four fields with their *entered* flags, `key`, `isWiFi`, `isMqtt` | prompt, scroll, type, erase, change keyboard, save | the panel; `main` fetches the fields |
| Panel interrupts, `Interrupt_Handler` | per handler a flag and a count; one debounce timestamp shared by all | `callback` in interrupt context | the menu polls the flags |
| Modbus controller, `ModbusController` | registers by name, last I2C bytes | `writeSensor`, `readSensor`, `readPressure` (I2C) | Modbus client; results not checked |
| Modbus client, `ModbusClient`, `ModbusRegister`, `nanomodbus.c` | server address, message buffer | read or write: request, answer field by field with timeouts; the library also serves | UART driver |
| UART driver, `PicoUart`, `RingBuffer` | two ring buffers, interrupt masks | `write`, `read`, receive and transmit interrupt | hardware FIFOs |
| MQTT and Wi-Fi manager, `MqttWifiManager` | one static command slot (`automatic`, `MqttValue`, `notification`) | connect, publish, message callback | superloop, MQTT client |
| lwIP glue, `IPStack`, `Countdown` | a 2048-byte receive ring with `rd`, `wr`, `count`; connection flag; a deadline | connect, write, read with a time limit, receive callback | lwIP, MQTT client |
| MQTT client and codec, paho | session flags, keepalive timers, packet buffers, table of handlers | connect, subscribe, publish, yield (cycle, keepalive, dispatch), close; serialise and deserialise every packet | IPStack, broker |
| EEPROM, `eeprom.cpp` | 64-byte records, the log | erase at boot, write and read strings, numbers and log entries | superloop |
| Display, `tftdisplay`, `display/` | frame buffer, controller window | lines, rectangles, text, one screen per menu state | menu, pure output |

What is hard, and what makes each part correct:

- **Panel.** The interrupt may fall between the loop's clear of a flag and its read of the count. Correct: the loop
  scrolls only for turns that were let through, and edges are let through only after the debounce gap, across the wrap
  of the clock.
- **Menu.** State of one screen leaks into the next: `menuRot`, pending presses, the error count of an earlier run.
  Correct: the alarm follows its life cycle on every path, its lock holds, the fan is commanded to stop under it,
  speeds are percentages, a run out of reach ends.
- **Editor.** The prompt, the field that save fills and the flags are three separate state machines, and a broker
  command may take the screen away at any moment. Correct: what was asked for is what is stored; fields are filled once
  and in order.
- **Superloop.** Several messages may arrive in one yield, a command comes while another waits in the menu, deadlines
  are caught up with in bursts. Correct: a command is applied whole or superseded, and in the end confirmed and the
  standing alarm reported.
- **UART.** `write()` and the interrupt share the ring and the interrupt's own enable bit. Correct: bytes in order, none
  lost on transmit, none stranded in the ring, dropped on receive only when the ring is full.
- **Modbus.** Late, damaged and missing answers; nothing empties the receive ring; verdicts are dropped. Correct: an
  exchange ends, leaves nothing behind, and what is reported good is a genuine and current answer; every call of the
  library does to the server what it says.
- **MQTT.** A packet is read in three reads with one time limit; the ring drops what it has no room for although TCP
  has acknowledged it; the peer may be silent. Correct: the stream is in step or the session is closed, commands come
  in order, silence is noticed.
- **Boot and EEPROM.** Power fails between any two records. Correct: no connection and no set of records mixes the
  texts of two boots; a request is served.
- **Codecs and drawing.** Lengths, offsets, widths and clippings at their limits.

`PROJECT.json` lists every hazard with its line and the properties that cover it.

## 2. Modules

```
InterruptHandler --implements--> FrontPanel            Operation <--implements-- MenuHandler
                                     | EXTENDS             | EXTENDS
                              CredentialEditor         StatusLoop --- MCLoop (messages)
                                     | EXTENDS
  PressureAlarm <--implements-- MenuHandler --- MCMenu (state constraint)

UartTransmit --implements--> ByteChannel <--implements-- UartReceive         (both over RingBuffer)
IpStream (ring operators: IpReceive) --implements--> ByteStream <--reads from-- MqttSession --- MCSession

ModbusMaster     CredentialStore       (on their own)

Algorithms --EXTENDS--> Codecs --> IpReceive, ModbusExchange -> Checksums, EepromRecords,
     |                             MqttHandlers -> MqttReading -> MqttPackets, SensorReadings
     +--> Screens -> FrameBuffer, DisplayController
```

| Module | Models | State and steps |
|---|---|---|
| `FrontPanel` | flags, screen, selected and shown entry | `TurnIsr`, `PressIsr`; `TurnsFound` is what a poll can find, including an interrupt between clear and read |
| `InterruptHandler` | `Interrupt_Handler::callback` against the statements of a poll | clock, shared `timestamp`, true time `since` the last edge let through; one action per statement of the loop |
| `CredentialEditor` | cases `CredentialsMenu` and `enterCredentials` of `event()` | one action per pass: `CredentialsMenuStep`, `Prompt` (key up), `EnterText` (key down: all four buttons and the encoder in the order of the code). Texts are lengths |
| `MenuHandler` | all of `event()`, the command setters, `main`'s hand-over | one action per case; `Event` is one call. `ControlScreen` is the whole of case `controlPressure`: step, sample, alarm, press. `mqttFlag` first selects the screen, then the switch runs, in one step as in the code |
| `PressureAlarm`, `Operation` | nothing in the code: the promise of the alarm; what the screens do to the settings that are commanded and published | `running`, `alarm`, `deficit`; settings without screens, panel and fan |
| `StatusLoop` | `main`'s loop around `Operation`: the message callback with its one slot, the two places that apply it, `publishStatus` and the 5 s deadline | `stage` is the place in the pass; `overdue` counts the periods to be caught up with; messages are mode, key and value |
| `CredentialStore` | `main` from power-up: erase, read back, connection with what the menu holds, the four records written after it | a power failure before any write; texts carry the boot that entered them, and a field may be entered empty, whose record is then not written |
| `MqttSession` | `MQTT::Client` as the program uses it, `MqttWifiManager`, `IPStack` reads, the broker and the link | `op` is the call, `pc` the place in the cycle; every read can time out; segments may end anywhere, the link may die |
| `IpReceive`, `IpStream`, `ByteStream` | the receive callback and `read()` with their two-part copies; the promise of a bounded receive buffer | `rd`, `wr`, `count`; `coming`, `pending` |
| `RingBuffer`, `ByteChannel` | `RingBuffer.cpp`; nothing in the code: the promise of a byte stream, lossless or lossy | `Store` and `AdvanceHead` are the two statements of `put()`; `Contents` is the queue a ring stands for |
| `UartTransmit` | `PicoUart::write`, `uart_irq_tx`, the transmit FIFO and its trigger | a program counter `at`; the interrupt is one step and can fall between any two statements of `write()` while it is not masked |
| `UartReceive` | `PicoUart::read`, `uart_irq_rx`, the receive FIFO | bytes arrive in the middle of the interrupt; `get()` is fetch, then advance |
| `ModbusMaster` | `ModbusRegister`, `ModbusClient::uart_transport_read`, the client half of nanomodbus for the two functions used | `at` is the field awaited; each `Recv...` action is one `recv` with the tests that follow it. CRCs are opaque values that carry the frame they protect |
| `ModbusExchange`, `Checksums` | every function of nanomodbus' client and server on RTU and TCP, raw calls, bystanders, the wait for a byte behind the FIFO; the two CRCs | an exchange is a function of the call and the servers' stores, on whole frames |
| `EepromRecords`, `SensorReadings` | records, numbers and log byte for byte; the scaling of each reading and of the fan's command | operators |
| `MqttPackets`, `MqttReading`, `MqttHandlers` | every packet's serialiser and deserialiser; the readers and the topic filter; the table of handlers | operators on byte sequences |
| `FrameBuffer`, `DisplayController`, `Screens` | drawing with its clippings; the commands of set-up and window; what each screen draws | operators on a set of lit pixels |
| `Codecs`, `Algorithms` | no code but the input cases and the reference definitions | a state is one input; invariants compare |
| eight modules `..._proofs` | | theorems of the module they are named after; `MenuHandler_proofs` also those of CredentialEditor, `Main_proofs` those of StatusLoop, CredentialStore and InterruptHandler, `Network_proofs` those of IpStream and MqttSession, `Codec_proofs` those of Codecs |

Conventions: definitions marked *faulty variant* are plausible mistakes in the code next to the definition they would
replace; no run uses them, the mutants of `PROJECT.json` do, and every property of a passing run is violated by one.
`sleep_ms` and printing are left out, with one consequence kept: interrupts may arrive between any two steps. Values are
small where only their order matters (speeds, pressures), exact where width matters (`AsUInt16`, the codecs).

Abstractions worth knowing:

- A call of `event()` is one step towards the panel, except that a turn may fall between the clear and the read of the
  count. `InterruptHandler` shows for the main menu that statement-wise execution implements this; the other polls are
  written the same way.
- Whether the 3 s deadline has passed is a free choice in every pass of `MenuHandler`, which includes the bursts of
  samples that `delayed_by_ms` on an old deadline produces. The 5 s deadline and its bursts are in `StatusLoop`.
- A reading is any member of `Readings`. A value of 127 and above is 0 there, as in `readPressure`. In `MenuHandler` a
  write to the fan may be lost (`BusFaults`).
- `MqttSession`: time passes, and the network delivers, only while the client waits in a read; publications (QoS 0)
  leave no trace in the session; a stream that is out of step is followed to the end of the cycle that lost it, not
  into the garbage after it.
- `ModbusMaster`: on a garbled line only two of the four registers are polled and the devices' values stay, because
  there the property is about the addressed device, not about values.
- Some of what is modelled is in the repository's libraries but not reached by the program: the server half of nanomodbus
  (it gives the client's calls an answerer built from the same source), `framebuf::scroll`, and most of the MQTT server's
  side of the codec, against which the client's side is read back.
- The devices, the line, the FIFOs, the interrupt controller, the broker, lwIP and the EEPROM chip are external to
  `src/`; they are modelled from how the code uses them.

## 3. Runs

| Run | Module, specification | Distinct states | Shows |
|---|---|---|---|
| `Editor` | CredentialEditor, `EditorSpec` | 440,768 | four buttons, turns, interruptions, reopenings: `FieldsWellFilled` (filled in order, an empty one only behind a text), `EnteredIsFinal`, and `WiFiPromptAnswered` (the Wi-Fi half of "what was asked for is stored") |
| `Control` | MCMenu, `FairSpec` | 782,048 | `KeepsAlarmPromise` and `OperatesAsAbstracted` (two refinements), `AlarmLocksOutControl`, `AlarmStopsFan`, `SpeedIsPercentage`, and the liveness `RunEnds`: a run whose setpoint is out of reach ends, with fan writes lost at will |
| `Loop` | MCLoop, `FairLoop` | 380,292 | `LoopInv` (types; a command is applied whole), `CommandConfirmed`, `AlarmReported` |
| `Session` | MCSession, `FairSession` | 454,660 | `SessionInv` (types; client and broker agree on the session), `InStepOrClosed`, `CommandsInOrder`, `SilenceNoticed` |
| `Store` | CredentialStore, `FairSpec` | 3,151 | `StoreInv` (types; a connection has the fields of one moment, records hold what was taken and nothing older than the boot), `RequestServed` |
| `Polling` | ModbusMaster, `FairSpec` | 2,761,046 | on an orderly line (answers in time or never, damaged or cut): `PollingInv` with `NothingLeftOver`, `ReadingIsCurrent`, `ExchangeEnds`; on a garbled one (late answers, damaged unit bytes, an overflowing ring): `AcceptedIsGenuine` |
| `Debounce` | InterruptHandler, `Spec` | 83,328 | `PollsThePanel` (implements the one-step panel), `Debounced`, `HandlerInv` (types; every scroll was a turn) |
| `Transmit` | UartTransmit, `FairTransmit` | 438,153 | `SendsInOrder` (implements the lossless channel), `NothingStranded`, `KeepsSending` |
| `Receive` | UartReceive, `ReceiveSpec` | 115,500 | `ReadsInOrder` (implements the lossy channel), `DroppedOnlyWhenFull` |
| `Algorithms` | Algorithms, `Spec` | 15,451 | one state per input: Modbus calls and frames (`CallsAsPromised`, `LineTrusted`), sensor scaling (`PressureRight`), EEPROM (`RecordsKept`), MQTT (`PacketsReadBack`, `PiecesMakePackets`, `MessagesHandled`), display (`DrawingExact`, `SelectionFramed`, `ScreensStayInside`) |
| `EditorPrompts`, `OutOfStep` | | | violations, section 5 |

The longest run takes about a minute and a half with two workers. The variable `orderly` of ModbusMaster chooses the
kind of line at the start, so that both are one specification.

Bounds, and why they are enough:

- *Editor*: keyboards of 2 and 3 keys (the code's 26 and 36): one where an index fits both and one where it does not.
  `MaxTyped` 1 tells an empty text from another; `EditorPrompts` uses 2.
- *Control*: speeds 0..2, setpoints 0..3, readings {0, 2, 3}, deadband 0, limit 3: below, inside and above the band,
  both clamps and every count up to the limit occur. The constraint `OutsideEditor` cuts off the two credential
  screens and nothing else. They change none of the variables of its safety properties, and liveness is not lost in
  them: `RunEnds` is about a run of the controller, and leaving its screen is what it asks for. `SpeedIsPercentage` has
  a precondition on the broker's speeds, which this run satisfies: the code does not check them.
- *Loop*: one message of each mode and one without the mode, two on their way at a time (the first and the one that
  overwrites it), two periods to catch up with.
- *Session*: ring and packet buffer of 8 bytes: a command has 6, so that two do not fit and the ring wraps and
  overflows; a subscription's answer and a command can meet. One connection. Two
  commands, the first with another text than the second (the constraint `TwoDifferent`; the client does not look into
  them), so that one left out, or two that change places, are seen.
- *Store*: 3 boots; a failure between any two writes, a boot on any remains and one more after it; every field but the
  first may be entered empty behind one that is not.
- *Polling*: the program's four sensors, two values, a ring of 8 bytes (an answer has 7, so one cut or late frame
  misaligns all that follow), one answer on its way at a time.
- *Debounce*: a clock of 6 ticks with gaps of 1 and 3; true time is told apart up to 8, beyond a wrap. `MaxOwed` 4
  bounds how far the callback is ahead of the loop.
- *Transmit*: ring of 4 slots (so 3 bytes), FIFO of 3 with trigger 1, writes of up to 4 bytes: a write that does not
  fit, a wrap of both indices, a FIFO above, at and below the trigger. *Receive*: ring of 3, FIFO of 2, 3 bytes on the
  line.
- *Algorithms*: every function of the Modbus library with allowed and refused arguments, at its largest quantity,
  with absent and failing callbacks, to the right, another and every unit, on both transports; record texts of lengths
  around 1 and 61; readings at the ends of their width; every kind of MQTT packet with optional parts present and
  absent, and two packets that arrive in up to four pieces; drawing inside, across and outside each edge of a small buffer, and the
  entries of the menus, thirty keys, speeds of 0 to 100 and pressures of 0 to 126 on the real display.

Deadlock is checked in every run but `Session` and `OutOfStep`, where the operator's connections are bounded, so that
nothing is left to do once the last is closed.

Fairness:

- `MenuHandler`: weak fairness of `Event`, because the superloop calls it for ever and the waits in it are bounded; and
  of `SampledEvent`, a pass of the controller in which the 3 s deadline has passed, because the deadline is moved by
  3 s only when it was reached. `RunEnds` excludes a broker that sends commands for ever: each resets the count.
- `StatusLoop`: weak fairness of the pass and of time. `CommandConfirmed` excludes a lost session, a later message and
  a setting changed by the operator; `AlarmReported` is about an alarm that comes to stand still while the session
  stays.
- `MqttSession`: weak fairness of the device, strong fairness of the timers, which the model lets run only inside a
  read; nothing of the broker and the link, so that `SilenceNoticed` cannot rest on an answer. It excludes a read inside a
  packet whose time has run out: its wait has no end in practice (section 5).
- `CredentialStore`: weak fairness of `main`. Power failures are bounded by `MaxBoots`.
- `FairTransmit`: weak fairness of `write()`'s statements and of the line; strong fairness of the *requested* interrupt,
  which `write()` masks for a moment in every call; the processor takes a pending interrupt as soon as it is unmasked.
  Interrupts for received bytes, which also call `uart_irq_tx()`, are not owed: `KeepsSending` must not depend on them.
- `ModbusMaster`: weak fairness of the client, in which a wait for bytes that do not come ends by its timeout.

The operator, the broker, the network and the devices owe nothing anywhere.

## 4. Proofs

All proofs (20,559 obligations) are checked by `tlapm` without any step taken on trust. They hold for every value of the
constants that satisfies the modules' named assumptions (`OperableAssumption`, `KeyAssumption`, `ControlAssumption`,
`RingAssumption`, `FifoAssumption`, `ReceiveAssumption`, `SizeAssumption`, `DebounceAssumption`, `BootsAssumption`,
`LoopAssumption`, `ModbusAssumption`, `SessionAssumption`), among them the real sizes.

| Theorem | Statement |
|---|---|
| `WellFilled`, `WiFiPrompts`, `EnteredForGood` (MenuHandler_proofs, as the next three rows) | `EditorSpec` implies `[]FieldsWellFilled`, `WiFiPromptAnswered`, `EnteredIsFinal` |
| `TypeCorrect`, `LockedOut`, `AlarmHoldsFan`, `SpeedsArePercentages` | `Spec` implies `[]TypeOK`, `[]AlarmLocksOutControl`, `AlarmStopsFan`, `[]SpeedIsPercentage` |
| `AlarmRefinement` | `Spec` implies `KeepsAlarmPromise`: every step is a step of PressureAlarm or a stutter |
| `OperationRefinement` | `Spec` implies `OperatesAsAbstracted`: to the settings, the display and the broker, all of `event()` does what Operation says |
| `ScrollsCounted`, `EdgesAreApart`, `HandlerPolls` (Main_proofs) | InterruptHandler's `Spec` implies `[]HandlerInv`, `Debounced`, and `PollsThePanel`: the callback between any two statements of the loop implements the one-step panel |
| `TransmitTypes`, `BytesNotStranded`, `TransmitRefinesChannel` (UartTransmit_proofs) | `TransmitSpec` implies `[]TransmitTypeOK`, `[]NothingStranded`, and `SendsInOrder`: the lossless channel is implemented |
| `ReceiveRefinesChannel`, `DropsOnlyWhenFull` (UartReceive_proofs) | `ReceiveSpec` implies `ReadsInOrder` (the lossy channel is implemented) and `DroppedOnlyWhenFull` |
| `TypesInv`, `IsByteStream` (Network_proofs, as the next row) | the network's ring keeps its indices and its count, and implements ByteStream |
| `ClientAndBrokerAgree`, `CommandsArriveInOrder`, `StreamStaysInStep` | `SessionSpec` implies `[]SessionInv`, `[]CommandsInOrder`, `[]InStepOrClosed` |
| `RingLeftEmpty`, `GoodAnswersAreSent`, `GoodReadingsAreCurrent` (ModbusMaster_proofs) | `Spec` implies `[]PollingInv` (types; on an orderly line nothing of an answer is left over), `AcceptedIsGenuine`, `ReadingIsCurrent` |
| `CommandsWhole` (Main_proofs) | `LoopSpec` implies `[]LoopInv`: a broker command is applied whole or superseded |
| `StoreKeepsOneSet` (Main_proofs) | CredentialStore's `Spec` implies `[]StoreInv`, with fields entered empty whose records are not written |
| `ReadingsScaled` (Codec_proofs, as all that follow) | `PressureRight` for every pair of bytes of the sensor |
| `TextsReadBack` | `TextsKept` for texts of any bytes and length, in any record over any other: the part of `RecordsKept` that is not about the log |
| `ConnectionsReadBack`, `PublicationsReadBack`, `LengthsReadBack`, `RequestsAreReadBack`; together `PacketsAreReadBack` | `PacketsReadBack` for every packet that fits `Room`, the size the runs give the buffer: any texts, lists, flags, identifiers |
| `AnyPiecesMakePackets` | `PiecesMakePackets` for any packets, any buffer, cut into any pieces |
| `EveryPacketIsFound` | with room for each, what `MQTTPacket_readnb` finds are the packets |
| `FiltersFound`, `SubscriptionsKept`, `MessagesHandedOver`; together `MessagesReachHandlers` | `MessagesHandled` for filters over any characters and of any number of levels, and for tables of any number of slots, whatever they hold |

The arguments:

- **Menu.** `IInv == TypeOK /\ AlarmLocksOutControl`. Types alone are not inductive: that `errorCount` stays within the
  limit is true only because the step that reaches it leaves the pressure screens, and they are re-entered only with the
  count cleared. The refinement of the alarm needs more, `FreshSetpoint`: the setpoint screen is only ever shown with
  the count cleared, so that the press that starts a run starts it from zero. For the speed, the speeds the broker sends
  are assumed percentages (the antecedent of `SpeedIsPercentage`), and the clamps, one-sided as they are, keep it one
  because a controller step moves it by one. The refinement of Operation takes every
  screen's step to one of the few things that can happen to the settings, and needs `PressureShown`: the setpoint that
  a run starts with is a reading or a value the encoder can reach.
- **Editor.** `EditorInv` adds `PromptCurrent`: while the Wi-Fi entry is open and the prompt is on the screen, the field
  it named is the first one still missing. A save is then into the field that was asked for, because the Wi-Fi fields
  come first in the order of the save branches. For the MQTT fields the same formula is false (section 5). For the empty fields,
  `ShownTypedOrSaved`: the text shown is the one typed, or nothing has been typed since the last save and it is the text of
  that save; a save of an empty text is therefore one behind a text.
- **Panel.** `FlagUp`: a flag that the loop has cleared and not yet read for was found up. `RecentIsTrue`: as long as
  the true time since the last edge is within the longer gap, the wrapped difference equals it, so that a difference
  that lets an edge through is never an artefact of the wrap. The abstract poll takes place at the read of the count.
- **UART, transmit.** `IInv` has three parts besides the types: the slot of a byte being written stays free between the
  test and the move of head (`RoomForByte`, an interrupt only makes room); an enabled interrupt has asked or will ask
  (`WillAsk`: the FIFO is above its trigger level or the request is up); and from the arming in `write()` on, a ring
  that is not empty has its interrupt enabled (`Enabled`). RingBuffer_proofs says what indices modulo `Size` mean for
  the queue: storing does not disturb it, publishing appends, taking removes from the front. The channel's `Accept` is
  the move of head, its `Deliver` the byte leaving the FIFO.
- **UART, receive.** `ByteWaits`: between `get()`'s fetch and its move of tail the ring is not empty and the fetched byte
  stays its oldest, because the interrupt moves head only. A byte is accepted as it enters the FIFO, delivered
  as tail moves, lost as the interrupt takes it while the ring is full.
- **Network ring.** `Consistent`: the count is what lies between `rd` and `wr`, and a ring with `rd = wr` is told full
  from empty by it. Both two-part copies are then indexing modulo the size: what is stored joins the queue at its end
  and what is read leaves its front.
- **MQTT session.** Everything is said of a stream that nothing has disturbed (`InStep`): no byte found the ring full, no
  length was cut by its time limit. `Sync`: there are packets, with witnesses for the place where each ends (`Parses`),
  such that what the cycle has read of a packet, what waits in the ring and what is on its way are together these
  packets and nothing else (`Received`, `ReadSoFar`). It is kept by every read, of which any may be short, by every
  piece that arrives and by every packet the broker sends; a read that is short inside the rest of a packet breaks it,
  and closes the session in the same step. A second witness counts the commands sent up to each packet (`Numbered`),
  so that `Delivers` can say what the handler has had: the commands since the grant, up to those still in the stream.
  `Acknowledged`: a CONNACK or a SUBACK in the stream or in the buffer says what the broker holds, and there is no second
  CONNACK of the same connection. A connect that was short of bytes reads on without `Sync`; `Garbage` says why it cannot
  take what is left for an answer: no byte of it is the first one of a CONNACK or a SUBACK.
- **Boot.** `ErasedSoFar` and `Booting`: a boot reads back only what it has itself erased, so that it never finds a
  complete set. `Requested`: what leads to a connection is therefore the operator's request alone, and what it leaves in
  `main`'s variables is a set that stood in the menu. `EnteredFirst`: the fields are entered in order and stay, so that a
  set taken earlier is the one that stands now, cut off at the number entered then. Under an empty text, whose write is
  skipped, the record is therefore as erased, or has the blank of an earlier request of the same boot.
- **Modbus.** On any line, `Genuine`: a CRC byte in the ring belongs to an answer that a device has sent, so that a
  frame which passes the test of its CRC is one of these; `HeaderChecked`: what has been read of the header is the
  addressed unit's. On an orderly line an exchange is followed byte by byte (`Expects`): either the answer to the
  request is still due and the ring is empty, or what the client has read and what the ring holds are together that
  answer, whole, damaged or cut (`Remains`), and the field awaited is the next one of it (`InStage`). No test of a field
  then fails in the middle of an answer; an exchange ends by a timeout, with the ring empty, or by the test of the CRC,
  which consumes the last byte.
- **Superloop.** `ObeyedAtOnce`: a command is in force only from its hand-over to the call of `event()` that obeys it,
  and no message is delivered in between; `SlotIsLatest`: the slot holds what the latest complete message says. That
  the speed keeps its type needs `Reachable`: the controller's single steps do not leave what lies between the
  messages' lowest and highest value and the top speed.

- **Encodings.** An invariant of Codecs compares, in each of its states, two computations on one input, and the runs
  draw the inputs from small sets. The theorems take an input of any size: a text is any sequence of bytes, a list of
  topics any list, and the hypothesis (`Publishable`, `Connectable`, `Requestable`, `Streamable`) says only what the
  code's callers guarantee. Where the code tests for room, so does the hypothesis, with the few bytes by which three of
  the serialisers miscount (section 5). A packet is described by where each field lies (`InPlace`, `HereWord`,
  `HereText`), so that writing puts a field where reading looks for it, whatever stands before and behind it.
  The recursive functions of the lists and of the streams are reasoned about with `Induction`, a lemma on sets of numbers that
  comes from the least element of what would be missing; that such a function exists at all is proved on the way.
- **A packet in pieces.** `Stands`: between two calls of `MQTTPacket_readnb` its state says how far it is: nothing, so
  many bytes of the length with their value, or so many bytes of the rest. `CallsStand` adds that the packets found so far
  are the first ones of the stream. Each call keeps it and either finds a packet or passes a cut (`Further`), of which
  there are finitely many, so that the calls end; a packet with no room ends both readers at the same place. `Streamable` asks for packets of a
  type from 1 on, which are all that there are: the reader returns the type, and 0 means that there is more to come.
- **Messages and handlers.** `isTopicMatched` walks through characters, the standard's rule is about levels. `Placed` says
  where in the characters each level lies, and one turn for a level (`LevelStepIs`) is one of four: the filter has `#`, `+`,
  the level of the name or another one. The rest of the walk is then about the rest of the levels (`WalkMatches`), by
  induction backwards from the end. In the converse direction the theorem has the property's two conditions, no empty
  level and no fewer levels than the filter, without which the function refuses topics that the rule matches. `TableKept`
  (a filter has one slot, and its slot a handler) is kept by every operation on the table, and `CalledSoFar` counts, slot
  by slot, the handlers that a message is handed to.

With TLC only:

- Liveness (`RunEnds`, `KeepsSending`, `ExchangeEnds`, `CommandConfirmed`, `AlarmReported`, `SilenceNoticed`,
  `RequestServed`), which the prover does not handle.
- `CallsAsPromised` and `LineTrusted`: an exchange of nanomodbus compares the two ends of some twenty functions; what
  damage its CRC detects, and that the log's CRC is its polynomial (`RecordsKept`, with the log's wrap), is arithmetic on
  the bits of every byte, which the prover has no theory of.
- `DrawingExact`, `SelectionFramed`, `ScreensStayInside`: the display has one size. The screens are checked on it, with
  every entry that can be selected, the keys of the keyboard's first three rows, every speed up to 100 and every pressure that
  can be read, 121 to 126 with the bytes that they write behind the buffer; lines and copies on a smaller buffer, inside, across
  and outside each edge.

Every other property of the passing runs is a theorem. What the models leave out (section 6) is left out of the proofs
too.

## 5. Disagreements

Each of these runs ends with a violation of one property, which states what a comment or a prompt of the repository
says:

- `EditorPrompts`: "Write IP" (MenuHandler.cpp:376) is answered by storing the SSID. Save fills the first field not
  entered yet, the prompt follows the menu entry: a visit to the MQTT entry first swaps them.
- `OutOfStep`: "If any read fails in this method, then we should disconnect from the network" (MQTTClient.h:442): a
  read of the length that times out is taken for a length, the session stays open and the rest of the packet is read as
  the next one.

Stated in the modules and refuted by TLC, without runs of their own:

- `NoEmptyFieldSaved` (CredentialEditor): "If the Entered string is not empty" (MenuHandler.cpp:456) tests the string that is
  shown, which a save leaves standing when it clears the one typed: a second press of save enters the next field empty,
  and for good. `FieldsWellFilled` says how far this goes, and CredentialStore follows such fields to the EEPROM.
- `HighlightedIsSelected` (MenuHandler): "The function should highlight the selected menu item" (tftdisplay.cpp:73): the Wi-Fi
  menu opens with its first entry framed while `menuRot` is 3 (MenuHandler.cpp:161), and a press takes that one.
- `AlarmReallyStopsFan` (MenuHandler): "throw error and stop the fan" (MenuHandler.cpp:275): the stop is one write whose
  failure goes unnoticed and which nothing repeats.

Noticed while modelling. The definitions follow the code in all of these.

- *Menu.* After a change of keyboard the selected index may be past the end of the new one (:395). After four entered
  fields the editor has no way out but a broker command (:483). A run starts with `writeSensor("fan", speed)` where the
  other writes have `speed * 10` (:212). A setpoint and `autoMode` survive the screen they belong to (:273).
- *Superloop.* A failed publication is only printed. `connected` and `pullInternet` are set once and never cleared, so
  that a lost session is never reopened. `main.cpp:190` goes through a null manager before the first connection, which
  is harmless only as long as what it reaches is static. `connectWiFi()` compares 0 with 1, so it always reports success. A
  subscription the broker refused (0x80) is printed as subscribed (main.cpp:170).
- *MQTT client.* A read that is short inside `subscribe()` closes the session, but `waitfor` goes on reading: it may take
  a later byte of the same packet for the header of a SUBACK and enter the handler of a session that is over. That is
  why `SessionAgrees` speaks of a client that is connected. A negative remaining time becomes a wait of 49 days. Deserialisers of CONNACK, SUBACK and PUBLISH return 1 on
  bodies that are too short; UNSUBACK's does it as well. A subscription that finds the table of handlers full closes the session.
  Bytes dropped by the full ring are acknowledged to the peer.
- *MQTT codec.* Three of the server's serialisers test for less room than they use; SUBACK's reader lets one code more
  through than asked; `MQTTPacket_len` is one too long at the borders of the length encoding; `a/#` does not match `a`.
- *Modbus.* Over TCP the answer to FC20 has a length one too small. A bystander parses FC23's answer as FC16's. Servers
  answer broadcasts with exceptions. The server's flush (nanomodbus.c:1568) is reached only after a bad request. The
  reader of discrete inputs does not compare the byte count.
- *Sensors.* An overshoot of the pressure (127 and above) reads 0, so that the controller speeds up; a negative
  temperature reads about 6553 °C.
- *EEPROM.* Every boot erases before it reads, so what was stored never survives a restart. Empty texts and texts over
  61 characters are skipped silently. Every fifth log entry erases the log and is lost. The CRC is not compared.
- *Display.* `displayString` clears three bytes past the frame buffer for the lowest row; a pressure of 121 to 126, drawn
  as it was read (MenuHandler.cpp:155), one to six; a speed above 100 draws past its row; keys 30 to 35 are never framed, and after a change
  of keyboard no key is (:407 of MenuHandler.cpp); the row of keys at line 64 is not on the display.

## 6. Not modelled, and why

- Configuration headers, logging, formatting of texts and of JSON (a message is its mode, key and value), font pixels.
- I2C transfers and their waits, UART register set-up, `send()` and `flush()`, the Wi-Fi driver and lwIP itself: what
  they do is an outcome (success, failure, data) in the modules above. With them, the lifetimes of lwIP's
  control blocks.
- What a key types and the 25-byte buffers it goes to (MenuHandler.cpp:395, :460): texts are lengths and whole values.
- The duct. Readings are arbitrary, so that every property of the controller holds for any duct, and none says how well it is
  controlled.
- paho's C client, samples, tests and log formatting, `Menu.cpp`, `New/`, `extraextra.cpp`: not part of the built
  program, or called by nothing in it.
- One composition of everything: `MenuHandler`, `StatusLoop`, `MqttSession` and `CredentialStore` are views of the same
  loop that meet in `Operation`, the `session` flag and `ByteStream`; their product is beyond TLC.
