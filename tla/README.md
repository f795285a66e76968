# WhaleShark IIoT: verification models

TLA+ models of WhaleShark IIoT, a monitoring system for factories: a gateway
samples the sensors of a machine and sends them over Wi-Fi to a server, which
stores them in a time-series database. Paths are relative to the repository
(`src/`); `APP/` stands for
`src/IoTGateWay/bsp/stm32/stm32f105RC/application/`.

## 1. The system

```
 machine --RS485--> PLC thread --sample--> network manager --command--> Wi-Fi driver --UART--> ESP modem
                        ^   (plccomm.c)  (networkmanager.c)  <--message--  (wifi.c)  <--lines--    |
                        +-- SMSG_INC_DATA --------+                                              TCP
                                                                                                   v
 time series <-- MQ agent <--RabbitMQ-- TCP ingest server (one task per gateway) <-----------------+
                     \________ delivery log (MongoDB) ________/        facility catalogue (Redis)
```

| component | code | state it keeps | operations | interacts through |
|---|---|---|---|---|
| network manager | `APP/network/networkmanager.c` | `networkStatus`, `retryCount`, the payload kept for retries, response timer | one handler per message (OK, ERROR, FAIL, TIMEOUT, sample), `SendData`, reset | message queue of 4 pointers, `tcpOn`, driver calls |
| Wi-Fi driver | `APP/network/wifi/wifi.c` | its own `networkStatus`, response, one message slot, transmit buffer, two timers | transmit, read and parse, respond, two timer callbacks | event flags, UART interrupt, the queue |
| PLC thread | `APP/device/uart/plccomm.c` | `sensorCodeCount`, frame buffer, `tcpOn` | frame received, next sensor | event flags, `SendData` |
| kernel objects | `src/IoTGateWay/src/ipc.c`, `timer.c` | flags, queue, timer list | send, receive, start, stop | third-party, used by all threads |
| configuration | `APP/config/configuration.c`, `APP/device/flash/flash.c` | RAM copy and flash page | one setter per field, load, factory reset | USB console, driver |
| USB console | `APP/device/uart/usbconsole.c` | line buffer | AT commands | configuration, reset |
| application, LEDs | `APP/application.c`, `APP/device/led/led.c` | LED states, a queue | LED per status, reset | message queue |
| manufacture mode | `APP/manufacture.c` | a queue and a timer | start, stop, expire | message queue |
| TCP ingest server | `net_socket/iiot_tcp_async_server.py` | per client: facility snapshot, MQ channel | accept, receive, convert, publish, reply | asyncio, Redis, RabbitMQ, MongoDB |
| interrupt scopes | `net_socket/signal_killer.py` | the process's SIGINT handler | enter, release, signal | shared by all client tasks |
| delivery log | `mongo_manager.py` | one document per day and facility | `document_upsert` | server and agent write it |
| MQ agent | `iiot_mqtt_agent.py` | queues, InfluxDB client | `callback_mqreceive` | RabbitMQ, MongoDB, InfluxDB |
| configuration script, monitor, emulator | `system_config.py`, `instrument_monitor.py`, `gateway_emulator.py` | none between runs | one-shot scripts | Redis, sockets |

**What is hard.** In the gateway three threads of one priority, two UART
interrupts and four timer interrupts share a queue of *pointers* to one slot, two
event objects and two status words of the same name. An event receive clears all
flags at once, the parser looks only at the first line of what it reads, timers
outlive what they watch, and the modem may answer late, twice or not at all. In
the server, tasks interleave at every `await` and share the process's signal
handler; server and agent are two processes that read, change and write the same
document.

**What makes each component correct.**
- *Gateway link:* a sample is sent once the previous one is settled; payload is
  written only at the modem's prompt; the gateway is never ready with a timer
  running that could reset it; it never waits unwatched; samples keep arriving.
- *Configuration:* what is in force is what is stored; a reset in the middle of a
  write comes back to the old, the new or the factory's configuration.
- *PLC framing, payload:* every packet of a round is made of one frame; what the
  server publishes is the reading of the sensor whose turn it was; noise on the line
  never stops the rounds.
- *LEDs:* they show how far the gateway has come, although one timer blinks for all.
- *Ingest server:* a packet is acknowledged only if it was published; a broken
  channel, a changed catalogue or a database that was away costs a bounded number of
  readings; a sensor's published value never goes back.
- *Interrupt scopes:* a SIGINT reaches a task that can act on it, and does not kill a
  server that has not been asked.
- *Delivery log, agent:* RECEIVED only after the agent got the message; one document
  a day; what the agent has handled is confirmed; no reading is stored more often
  than there are queues.

Several of these hold in this code only up to a certain event: a write that is torn,
two processes that overlap, a sample that is dropped. The models keep a history
variable for that event, the properties say what holds before it, and section 3
what the code does beyond it.

The hazards found in the code are listed, line by line, in `PROJECT.json`.

## 2. Modules

| module | models | role |
|---|---|---|
| `GatewayLink` | networkmanager.c, wifi.c, the thread of plccomm.c, the kernel objects as used, the modem and server as environment | state, actions, properties |
| `SendChannel` | what the link promises: stop-and-wait | abstract specification |
| `GatewayPhases` | | the phases of the data path in an orderly environment: an inductive invariant of GatewayLink |
| `GatewayUnpaced` | | what holds however threads, lines and faults interleave: another inductive invariant of GatewayLink |
| `MCGatewayLink` | fault sets for TLC | instances |
| `GatewayLinkProofs` | | theorems about GatewayLink: types and status, phases, timers, order of samples, refinement of SendChannel, no pending reset when ready |
| `ConfigStore` | configuration.c, flash.c, the writing commands of usbconsole.c, the flash driver and resets as environment | state, actions, properties |
| `ConfigRegister` | what the store promises: a register that survives resets | abstract specification |
| `MCConfigStore` | texts, one the beginning of another | instances |
| `ConfigStoreProofs` | | theorems about ConfigStore |
| `PlcFraming` | plccomm.c's read loop, `ParserReceiveData` and buffer, the ring of serial.c as used; PLC, driver and manager as environment | state, actions, properties, instances |
| `PlcFramingProofs` | | theorems about PlcFraming: types, the parser, rounds |
| `PlcPayload` | `MakeSensorPayloadData`, `MakeSensorValue`, the length given to `SendData`; `convert_hex2decimal`, `config_fac_msg` of the server | algorithms, one step per payload |
| `MCPlcPayload` | frames with bytes that look like STX and ETX | instances |
| `PlcPayloadProofs` | | theorems about PlcPayload |
| `StatusLeds` | application.c, led.c, the messages networkmanager.c passes on | state, actions, properties, instances |
| `StatusLedsProofs` | | theorem about StatusLeds |
| `IngestServer` | iiot_tcp_async_server.py; gateways, RabbitMQ, MongoDB and Redis as environment | state, actions, properties |
| `MCIngestServer` | catalogues | instances |
| `IngestServerProofs` | | theorems about IngestServer |
| `InterruptScopes` | signal_killer.py as the server uses it | state, actions, properties, instances |
| `InterruptScopesProofs` | | theorems about InterruptScopes |
| `DeliveryLog` | mongo_manager.py, the logging part of the server, iiot_mqtt_agent.py | state, actions, properties |
| `AtomicLog` | what the log promises: entries are added and confirmed, never taken back | abstract specification |
| `MCDeliveryLog` | three readings on two days | instances |
| `DeliveryLogProofs` | | theorems about DeliveryLog, and that it implements AtomicLog |

*How the groups meet.* One reading passes through them in this order:

```
 PlcFraming --frame--> PlcPayload --payload--> GatewayLink --packet--> IngestServer --message--> DeliveryLog
 (which bytes)         (which packets)         (when, and whether)     (what is answered)        (what is kept)
```

Each is checked alone, and what it takes from its neighbour is an assumption that
the neighbour's module justifies or that is left open on purpose:
`PlcFraming` lets `SetSendEvent` come at any moment of a round and `SetTcpStatus`
at any moment at all, which contains what `GatewayLink` does with them;
`GatewayLink` starts a round whenever it likes, which contains what `PlcFraming`
finds; the gateways of `IngestServer` send, wait, and reset when refused or not
answered, as the link does (`NetGiveUp`, `NetReset`); `PlcPayload` goes on into the server's decoding, because its
properties are about both ends. `DeliveryLog` follows one machine's readings; the
outcome of `ServerFails` is the answer "RAW" of `IngestServer`. `InterruptScopes`
shares with `IngestServer` only that tasks end in any order.

`GatewayLink` and `ConfigStore` meet in the reset: `Reset`/`NetReset` of `GatewayLink` are the
`OtherReset` of `ConfigStore`, which may come at any step, and the driver copies
the configuration once, at start-up (`InitWifInformation`), so the link never sees
a configuration change. They share no other state and are checked separately.

### GatewayLink and the code

*Granularity.* A thread runs atomically between two blocking calls, because the
threads have the same priority and no handler reaches the end of a time slice; the
driver also pauses between two reads of its UART, where interrupts change what the
next read finds. Interrupts (UART, timers) happen between any two steps.

| variables | code |
|---|---|
| `netPc`, `netCmd` | where the manager blocks: `rt_mq_recv` ("recv"), the delay of `SendWifiCommand` ("cmd", with the command), the two seconds before a resend ("resend"), the second before a reset ("reboot") |
| `networkStatus`, `retryCount`, `tcpSend` | `networkInfo` |
| `mq` | `networkManagerMq`; "wifi" points to the driver's slot, "plc" to the object of `SendData` |
| `tcpOn`, `sensorCodeCount`, `plcEv` | `plcCommInfo`; `plcData` is the object on the PLC thread's stack |
| `wifiPc`, `wifiStatus`, `response`, `flag`, `slot`, `txBuf`, `responseLen`, `wifiEv` | `wifiInfo`; `flag` is the byte of `data[]` a handler looks at, `slot` is `mqData` |
| `armed`, `older` | the running timers, with their order |
| `line`, `fifo` | lines the modem is saying, lines in the UART buffer |
| `link`, `prompt`, `received` | modem and server (external) |

An event is a record `[blocked, latch, set]`: a flag that wakes a suspended thread
is handed over in `latch`, later flags gather in `set`, and a receive takes all of
them (`RT_EVENT_FLAG_CLEAR`). A message is a pointer, so `NetRecv` reads the slot
as it is when the message is received. One action stands for one case of the
manager's switch; cases with the same body share one (`NetOkCommand` with
`NextCommand`, `NetRetry`, `NetGiveUp`).

*Data abstraction.* A sample is its sensor code. A line is what the parser makes of
it; lines that have no effect are left out or called OTHER. Time is the order of
deadlines: a timer cannot expire before one that was started earlier with a shorter
delay, and, unless the fault "late" strikes, not before threads and line are at
rest. A copy of a payload over `networkInfoData` leaves STATUS_NONE, because the
byte that lands on the status is a zero of the packet's time field.

*External.* Modem and server answer each command with one of the line sequences
their protocol has. What may go wrong is a fault of a named kind, at most
`MaxFaults` times: `silent` (no answer), `error` (ERROR), `sendfail`, `noack`,
`refuse` (ER), `garbled` (neither OK nor ER), `early` (the server's answer before
SEND OK), `drop` (connection lost), `late` (a timer ends while threads are busy),
`again` (ERROR to a payload for which the modem goes on waiting). `late`, `early` and
`again` are the untimely ones; an environment without them whose lines are paced is
called *orderly*.

*Findings the translation made.* `CMD_SET_LOCAL_INFO` is unreachable: the parser
compares `sizeof(IP)` bytes, terminator included, so a mismatch is never flagged.
A line FAIL has no start character the parser knows, so only SEND FAIL is a failure.

### ConfigStore and the code

| variables | code |
|---|---|
| `ram`, `ramMark` | `configInfo.cfg`, and whether its `waterMark` is `WATERMARK_VALUE` |
| `page`, `pageMark` | the flash page, field by field, and its first byte |
| `pc`, `after` | where the thread that owns the store stands: loading, before the erasure, programming, at the prompt, in the second before a reboot; what it does when `FlashWrite` returns |
| `todo` | the setter calls the command still makes (`OnSetTcp` and `OnSetApSSID` make two) |
| `mode` | start-up, running, or `LoadConfig` has failed and only the console runs (`main`) |
| `written` | fields programmed by the write under way |

*Granularity.* The setters and `FlashWrite` run in one thread, the console's; at
start-up `LoadConfig` runs in `main` before anybody else asks for the store. (The
console's thread exists by then, with the same priority; that it does not get the
processor before `main` has loaded the configuration, less than a time slice, is an
assumption.) What interrupts do to the store is reset it: so each call of the flash
driver and each programmed field is a step and a reset may come between any two.
What is programmed of a field when the word it shares is broken off counts as not
programmed.

*Data abstraction.* A field is one value of `Values`, a field of an erased page is
`Blank`. Of a text only this matters: whether another one begins with it
(`PrefixOf`), because that is what `rt_strncmp` with the new text's length sees.
`StaleTail` TRUE lets `OnSetTcp` read any port, because its buffer is not
terminated and may hold digits of an earlier call. The history variable `torn` says
that a write has been broken off behind its first word, by a reset or a failure.
`FlashRead` of a constant address and size cannot fail.

### PlcFraming and the code

| variables | code |
|---|---|
| `coming` | the byte the PLC sends next (external): `<<f, i>>` is byte i of frame f |
| `ring` | `serial_rx` of serial.c, at most one byte less than its cells |
| `events`, `tcpOn` | `rx_event`, `plcCommInfo.tcpOn` |
| `reading` | the thread is inside its read loop |
| `rxBuf`, `uRemain`, `findStart`, `valid` | the locals and statics of the same names |
| `sensorCodeCount` | the packet of the round that is due |

*Granularity.* One turn of the read loop is a step (`ReadSome`, or `ReadNone` for the
turn that gets nothing and leaves the loop); bytes and events may come between any
two. `ParserReceiveData` is a recursive function over the bytes it is given, `Looked`
one turn of its `do` loop; `findStart` and `valid` are kept from call to call. `Moved`
is the `memmove`, with the bytes it leaves behind.

*Constants.* A frame has `PLC_DATA_LEN` = 79 bytes, the buffer `PLC_BUFF_SIZE` = 512
(`plccomm.c:18-19`), the ring `RT_SERIAL_RB_BUFSZ` = 1024 cells (`board/rtconfig.h:56`;
the 64 of `serial.h` is only the default). `FramingConstantsOK` asks no more than that a
frame is shorter than the buffer. The ring may hold more than the buffer takes, as the
code's does: a turn that fills even an empty buffer then leaves bytes in it, the ones a
window still misses among them.

*Data abstraction.* Bytes are told apart only by the frame and the position they
come from. `StxAt` holds positions whose data look like STX. A sum is right for a
whole frame and for a window of zeros; a window that adds up by accident is left out.
The round of a TS device and of a TK device differ in the number of packets only.

### PlcPayload and the code

Three algorithms in a row, one step per packet of a round: the words of the frame
packed by `MakeSensorPayloadData` and `MakeSensorValue`, byte by byte, because byte
order and code words are what can be wrong; the length handed to `SendData` in eight
bits (`Handed`); the chunks of 27 bytes the server receives, and what
`convert_hex2decimal` and `config_fac_msg` make of each. `Codes` lists which word
carries which sensor's value, as the function walks over the frame.

*External.* The catalogue is whatever Redis holds: `Catalogue` is any set of machines,
by the four bytes of their identity, with codes of one byte. The one the server stores
itself (`init_facilities_info`) lists TS0001, TS0002, TS0003 and TS0008 with the codes
0001 to 0011, and no TK machine. The assumption on codes is needed: a chunk that begins
inside a packet may carry the code 259, 512 or 771 under another machine's name, and
what protects the time series from it is only that nobody lists such a code. A payload
is taken to arrive in one piece, cut only by
`sock_recv`; pieces are the business of `IngestServer`.

### StatusLeds and the code

| variables | code |
|---|---|
| `link`, `failed` | what the manager can be told next (external: the join, the connection, the payloads) |
| `mqData` | the manager's copy of the message it works on, `mqData` of `NetworkManagerThread` |
| `posted` | how many addresses of that copy are in `applicationMq` |
| `lit`, `blinkGPIOPin`, `blinkTimer` | GPIO pins, `blinkGPIOPin`, the timer of led.c |
| `channel2Led` | `channel2Led` of `app_main_thread` |

*Granularity.* The manager's handling of a message and the application's handling of
an address are a step each, in any order: the address is read when the application
gets to it. `failed` and `overtaken` are history variables.

### IngestServer and the code

| variables | code |
|---|---|
| `task` | client tasks made by `get_client`: not yet, in `sock_recv`, ended |
| `inbox`, `reply` | chunks and answers on their way (TCP, external) |
| `listed`, `facDaq` | `fac_daq`: its machines, and each sensor's last value |
| `using`, `channel` | `rabbit_channel` of each task; the channel is open, closed, or dead without having been noticed |
| `catalogue`, `brokerUp`, `mongoUp` | `facilities_info` in Redis, RabbitMQ, MongoDB (external) |
| `conn`, `waits`, `count` | the gateways (external, after `networkmanager.c`) |
| `series`, `publisher`, `published`, `swallowed`, `acked` | what was published, by which task, what became of each reading |
| `misses`, `cuts` | history: readings a gateway lost in a row, and packets of it that came in two chunks, since the last fault or publication |

*Granularity.* Between two `sock_recv` a task never awaits, so everything it does
with a chunk is one step. Accepting and taking the snapshot are one step as well
(`Connect`): what happens to Redis in between happens as well before.

*Data abstraction.* A value is the number of the reading it comes from, 0 the
initial 0.0. The answers are told apart as the gateway does: OK, ER, something else.
ER is what `convert_hex2decimal` leaves behind when it does not get to its end: for a
chunk that is no packet, and for a whole packet whose reading `document_upsert` could not
log (line 182). On ER the driver reports STATUS_REFUSE_DATA with an error (wifi.c:484) and
the manager resets the gateway (networkmanager.c:224, 298): the reading and the
connection are lost (`Refused`, `Reboots`). The packet alone (RAW) is the answer to an
exception further on, in the lookup or the publication; the driver makes nothing of it
and the response timer resets the gateway (`GiveUp`). A packet arrives as one chunk or,
at most `MaxSplits` times, as two pieces, each of which is answered ER; the second
ER goes with the connection.

*External.* A connection to RabbitMQ may die unnoticed, with RabbitMQ or alone
(missed heartbeats: the server never runs pika's loop). The first publication on it
may go into the void or raise, which closes the channel. MongoDB may stop taking
readings and come back. The catalogue may be changed or lost at any time.

### InterruptScopes and the code

`installed` is the handler of SIGINT, `saved[s]` the `original_handler` of a scope;
`released` and `interrupted` its two flags; `entered` and `ended` say which scopes
have begun and left their `with`. `Accept`, `Enter` and `Leave` are the accept loop
making a task, the task's `with` and its end; `Notice` is the task or the accept loop
that sees `h.interrupted` and exits. `Leave` is the `h.release()` before `break` and
`__exit__` after an exception alike: the second release does nothing.

### DeliveryLog and the code

| variables | code |
|---|---|
| `docs` | the machine's collection in MongoDB (external), in the order of insertion |
| `spc`, `sdoc` | where the server is in `document_upsert`, the document it has read |
| `apc`, `msg`, `adoc` | the agent: starting, binding its queues, consuming, in `document_upsert`, storing; the message and the document in hand |
| `queue`, `bound` | RabbitMQ: one exclusive queue per facility, bound to the fanout exchange (external) |
| `points` | points per reading in InfluxDB (external) |
| `taken`, `handled`, `overlapped` | history |

*Granularity.* Every request to MongoDB, RabbitMQ or InfluxDB is a step; the two
processes interleave in any way.

*Data abstraction.* One machine, its readings in the order of their times. A
document's LOG maps a reading to nothing, `{'SENT': ''}`, `{'SENT': 'RECEIVED'}` or
the text `CHECK`, which the agent writes when it inserts. Days are told apart by the
spelling of their key: the server writes `2020-9-30`, the agent looks for
`2020-09-30`; days in `Short` are those where the two differ.

## 3. Runs

| run | instance | shows |
|---|---|---|
| `link_faults` | orderly, 2 faults (silent, error, noack, refuse, garbled, sendfail, drop), 4 sensors | `IdleIsQuiet`, `WatchedUntilConnected`, `PhaseOK`, `ImplementsChannel`; before the first fault `DataOnlyAtPrompt`, `MissesAtMostOne` |
| `link_recovers` | paced, 2 of noack, refuse, garbled, sendfail, drop; fair | `KeepsDelivering` |
| `link_late` | paced, 3 failed payloads or late threads and answers | `ReadyImpliesConnected` |
| `link_interleaved` | unpaced, queue of 2, 2 faults of any kind but `late` | `UnpacedInvariant`, `NoResetWhenReady` |
| `link_wedge` | one unanswered command; fair | `KeepsDelivering` is **violated** |
| `store` | 2 commands, 2 failures, 2 resets, torn writes | `StoreTypeOK`, `StoredWhenIdle`, `RunsWhole`, `ImplementsRegister` |
| `framing` | frames of 3 bytes with an STX in the data, buffer of 8, ring of 16 cells, rounds of 2; fair | `FramingInvariant`, `RoundIsOneFrame`, `RoundKeepsItsBytes`, `RoundsKeepStarting` |
| `payload` | a TS and a TK device, frames with STX, ETX and large bytes in one word or all, 261 listed machines with 19 codes each | `PublishedWasMeasured`, `TurnIsPublished` |
| `leds` | a queue of 4 | `FlagIsBlink`, `ShowsProgress`, `SendingIsShown` |
| `ingest` | a gateway, 3 connections, 3 readings, 1 split packet, 2 faults | `AckedIsPublished`, `LossesBounded`, `NeverBack` |
| `scopes` | 5 scopes, 4 signals | `KilledOnlyAfterAsked`, `InstalledIsLive`, `SignalHeard` |
| `log` | 3 readings on 2 days, one of them spelled in two ways, 2 queues, 1 failure, 2 crashes; fair | `ReceivedOnlyTaken`, `OneDocumentADay`, `NoExtraPoints`, `HandledIsConfirmed`, `ImplementsAtomicLog`, `QueuedGetsConfirmed` |

Each also checks its module's type invariant, which carries the bounds of queues and
buffers (the link's is part of `UnpacedInvariant`). Every property has a mutant in `PROJECT.json`: a plausible bug in one
definition under which the run finds it violated.

*Paced* (`PacedLines`) means that the threads come to rest before the next line
arrives, as they do when a line takes longer than its handling. *Unpaced*, lines
arrive at any moment, also several in one read. The two answer different questions:
what the protocol logic does, and what survives any scheduling.

### Bounds

*Link.* `RetryMax` is the code's 5, because what a retry finds depends on how many
there may be; a payload the modem takes for a command is retried up to the limit and
beyond, so both sides of it are reached. The four sensors of
`link_faults` are a first, a second, a middle and a last one, which is what
`MissesAtMostOne` tells apart; the runs about timers and status have two or three. A queue of 2 is filled and overflows in `link_interleaved` (the code's is 4);
the paced runs keep 4. Two faults let one strike while the other is still being
handled; `link_late` has three because a SEND FAIL that is parsed after the driver's
status has moved on takes that many. `Dhcp` FALSE takes the longer way through
CMD_QUERY_LOCAL_INFO (`link_faults`, `link_interleaved`).

*Store.* Two commands let the second one find what the first has left. Failures and
resets strike anywhere in either, and in the restart that writes the defaults. Three
values are a text, its beginning and the empty text.

*Framing.* Frames of three bytes have a first, a middle that looks like STX, and a
last one. Buffer and ring stand to each other as the code's, 512 to 1024: the buffer
holds two frames and a part of a third, the ring five, so both overflow, a read that
fills the buffer leaves bytes in the ring, and a window may lie across two frames or
two reads. Frame numbers repeat, so the run has no end and liveness means something.

*Payload.* Every word in turn, and all of them, hold the awkward bytes; the TK
device's number is made of STX and ETX as well. The catalogue lists the server's own
machines, the TK device, and every identity made of the bytes 0, 2, 3 and 86 that
headers, function names and awkward values could be misread as. There is nothing to
enumerate beyond words, chunks and catalogue: the algorithms have no other input.

*Ingest.* Three connections let a task outlive its gateway's attention, a second one
start on a changed catalogue and a third on a dead channel; three readings let two be
lost in a row and one get through, or a third be lost because it was cut; two faults let
RabbitMQ or MongoDB fail while the catalogue is wrong. What more cut packets cost is
beyond three readings and left to the theorem. One gateway: tasks share only channel 0 and the catalogue, and the tasks of
its former connections share them with the present one.

*Scopes.* Five scopes and four signals let scopes end before, between and after
others with a handler put back twice over. *Log.* Three readings: one alone in its
day, two that share a document. Two queues show that a reading is stored once per
facility. Two crashes: one with a message in hand, one while queues are being bound.

Deadlock is not checked where the system may stop: the console waits for a command
nobody need type, gateways and server for readings nobody need send (`store`,
`ingest`, `scopes`, `log`).

### Fairness

*`GatewayLink`.* Weak fairness of each thread: the kernel schedules threads of one
priority in turn. Weak fairness of the machine's bytes, and strong fairness of a
complete frame, of the modem's lines and of the timers: they come from interrupts and
the tick, which the thread that happens to be busy cannot hold off. `KeepsDelivering`
needs no fairness of faults; they are bounded.

*`DeliveryLog`.* Weak fairness of the server's and of the agent's steps: the
operating system runs both processes. Nobody has to send a packet, to start the agent
or to let it crash.

*`PlcFraming`.* Weak fairness of the thread, of the PLC's bytes and of the driver's
"go on". The property has a premise besides: the read loop, which is faster than a
line of 19200 baud, finds the ring empty again and again. A model without time cannot
know that.

### What the conditions leave out

A property that names a history variable says what holds until the event it records.
What the code does afterwards:

- `MissesAtMostOne`, before a fault: a sample that `SendData` drops still advances
  the round (plccomm.c:434), so a sensor may be missed in a round even when nothing
  fails. At most one in a row.
- `DataOnlyAtPrompt`, before a fault: the retry of a payload is written without a new
  length request (networkmanager.c:197) and may reach a modem in command mode.
- `IdleIsQuiet` and the refinement, in an orderly environment. With `again`: a modem that
  reports an error and still waits for the payload gets it twice. The send timer of the
  first attempt runs on during the retry's two seconds (networkmanager.c:195); if it ends
  there, one failure has counted twice, the payload is sent once more than the server
  answers, and the gateway is ready with a send timer running. A real modem is back in
  command mode after an ERROR, which is why `error` says so.
- `NoResetWhenReady`, without `late`: two timers that end too late let a retry clear
  `tcpOn` in the middle of a reconnection, and the connection then makes the gateway
  ready with the response timer running. `link_late` allows such timers and checks only
  what survives them.
- A transmit request that shares a set of flags with received bytes is consumed and
  never written (wifi.c:573). `link_interleaved` takes this path; only the properties
  that survive every interleaving are stated there.
- `RunsWhole`, `ImplementsRegister`, until a write is torn: the watermark lies in
  front of the page and is programmed first (configuration.c:308). A reset before the
  last field leaves a page that `LoadConfig` accepts, and the gateway runs with erased
  fields instead of the factory's.
- `ImplementsRegister` counts a setter that changes nothing as a call that may change
  nothing: the setters compare as many characters as the new text has
  (configuration.c:160), so the beginning of the stored text and the empty password
  are not stored.
- `RoundIsOneFrame`, while the PLC is paced and the connection stands: two frames read
  at once are mixed, because the loop reads on after a valid frame and moves the
  buffer; after a loss of the connection a round may be made of the zeros the last one
  left.
- `TurnIsPublished` speaks of TS devices. A TK device packs codes 7 to 19 at every
  step: 14 packets and 266 bytes for codes 1 to 6, of which eight bits keep 10, so
  nothing of the first six is published; and of the 247 bytes of the other steps only
  the first of the server's 27-byte chunks begins with a packet, that of sensor 7.
  `PublishedWasMeasured` holds for both.
- `SendingIsShown`, until a payload has failed: the manager never passes on the OK of a
  payload, so the case that would turn the second channel's LED on again is never
  reached, and it stays dark until the next connection. `ShowsProgress`, until a
  success was overtaken: the address in the queue shows a later message by then.
- `AckedIsPublished` counts as published what a dead connection has swallowed; nobody
  can know.
- `LossesBounded`, while RabbitMQ and MongoDB are up, and without the packets that came in
  two chunks: each of these is refused, and so is every packet while MongoDB is away. Each
  refusal costs the reading and resets the gateway, which then begins with a new
  connection.
- `NeverBack`, as long as the same task publishes: the first message after a
  reconnection carries 0.0 for every sensor but one, which goes into the time series.
- `InstalledIsLive`, `SignalHeard`, as long as scopes end while they have the signal:
  when a client that is not the last to come leaves, it puts back the handler it
  found, and the handler of a scope that is over may be installed later; a SIGINT it
  takes is lost.
- `ImplementsAtomicLog`, `HandledIsConfirmed`, `QueuedGetsConfirmed`, until one process
  reads a document that the other is about to write: either overwrites what the other
  has logged or confirmed. On days with a month or a day of one digit the agent looks
  for a key the server does not write: nothing is ever confirmed, and the point is
  stored all the same.

### What the violation shows

`link_wedge` (networkmanager.c:160). A command of a standing connection is not
answered; the manager disconnects and connects again. `tcpOn` was never cleared, so the
branch that makes the manager ready is not taken. It stays in STATUS_TCP_CONNECT with a
live connection, drops every sample, and no timer runs.

## 4. Proofs

All theorems hold for every value of the constants that satisfies the assumption of
the module. Each module's type invariant is proved first, one lemma per action and one
step per part the action disturbs; the others add what makes the property inductive.

`GatewayLinkProofs`, from `ConstantsOK` (queue size and sensor number positive, the
other constants of their types):

- `TypeCorrect`: `Spec => []TypeOK`. The lemmas about `EventSend`, `EventRecv`, `Post`,
  `StartTimer` and `StopTimer` carry the kernel objects. `TypeOK` is inductive because
  it says that the manager in "cmd" holds a command of its own.
- `ReadyCorrect`: `Spec => []ReadyImpliesConnected`. The property is not inductive:
  `NetResend` clears `tcpOn` two seconds after it was decided. `ReadyInvariant` adds
  that a pending resend excludes the ready status and that the driver's status and slot
  never hold it; `ReadyInit`, `ReadyStep` and `DriverNeverReady` are its three parts.

The rest rests on `GatewayPhases`. `Orderly` says that lines are paced and
that no fault has happened yet or the untimely ones are excluded; it is a state
predicate, so that one invariant serves the properties of an orderly environment and
those that speak of the time before the first fault of *any* environment.

- `PhaseCorrect`: `Spec => []PhaseOK`. Under `Orderly` one thing is on its way at a time:
  a command in the manager's delay, its transmission, its answer, the message about the
  answer. `Phase` is the disjunction of the fourteen situations this leads to, each with
  the timers that run in it and what the modem may still say; `DriverOK` keeps event flags
  and lines apart, `ResponseLenOK` says that a line of data is not asked for before it is
  recognised. `SampleOK` follows the sample: the manager keeps the one posted last
  (`KeptOK`), the server answers only what it has received (`DeliveredOK`), one
  acknowledgement at a time is unread (`TokenOK`), and the count is one or two ahead of
  the sample (`CountOK`). One lemma per action maps phase to phase (`PhaseNetRetry`,
  `PhaseRead`, `PhaseTransmit`, ...); `PhaseOKStep` combines them. It is inductive only
  together with `ReadyInvariant`.
- `QuietWhenIdle`, `WatchedBeforeConnected`: in an orderly environment
  `Spec => []IdleIsQuiet` and `Spec => []WatchedUntilConnected`, for any number of faults
  and retries. Each is read off the phases: only `Idle` is ready, and it has no timer;
  every phase without a connection has one when all is at rest.
- `DataAtPrompt`, `MissesFew`: with paced lines `Spec => DataOnlyAtPrompt` and
  `Spec => MissesAtMostOne`, for every set of faults.
- `ChannelRefined`: in an orderly environment with at least three sensors (devices have 11
  and 19; with one or two a sample may follow itself)
  `Spec => ImplementsChannel`. `ChannelInit` and `ChannelStep` map the initial state and
  every step: a sample accepted is `Accept`, the payload at the server `Deliver`, the
  acknowledgement handled `Acknowledge`, a reset `GiveUp`, everything else a stutter.

Unpaced there are no phases: several messages are in the queue, lines meet in one read,
a request to transmit is lost among them, the manager sleeps before a resend while the
driver is already reconnecting. `GatewayUnpaced` says what survives that.

- `UnpacedCorrect`: `Spec => []UnpacedInvariant`, for every constant, paced or not.
  `ReadyInvariant` holds always; the rest as long as no timer comes too late (`Punctual`:
  no fault `late`). `ReaderOK`: the driver reads all it is told of. `AfterDelay`: the
  manager's two seconds outlast everything unread, so a command or a resend meets a quiet
  line. `Joining`, before the first connection: one command at a time, in the delay, to be
  written, waiting for its answer, or reported. `Joined`, after it: a payload and the
  reconnection may overlap, and twelve named parts say how far. The heart is `RespOffOK`:
  while the response timer runs and the flag is off, or about to be put off by a resend,
  nothing but a payload is on its way (`Carrying`). It becomes true where `NetResend` is
  decided, and there it is a matter of deadlines: a timeout of the transmission, which
  would begin a reconnection, is reported under another status than the payload's only
  after the send timer of that payload is gone (`WatchOK`), and a send timer that still
  runs during a reconnection ends after the response timer (`SendAfterResp` in
  `RespOnOK`), which resets the gateway first. `SentOK`, `ReplacedOK`, `ReportOnOK`,
  `ReportOffOK`, `ResendOK`, `ConnectOK` and `PromptOver` say which reports and which
  prompt may be left over from a payload when the connection is brought back. One lemma
  per action (`JoinedRetry`, `JoinedTransmit`, `JoiningManager`, ...), one step per group
  of parts.
- `NoResetCorrect`: with `Punctual`, `Spec => []NoResetWhenReady`. Ready again means
  acknowledged, which stops the timer, or connected with the flag off, which `RespOffOK`
  excludes. The assumption is needed: section 3 says how `late` breaks the property.

TLC checks `UnpacedInvariant` in `link_interleaved`. That run has a queue of 2 and two
faults, the theorem any number of either.

`ConfigStoreProofs`, from `StoreConstantsOK` (the constants have their types, a text is
the beginning of itself, the empty one of every text):

- `StoreTypeCorrect`, `StoredCorrect`, `WholeCorrect`: `Spec => []StoreTypeOK`,
  `Spec => []StoredWhenIdle` and `Spec => []RunsWhole`. The inductive invariant is
  `StoreInvariant`: besides the properties it says who owns the store (`Ownership`: only
  the start has an unloaded copy, only a copy on its way to a reboot lacks the
  watermark), what the page holds while it is programmed (`Programmed`: a copy of RAM up
  to the last field written, the watermark as soon as one is) and that until a write is
  torn no unset field is behind a watermark (`Whole`). `StoredWhenIdle` needs
  `Programmed` for the step that ends a write.
- `RegisterCorrect`: `Spec => ImplementsRegister`. What a restart would load is the
  page, or the factory's configuration when the page has no watermark or is being
  programmed; `RegisterInit` and `RegisterStep` map the initial state and every step. A
  torn write maps to the register's `Tear`, after which it promises nothing.

`DeliveryLogProofs`, from `DeliveryConstantsOK` (every reading has a day, the
facilities are finitely many):

- `TypeCorrect`: `Spec => []TypeOK`.
- `ReceivedCorrect`: `Spec => []ReceivedOnlyTaken`. Documents are written whole, from
  copies, by two processes; so the invariant (`ReceivedInvariant`) speaks of copies too:
  a confirmed entry of a copy in hand is one the agent has taken (`CopiesTrue`), and a
  reading that is not logged yet is in no copy, document or queue (`Untouched`), because
  the first `document_upsert` of a reading writes SENT and a second one RECEIVED.
- `OneDocumentCorrect`: `Spec => []OneDocumentADay`. `DayInvariant` adds that a server
  about to insert does so because nobody has (`ServerDoc`), that an agent about to write
  has a document (`AgentDoc`; this is why the question asked before `document_upsert`
  matters), and that keys are the server's (`Keyed`).
- `PointsCorrect`: `Spec => []NoExtraPoints`. A point needs a copy of the reading, in a
  queue or in the agent's hand, and uses it up (`CopiesCounted`); a queue has a reading
  at most once (`OnceEach`), because it is published once, before which it is nowhere
  (`Unpublished`).

- `AtomicLogCorrect`: `Spec => ImplementsAtomicLog`. `InTurn`: until the processes have
  overlapped, at most one of them is about to write and its copy is what the document
  holds. Then a write changes the mark of one reading (`MarksChange`), from nothing to
  SENT or from either to RECEIVED, which is `Add`, `Confirm` or a stutter. After an
  overlap every step is the abstract log's `Overlap`.
- `HandledCorrect`: `Spec => []HandledIsConfirmed`. `EntriesFirst`: what is published, in
  a queue or in the agent's hand has an entry, so the question the agent asks before
  `document_upsert` is answered yes on days both spell alike.

`IngestServerProofs`, from `IngestConstantsOK` (the catalogues name gateways and sensors;
the bounds are numbers):

- `TypeCorrect`: `Spec => []TypeOK`, one lemma per action.
- `AckedCorrect`: `Spec => []AckedIsPublished`. Answers carry no number, so the proof is
  that there is nothing to mix up: a connection is its gateway's alone and begins empty
  (`Connected`), and on it is the packet its gateway waits for, or one answer to it,
  true if it is OK, or nothing, or the two pieces of it and the ER to each
  (`Exchange`). The first ER takes the connection with it, so the second one is never
  taken for the answer to a later reading.
- `NeverBackCorrect`: `Spec => NeverBack`. `Ordered`: the chunks on their way to a task
  come in the order of their readings, none behind the task's copy of the facility, and
  the one the gateway waits for is the latest of them. `SeriesBehind`: what a running task has
  published is not ahead of its copy. So a copy, and what is published from it, only
  moves forward (`ServedInOrder`, `ServeAhead`).
- `LossesCorrect`: `Spec => []LossesBounded`. On a healthy connection (a running task,
  its own list of machines up to date, no dead channel of its own) a listed reading that
  is waited for is on its way as a whole, or is answered OK. So a loss takes an ailing
  connection, which goes with it (`Ailing`), or the shared channel while it is broken,
  which is closed by it (`SharedBroken`); `LossesCounted` adds these two to the losses
  there were. Apart from faults only a packet that is cut makes a connection ail, and
  it is counted in `cuts`. While RabbitMQ or MongoDB is away nothing is claimed; when it
  returns the count begins anew.

`InterruptScopesProofs`, from `ScopesOK`:

- `ScopesTypeCorrect`: `Spec => []ScopesTypeOK`. What a scope has saved is the default or
  the handler of a scope that has been entered.
- `AskedCorrect`: `Spec => []KilledOnlyAfterAsked`, for any number of scopes and signals
  in any order. `DefaultAfterRelease`: only the accept loop's scope has Python's handler
  to put back, until it has done so; and it does so only when interrupted.
- `LiveCorrect`: `Spec => []InstalledIsLive`. `Stacked`: as long as scopes end in order,
  what a live scope puts back is the live scope entered before it, or the default.
- `HeardCorrect`: `Spec => SignalHeard`, from the same invariant and that a scope that
  has ended has been released.

`PlcFramingProofs`, from `FramingConstantsOK`:

- `TypeCorrect`: `Spec => []TypeOK`. The parser is a recursive function; `Pass` turns it
  into a sequence of marks, one per byte, and `Kept` (from the least element of a set of
  numbers, `Least`) carries what every turn keeps from the first byte to the last:
  induction over the bytes without an induction theorem. `FilledBytes` and `MovedBytes`
  say where each byte is after a read and after the `memmove`.
- `BufferCorrect`: `Spec => []BufferOK`; with the types it is the inductive invariant
  the run checks (`InvariantCorrect`, `FramingInvariant`). The ring holds the
  last bytes of the line without a gap (`RingInLine`), so after `DataLen` bytes at most
  comes one that looks like STX (`StxComes`). Nothing is assumed of the ring's size: what
  a read that fills the buffer leaves in the ring is dealt with by the line itself, whose
  positions repeat every `DataLen` bytes (`Runs`, `Period`, `RingFollows`). While the
  thread keeps pace, what looks like STX in the ring lies within `DataLen` bytes
  (`NearStxs`); and when a full buffer has been read, each such byte left in the ring has
  another one `DataLen` before it among those read, so at most one is left
  (`RestRepeats`). While the thread is paced the front of
  the buffer is in one of four situations: a window is open (`WindowOpen`), it was
  closed and no frame (`WindowBad`), or a frame (`WindowGood`), or none has been started
  (`NoWindow`); and what looks like STX in the ring is never so far behind that a second
  window would start before the first is closed. `Idle`, `Running`, `Opens`, `Closes`
  and `OneWindow` follow the parser over a stretch of bytes; `ReadFree`, `ReadOpen`,
  `ReadBad`, `ReadGood` and `ReadNoWindow` take one turn of the read loop from each
  situation to the next; `RxLooks` is the byte that comes in.
- `RoundIsOneFrameCorrect`: `Spec => RoundIsOneFrame`. A round is started only by
  `WindowGood`, which becomes `RoundOK` and stays so to the end of the round.
- `RoundKeepsItsBytesCorrect`: `Spec => RoundKeepsItsBytes`. Its invariant
  (`ReadsBetweenRounds`) is that the thread is in its read loop between rounds only.

`PlcPayloadProofs`, from `PayloadConstantsOK`, for every number of a device, every frame of
bytes and every catalogue of machines with codes of one byte:

- `TypeCorrect`: `Spec => []TypeOK`.
- `MeasuredCorrect`: `Spec => []PublishedWasMeasured`. A payload is packets of one length
  in a row (`PayloadBytes`), and the server's chunks have that length; a chunk that does
  not begin where a packet does is not taken for one (`ChunkBeginsPacket`), and one
  that does yields machine, code and number of its packet (`ChunkMeasured`). Where it
  begins elsewhere its first byte, its ETX and the code in front of them cannot all fit
  a catalogue whose codes have one byte (`CatalogueBytes`), whatever machine it names.
- `TurnCorrect`: `Spec => TurnIsPublished`. For a TS device whose sensor is listed each step packs one word of
  the frame (`TsCodes`), and what the server decodes of it is what the word said, byte
  order and decimal point included (`TsPublishes`).

`StatusLedsProofs`, from `LedConstantsOK`:

- `TypeCorrect`: `Spec => []TypeOK`.
- `FlagCorrect`: `Spec => []FlagIsBlink`. `FlagInvariant` adds that until the manager
  has joined its copy holds nothing but words of joining and the flag is off
  (`EarlyWords`), and that the success of joining is in the copy only before the second
  channel has ever blinked (`JoinedFirst`): so the case that turns the timer to another
  LED never finds the flag set.
- `ProgressCorrect` and `SendingCorrect`: `Spec => []ShowsProgress` and
  `Spec => []SendingIsShown`. `Shown`: as long as nothing unread is overtaken a success
  is on the LEDs, or is what the manager's copy still holds with a message in the queue;
  `CopyFits`: what the copy holds fits what the manager has done.

Every invariant and safety property the runs check is a theorem. *Only model-checked* is
liveness: `KeepsDelivering`, `QueuedGetsConfirmed` and `RoundsKeepStarting` (fairness and
ENABLED are outside the prover).

## 5. Not modelled

Left out:

- RT-Thread, ST's HAL and CMSIS, the USB stack and the C library: nearly all of the
  repository's lines (about 216,000 in C and Python, of which the program's own are a few
  thousand). They are third-party code; what the application relies on (event
  flags, message queues, timers, the serial ring, the flash driver) is modelled from
  those files as it is used.
- `manufacture.c`: a timer whose expiry does nothing. `common.c`: conversions without
  state. The console's parsing of text, apart from the commands that write.
- `system_config.py`, the instrument monitor and the gateway emulator: scripts without
  state of their own; the first is `CatalogueChanges` of `IngestServer`.
- InfluxDB, MongoDB, Redis, RabbitMQ: environment, with the failures named above.
