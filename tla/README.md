# Verification of the monitoring and watering system

The repository holds an irrigation station in three programs:

- the **firmware** of a CC3200 board (`src/CSSWorkspace/MQTTClientExampleMSEEI`, C on
  FreeRTOS): it measures temperature and soil moisture, waters a plant with a pump behind a
  relay, reads the level of the water tank, and talks MQTT to a broker;
- the **PC interface** (`src/QtWorkspace/GuiMonitoringSystem`, C++ and Qt), which publishes
  commands to the topic `/PC` and shows the reports;
- an application in the **Losant** cloud, reached through the same broker, with topics of its
  own.

This directory holds TLA+ models of these programs and of the parts of the driver and the
kernel they stand on, the configurations with which TLC checks them on small instances, and
proofs that TLAPS checks for every instance. File names below are relative to
`src/CSSWorkspace/MQTTClientExampleMSEEI/` unless they start with `src/`.

## 1. Inventory

### Components, their state and their operations

| Component | State | Operations | How it interacts |
|---|---|---|---|
| Application (`main.c`) | queue `g_PBQueue` (20); mailboxes `freqQueue`, `waterQueue`, `thresholdsQueue`; event groups `measurementFlag`, `waterFlag`; the relay | tasks `ConnectWiFI`, `measurementsTask`, `wateringTask`; callback `Mqtt_Recv` | tasks (priority 2) write reports to the queue; the callback runs in the receive task (priority 3), writes mailboxes and raises flags |
| Water level (`waterLevelSensor.c`) | event group `waterLevelMeasures`, `timerValue` | `readWaterLevel`, interrupt `echoInt` | the interrupt defers every change of a bit to the timer task of FreeRTOS |
| Moisture and temperature (`moistureSensor.c`, `temperatureSensor.c`) | none | one conversion each; the temperature is not written when a checksum fails | called by `ConnectWiFI`; the temperature over the I2C bus |
| I2C bus (`common/i2c_if.c`) | queue of transactions, state of the handler, the transaction in progress | write, read, write-then-read; the handler `I2C_IF_ISR` | a task queues and sets the interrupt; the handler notifies the task |
| MQTT client, API (`mqtt/sl/sl_mqtt_client.c`) | `awaited_ack`, `ack_sync_obj`, `conn_ack` per connection | Connect, Sub, Unsub, Send, Disconnect, CtxDelete, Exit; callbacks for acknowledgements, messages, the end of a connection | a blocked caller is woken by the receive task through a binary semaphore |
| MQTT client, library (`mqtt/client/mqtt_client.c`, `mqtt/common/mqtt_common.c`) | per connection: socket, flags, `tx_part`, waiting list, QoS 2 stores; lists `free_ctxs`, `used_ctxs`, `conn_ctxs`; buffers with reference counts | sending, receiving, keep-alive, closing, resuming a session | one mutex, held by senders and by the handler of a received packet but not by the keep-alive pass |
| Wi-Fi (`common/network_if.c`) | `g_ulStatus`, `g_usConnectIndex` | start, defaults, connect, disconnect; event handlers | events of the network processor against polling loops |
| SimpleLink driver (`simplelink/source/driver.c`) | global lock, counts of received messages, pool of objects, credit of transmit buffers | commands, `sl_Select`, send, receive; interrupt; spawn task | every task that touches a socket; whoever holds the lock reads for all |
| Serial console (`utils/uartstdio.c`) | transmit and receive queues, history of lines | print, `UARTgets`, interrupt handler | every task prints; a print waits when the queue is full |
| Command line (`commands.c`) | none | diagnostics; `Cmd_station` connects again | reads the console |
| PC interface (`src/QtWorkspace/.../guipanel.cpp`) | `connected`, `pinged_`, widgets | buttons, ping, message handler, dialogs | subscribes to the topic it publishes to |
| FreeRTOS kernel (`FreeRTOS/`) | queues, delayed lists, the counter of ticks, priorities, the heap, event groups, timers | send, receive, delay, wait with a time-out, take, give, allocate, free | everything above |
| driverlib, register headers, frozen (JSON) | - | - | third party |

`PROJECT.json` lists all of them with what is modelled of each.

### Which behaviours are hard

- **Interleaving of equal priorities.** `ConnectWiFI`, `measurementsTask` and `wateringTask`
  preempt each other between any two calls; they share flags and mailboxes that none of them
  locks. A request for water that arrives while the pump runs is merged with the one being
  served, and the duration is read from a mailbox after the wait for the flag. They also print
  on one console, whose transmitter is primed without a lock.
- **A callback above them.** `Mqtt_Recv` runs in the receive task. Its branch for `/PC` does
  not block, hence cannot be seen half done; its branch for Losant prints between fields.
- **Uninitialised locals.** A message with one threshold writes a struct whose other field
  is garbage; a failed checksum leaves the measurement garbage.
- **Interrupts.** `echoInt` tests a bit that its own previous run asked the timer task to set;
  `UARTStdioIntHandler` and `I2C_IF_ISR` share their state with tasks; the driver's interrupt
  only counts, and whoever reads must not stop too early.
- **Waiting without a timeout** for an acknowledgement, for an echo, for a console byte,
  for a bit of `g_ulStatus`.
- **Two tasks in one connection.** The keep-alive pass closes a connection without the
  mutex, while a caller is anywhere between its test `is_connected` and its wait.
- **Connections that end and are resumed.** Packets are lost with a connection, sent again
  on the next one, and matched with stores of identifiers by position.
- **Bounded resources and wrapping counters.** Buffers with references, the pool of objects,
  transmit credit, rings, the tick counter, the heap.
- **Nested event loops.** A dialog of the interface handles messages inside the handler of
  an older message.

The list "hazards" of `PROJECT.json` gives the line of each, and the properties about it.

### What makes each component correct

- Application: the pump runs only on demand, for as long as somebody asked, and stops; every
  request is answered; nothing is watered automatically before thresholds were set; a
  decision uses one command's thresholds, except between the two fields of a Losant command; measuring stops when it is switched off; reports
  are bounded and are taken, unless the task that takes them hangs in a reading of the level.
- Water level: a reading is the width of its own pulse; every call returns a percentage, or
  hangs for a known reason only.
- I2C bus: a call returns, with the result of its own transaction; with one task on the bus, success means
  that the controller has carried every byte.
- MQTT client: a call that reports success was acknowledged; a blocked call returns; buffers
  are given back; an exchange of quality 2 ends, and a message is passed on once.
- Wi-Fi: success means the access point that was asked for; the loops without a limit end.
- Driver: no message is left unread, every response goes to its caller, the pool is whole,
  every call returns.
- Console: what one task prints comes out in order; the queue and the keyboard are served;
  the history gives back what was typed and fits the buffer.
- Interface: the gauges of the three sensors show one message; an older message is shown after a later one only for a ping.
- Kernel: a queue is a first-in first-out buffer that wakes whom it should; no wait ends
  early or late; the heap is never handed out twice; a holder of a mutex has the priority of
  those that wait for it.

## 2. Plan

| # | Modules | Content | State |
|---|---|---|---|
| 1 | `Station`, `Irrigation`, `StationProofs` | the application, the abstract irrigator it implements, proofs | done |
| 2 | `WaterLevel` | interrupt, timer task, reader | done |
| 3 | `MqttSession` | one connection of the client library against a broker | done |
| 4 | `QoS2` | the exchanges of quality 2 with their stores over broken and resumed sessions | done |
| 5 | `UartConsole`, `LineEditor` | the queues and FIFOs of the console; its line and history | done |
| 6 | `Gui` | the PC interface and its dialogs | done |
| 7 | `NetworkIf` | the Wi-Fi connection, run again by `Cmd_station` | done |
| 8 | `SlDriver` | the concurrent core of the SimpleLink driver | done |
| 9 | `KernelQueue`, `BoundedQueue` | queues of the kernel, and the buffer they implement | done |
| 10 | `KernelTicks`, `Heap4`, `KernelMutex`, `I2cBus` | the kernel's clock, heap and mutexes; the I2C bus | done |
| 11 | `MqttProofs`, `DriverProofs`, `PoolProofs`, `QueueProofs`, `BoardProofs`, `OutsideProofs`, with `ListFacts` | every safety property of the passing runs, the refinement of `BoundedQueue` | done |
| 12 | event groups, task notifications | as modules of their own: now their effect is part of `Station`, `WaterLevel` and `I2cBus` | to come |
| 13 | pure functions | CRC-8 of the sensor, remaining length of a packet, conversions, against reference definitions | to come |

The modules meet at the calls they model: `Station` sees the MQTT client as its actions
`Publish`, `PubComp` and `LinkLost`, which `MqttSession` details; `MqttSession` sees the driver
as results of socket calls, and a mutex that goes to the waiters in order, which `SlDriver`
and `KernelMutex` detail; `WaterLevel` and `I2cBus` block on what the kernel modules provide.

## 3. The modules and the code

### Irrigation

What the firmware promises about the pump, whoever asks: `Request`, `Start`, `Stop`,
`Forget`. A request that arrives before the watering in progress is over and reported is
answered by it. Its liveness: every request starts the pump, every watering ends.

### Station (`main.c`)

| Code | Model |
|---|---|
| `measurementsTask` (loop) | `MeasureWait`, `MeasureSend`, `MeasurePeek`, `MeasureWake`; location `measure` |
| `wateringTask` (loop) | `WaterReport`, `WaterWait`, `WaterPeek`, `WaterOn`, `WaterOff`, `WaterClear`; location `water` |
| `ConnectWiFI` (connection and loop) | `Connect`, `Subscribe`, `Read`, `Sense`, `PeekThresholds`, `Decide`, `ReadLevel`, `Publish`, `PubComp`, `PublishLosant`; location `wifi` |
| `Mqtt_Recv`, topic `/PC` | `RecvPc`, one step |
| `Mqtt_Recv`, Losant | `RecvLosant`, one `LosantField` per field, `RecvReturns`; the variable `rx` |
| `osi_MsgQWrite(..., OSI_NO_WAIT)` | `MsgQWrite`: lost when the queue is full |
| `xQueueOverwrite`, `xQueuePeek` | assignment of a mailbox, `PeekOr` |
| `xEventGroupSetBits` | `SetWaterFlag`, `SetMeasurementFlag`: a blocked task is released at once |

A step is one call that another task can observe. `RecvPc` is one step because the receive
task has the highest priority of those involved and makes no blocking call on that branch.
On the Losant branch a print may block, so there is one step per field.
A task that waits for a bit is in location `blocked`; setting the bit moves it on even if
the bit is cleared before it runs, as FreeRTOS does. `xQueuePeek` waits 10 ticks for an empty
mailbox: the peek takes effect at its end.

Data: a message is a function from the fields it carries to their values; JSON is not
modelled. A duration is kept modulo `Word` (2^32 in the code; 2^24 in the configurations,
because TLC's integers have 32 bits; any number above 60000 in the proofs). Thresholds are
chars. `Moistures` are integers in 10..157, the range of `10 + 100 * volts` for the voltages of
the ADC; the temperatures and the garbage are any integers. A local of `ConnectWiFI` out of use
is `None`. A reading of the level either ends or hangs for ever (location `hung`), as `readWaterLevel` does
when no echo comes.

History variables: `demand` (who asked since the flag was clear), `dueTo` (`demand` when the
duration was chosen), `asked` (all durations asked for), `late` (reports queued while
measuring is off), `moistureAsked` (the moisture threshold a client asked for last). They are read by no guard.

### WaterLevel (`waterLevelSensor.c`)

`readWaterLevel` is `Call`, `Trigger`, `Wake`, `Return`; `echoInt` is `RisingEdge` and
`FallingEdge`, by the level of the pin when the handler runs; `Apply` is the timer task,
which performs the oldest deferred operation. `Rise`, `Fall` and `NoAnswer` are the HC-SR04
(external). Two edges before the handler runs leave one pending interrupt. The reader runs
only when the queue of the timer task is empty, because that task has priority 3 and the
reader 2. The widths go through the code's clamp and division, overflow aside (they are
below 2^31).

### I2cBus (`common/i2c_if.c`)

`I2C_IF_Write`, `I2C_IF_Read` and `I2C_IF_ReadFrom` differ in the request and in the bit they
wait for (`Awaited`): `Enqueue`, `TestState`, `SetPending` (the test of the handler's state and
the software interrupt are two steps), `NotifyWait`. The handler is one action per state and
cause, `IsrError` to `IsrReadFinal`, with `SendByte` and `ReceiveByte` for the next byte of either
direction and `Finish` for the end of a transaction, which the code writes out in each state.

The controller (external) has at most two commands to carry out (`working`): I2CTransact gives one (`GiveCommand`), STOP and ERROR_STOP
included, and one that finds it at work is lost or carried out after the other. `Controller` ends a command, well or with an error. The handler
can run before that, since a task sets its interrupt pending: `Carried` is 1 only if the
controller has done with the byte, and `moved` counts these. `ending` says whose transaction
the last command closes; its task does not call again before (`temperatureSensor.c:25` sleeps 10 ms). A length
counts down modulo `LengthWord` (2^8); a READ_FROM of 0 bytes is not refused and wraps.

### MqttSession (`sl_mqtt_client.c`, `mqtt_client.c`)

| Code | Model |
|---|---|
| `sl_ExtLib_MqttClientConnect` | `ConnectCall`, `NetConnect`, `ConnectSent`, `ConnackAwaited`, `Connected` |
| `...Sub`, `...Send` | `Sub`, `Send` (both `Begin`), `SetAwaited`, `Dispatch`, `Sent` or `NotSent`, `Sort`, `Enlist`, `AckAwaited`, `Done` |
| `...Disconnect`, `...CtxDelete`, `...Exit` | `Disconnect`, `DisconnectSet`, `DisconnectSend`, `DisconnectSent`, `CloseAwaited`; `Delete`; `Exit` |
| `group_ctxs_rx_prep`, keep-alive | `NothingDue`, `CloseAsked`, `Ping`, `Pinged`, `PingFails`, `TimedOut` |
| `cl_recv`, `process_recv` | `Select`, `RecvConnack`, `RecvRefusal`, `RecvSuback`, `RecvPubrec`, `RecvPubcomp`, `RecvPingrsp`, `RecvError` |
| `do_net_close`, `process_disconn_cb` | `NetClose` (up to the driver's call), `Closed` (after it) |
| broker and network (external) | `Broker`, `Reset`, `Silence`, `Stray` |

The state follows the fields of `sl_client_ctx` and `client_ctx` by name. A location lies at
every point where the other task can run with an effect: at the mutex, in the driver, and
between the tests and the assignments the API routines make without it. What is abstracted:
one context; a clean session; packets are transferred whole; the loopback socket that wakes
the receive task is left out (its wait has a timeout, so it wakes anyway); allocating and
dispatching a packet are one step, as are the test and the setting of `tx_part` and each
manipulation of a list; the time-outs for CONNACK and for keep-alive are a nondeterministic
expiry (`TimedOut`, `Ping`); the application behaves as `main.c` does and does not connect
twice. Incoming PUBLISH is not modelled here: its effect is the callback of `Station`, its
store is in `QoS2`.

### QoS2 (`mqtt_client.c`, `mqtt_common.c`)

A store is the record of `struct pub_qos2_cq` (`LogUp`, `Unlog`, `CqCheck`, `Reset`), an index past
the vector included. `Publish`, `ProcPubRecRx`, `Ack2MsgIdUnlog` are the sending side, `ProcPubRx`
and `ProcPubRelRx` the receiving side, `DoNetClose` with `SessionDelete` the end of a connection,
`ProcConnackRx` its resumption with what is sent again (`Dispatched` keeps the bounds of the loop
in `ack2_msg_id_dispatch`). Both directions of the wire are first-in first-out and are lost
with the connection; the broker (external) does what MQTT 3.1.1 asks.

### NetworkIf (`common/network_if.c`, `commands.c`)

One location per call of the driver in `ConfigureSimpleLinkToDefaultState`,
`Network_IF_InitDriver`, `Network_IF_DisconnectFromAP` and `Network_IF_ConnectAP`; each polling
loop is a location whose guard is its exit. `Handler` is the event handlers, run by the
spawn task one event at a time from `queue`; `Status` is the effect of an event on `g_ulStatus`.
`Joins`, `Fails`, `Acquires` and `Loses` are the network processor. `Connect` is the first
connection or `Cmd_station`, any number of them up to `MaxCalls`. `g_usConnectIndex` is never reset.
The calls of `SetMode`, `Policy` and `Defaults` succeed: `Network_IF_InitDriver` goes
into an endless loop when one of them fails (`LOOP_FOREVER`), and `CallsEnd` says nothing of that.

### SlDriver (`simplelink/source/driver.c`)

| Code | Model |
|---|---|
| `_SlDrvCmdOp` | `Written`, `Lock`, `Check`, `Wait`, `Unlock`, `More` for `op = "cmd"` |
| `sl_Select`, `_SlDrvDataReadOp` | `Place` and `Pended` (the pool), then as a command, then `await` and `Release`; a refused select (`Refused`) is released without an event |
| `_SlDrvDataWriteOp` | `Credit`, `Test`, `Starved`, `Charge`, `Put`; location `assert` is the endless loop of a failed `VERIFY_PROTOCOL` |
| `_SlDrvMsgRead`, `_SlDrvRxHdrRead` | `Read`, `Count`, `Clear`, `Unlock` |
| `_SlDrvMsgReadSpawnCtx`, `osi_Spawn` | `Spawned` (a full queue loses the entry), `SpawnTakes`, `SpawnLocks` |
| `_SlDrvRxIrqHandler` | `RxIrq` |
| network processor (external) | `Answer`, `Frees`, `Event`, each making a message ready (`Sends`) |

A location lies between any two uses of a lock, of a semaphore or of the counters that the
interrupt changes. The framing on the bus and the contents of messages are left out: a
message is its kind and, in `counts`, the free buffers its header tells, which are those of the
moment when it was made ready; `Read` hands them to `TxPoolCnt`, however old they are. The variant without a response,
`_SlDrvCmdSend`, serves the tokens of the device's web server (`netapp.c:1153`) and is not modelled.

### UartConsole, LineEditor (`utils/uartstdio.c`)

`Write`, `Read`, `Send`, `Mask`, `Test`, `Receive`, `PutChar`, `Unmask` are the steps of `UARTwrite`,
`UARTgets` and `UARTPrimeTransmit` at which a task can be preempted or interrupted;
`UARTStdioIntHandler` is one step with its two parts, entered when a source that is enabled is
raised. `Shift` and `Typed` are the UART and the user. While one task prints, characters are
numbered, so that a loss or a change of order is seen; with several tasks they are not.
`LineEditor` is what a key does in `UARTgets`: the line, the escape sequences, and the history
with its offsets into a circular array that later lines overwrite.

### Gui (`guipanel.cpp`)

Each slot is an action. A dialog is an entry of `dialogs`: it blocks the panel but not the
event loop, so `onMQTT_Received` may run again inside it, and `Ok` lets the handler that opened
it continue with its own message. A message is the set of fields for gauges it carries and its number,
which stands for their values; a gauge holds the number of the message it shows, or 0. `Update` sets
the gauges of temperature, humidity and moisture together when one of them is there, absent ones to 0, as the
test with `||` does. The histories `pings` and `backs` count clicks and how often a gauge went back to an older message.

### KernelQueue, BoundedQueue (`FreeRTOS/queue.c`)

A step is one critical section of `xQueueGenericSend`, `xQueueReceive` (with
`xQueueSemaphoreTake` for semaphores) or `xQueuePeek`, or a call of the `FromISR` variants, which run
between any two of them. The ring, its two pointers, the two locks with their counts and the
two lists ordered by priority are the code's. `Tick` ends a wait; `Over` is the late test of a
call whose time has passed. `BoundedQueue` is what a caller relies on: every call takes effect
once between its beginning and its return, or fails without effect.

### KernelTicks, Heap4, KernelMutex (`FreeRTOS/tasks.c`, `heap_4.c`, `queue.c`)

`KernelTicks`: `xTaskIncrementTick` with its two delayed lists, `vTaskDelay` and the loop of a wait
with a time-out (`vTaskInternalSetTimeOutState`, `xTaskCheckForTimeOut`,
`prvAddCurrentTaskToDelayedList`), and `xTaskResumeAll` with the ticks and tasks that were put off.
The history `asked` and `waited` counts real ticks.
`Heap4`: `pvPortMalloc`, `vPortFree` and `prvInsertBlockIntoFreeList`, addresses in units of 8
bytes; both run with the scheduler suspended, so one step each.
`KernelMutex`: `xQueueSemaphoreTake` on mutexes with a location at each point where the caller
can be preempted, giving (`xQueueGenericSend` with `xTaskPriorityDisinherit`), and the changes of
priority. Only a ready task of the highest priority runs; tasks also sleep and wake for other
reasons.

### The compositions MCBoard and MCOutside

The parts of the board, and those between the station and the outside, share no variable. `MCBoard` and `MCOutside`
extend them all; the variable `part`, chosen initially, says which one a behaviour is of, the
others keep their initial state, and fairness is that of each part. One run checks
all the properties of the parts, each over the full behaviour of its own part.

### Type invariants and faulty variants

Every module states the type of its variables. `Station`'s is checked and proved, those of `KernelQueue` and `KernelTicks` proved; those of
the other modules held in TLC's runs too and say what the variables range over, while the invariants of the proofs
carry the types they need.
A definition introduced by "Faulty variant" changes the one after it in the way a plausible
mistake in the code would. No behaviour uses it; replacing the definition by it makes the property
it is paired with in `PROJECT.json` fail, which shows that the property depends on that code.

## 4. The runs

| Run | Properties | Shows |
|---|---|---|
| `station` | `TypeOK`, `PumpOnDemand`, `NoAutoWateringByDefault`, `DurationAsked`, `IrrigationSafe`, `IrrigationLive`, `ReportsAreTaken` | the commands of the PC, and one of Losant, against everything else the station does; `IrrigationSafe` and `IrrigationLive` are refinement of `Irrigation` |
| `station_losant` | `SwitchOffStops`, `DecisionsWhole` | commands field by field; measuring switched from both clients; decisions taken at any moment, between two fields included |
| `session` | `SuccessMeansReleased`, `NoStaleSignal`, `PubrecFindsPacket`, `CallsReturn` | blocking and non-blocking calls against the receive task, with every fault of the environment |
| `driver` | `UnreadHasReader`, `ResponseToItsTask`, `PoolIsWhole`, `CallsReturn` | two tasks, the spawn task and the interrupt share the driver, in each of five mixes of calls |
| `kernel` | `NoLostWakeUp`, `QueueIsFifo`, `FiniteCallsReturn` | three tasks of two priorities and interrupt handlers on one queue; `QueueIsFifo` is refinement of `BoundedQueue` |
| `board` | `ReadingIsFresh`, `ReadingReturns` (level); `ResultIsOwn`, `BytesCarried`, `BusCallsReturn` (bus); `NotEarly`, `NotLate` (ticks); `HeapIsTiled` (heap); `InheritanceHolds` (mutexes) | what the tasks stand on |
| `outside` | `PollsSeeThisCall`, `CallsEnd` (Wi-Fi); `StoresFollowTheWire`, `PassedOnOnce`, `ExchangesEnd` (QoS 2); `InOrderAlone`, `QueueMoves`, `KeysAreTaken` (console); `HistoryServes` (line); `OneReport`, `BackOnlyForPing` (interface) | what connects the station with the outside |
| `station_partial` | `MoistureThresholdAsked` | finding: both thresholds are set, then the temperature alone, and the mailbox has lost the moisture threshold asked for last |
| `session_leak` | `NoPacketLost` | finding: a packet that is rejected keeps a reference |
| `qos2_once` | `OnlyOnce` | finding: after a resumed session a message of quality 2 can be presented twice |
| `console_stuck` | `PrintNeedsNobody` | finding: a task that prints can wait for a character of somebody else |
| `mutex_assert` | `TimeLeftAfterInheritance` | finding: an assertion of the kernel fails for a wait that ends as the mutex is given |

The findings, with the lines they contradict, are in `PROJECT.json`. `qos2_once` needs a
persistent session and `mutex_assert` a wait with a time-out: the firmware uses neither.

### Observations without a property

They are in the models; no line of the repository promises the contrary.

- *Application*: the station waters when both measurements are at or below their thresholds
  (`main.c:1018`; `src/README.md` says "surpassed"). The period is kept modulo 2^32, and 0
  makes `measurementsTask` run without a pause (`main.c:340`).
- *MQTT client*: a CONNECT that cannot be sent leaves its socket open (`mqtt_client.c:717`);
  a context deleted during a close stays in `used_ctxs` (`:381`); a rejected message of quality 0 is
  reported as sent, its identifier 0 overwriting the error (`:826`); nobody tells the
  application that an idle connection has ended (`sl_mqtt_client.c:210`); Disconnect waits for
  ever when the connection is closed between its test and its assignment (`:594`); a packet
  that could not be sent stays in `tx_part` until the connection is closed
  (`mqtt_client.c:587`); on resuming a session the loop over the PUBREL identifiers ends at a
  count used as an index (`:1088`). `Mqtt_Recv` prints with the mutex of the client held
  (`main.c:392`), so that a console at a standstill stops the client.
- *SimpleLink driver*: a send tests `TxPoolCnt`, gives up the lock, takes it again and asserts
  the credit (`driver.c:704`, `:777`); the messages read meanwhile replace the count by the one in their
  headers (`:900`). If a header was filled in before a buffer was used and read after, it raises
  the count, the next lowers it, and the assertion fails: an endless loop with both locks held.
  The model reaches this (`Charge`, place `"assert"`), for it lets the network processor fill in a header when
  the message becomes ready. Whether the real one does so the repository does not tell; hence no
  property, and `CallsReturn` of `SlDriver` is about behaviours in which no assertion has failed.
- *Wi-Fi*: the counter of polls is never reset, and the result is 0 all the same when it runs
  out (`network_if.c:869`, `:823`); the gateway is overwritten by a later line (`:1047`);
  `Cmd_station` restarts the driver under the tasks that use it (`commands.c:198`).
- *I2C bus*: `temperatureSensor.c:26` ignores the results of the bus; two tasks on the bus
  could both find it idle and set the interrupt twice, and the handler then writes or reads a byte that the
  controller has not done with and reports success (the firmware has one task on it); a `READ_FROM` of 0 bytes reads
  256 (`i2c_if.c:335` compares a length with itself; the firmware does not call it).
- *Console*: CR followed by LF ends two lines, where the comment at `uartstdio.c:361-366`
  says one; a line that fills the buffer ends without a newline (`:708-713`); entries of the
  history that were partly overwritten are recalled as their tails.
- *Interface*: it receives its own ping and takes it for the answer of the station; the
  handler of an older message goes on after its dialog and may show the older value last
  (`BackOnlyForPing` bounds how often); a message with one of temperature, humidity and moisture shows the others as 0
  (`guipanel.cpp:211`).
- *Kernel*: inheritance is not passed on along a chain of holders, and a holder of several
  mutexes may be left with too low a priority after a time-out, since
  `prvGetDisinheritPriorityAfterTimeout` looks at one mutex (`FreeRTOS/queue.c:2049`). So
  `InheritanceHolds` is about tasks that hold one mutex, or wait for ever.

### Bounds

- *Station.* `PBQueueLen` is 1 instead of 20: that is enough to fill the queue, to lose a report and to
  have one waiting behind another. Two durations, two pairs of thresholds, two temperatures and two
  moistures on both sides of them, garbage at an end of a char; the commands are those
  the two clients send, cut to these values. Messages keep arriving: their number is not
  bounded, and no counter grows (`late` stays below 2, which is `SwitchOffStops`).
- *MqttSession.* `MaxCalls` is 3 calls after Connect. A call that goes wrong can leave
  something behind for the next one (a signal, an acknowledgement, a packet in `tx_part`), so
  two sends after the subscription are needed; with non-blocking calls they and the subscription
  fill the waiting list beyond the two buffers. `MAX_MQP` is the code's. A stray packet
  arrives only when nothing else is in flight, one at a time.
- *SlDriver.* Three calls of two tasks, one event nobody asked for, a pool of two objects (10
  in the code), a spawn queue of one entry (3): a full pool, a full queue and an exhausted
  credit all happen. Each mix puts the tasks on one of the shared resources.
- *KernelQueue.* Queues of one and two places, three calls, at most one handler per place
  while the queue is locked; a queue that is empty, full, and full again happens, and so do
  two waiting tasks on either list.
- *Board.* `WaterLevel` has the length of the code's timer queue and widths below, at, between and above the
  calibrated range, no other bound. The bus: two tasks, three transactions, one byte and several, in either direction and both; `LengthWord` is 3 instead of 2^8, so that a READ_FROM
  of 0 bytes reads three. The counter of ticks wraps at 4 with 5 ticks and 3
  calls: a wait across the wrap, one that spans it again after being woken, and one that is made
  up for after a suspension. The heap: 16 units and sizes that leave a rest below and above the
  minimal block, fill it, and exceed it. Mutexes: three tasks of different priority, two
  mutexes, five calls: a waiter that times out beside another one that stays.
- *Outside.* Wi-Fi: three polls instead of 15, three calls, two losses. QoS 2: stores of two
  places (8) and three messages, so that the rings wrap, one broken connection, clean and persistent. Console:
  queues and FIFOs of two places, strings of one character and of three, each task alone and
  both. Line: a buffer of three characters, a ring of five, three entries, nine keys: entries
  are overwritten in part. Interface: four messages, with all the fields of the sensors, the temperature alone, the level alone, none, and no JSON.

`CHECK_DEADLOCK FALSE` is set because the programs may stop: `ConnectWiFI` leaves its loop when it cannot
connect or subscribe, a call of `readWaterLevel` may wait for ever, a session ends, nobody types,
and the bounded calls are used up.

### Fairness

- *Station*: weak for `measurementsTask`, `wateringTask` and the callback: tasks of equal
  priority share the processor by time slices, and every sleep ends. Strong for `ConnectWiFI`: it
  needs the mutex that the receive task holds during a callback, which is given back between two
  messages; commands come at a human pace. Nothing is assumed of the clients, and nothing of the echo: a reading of the level
  may hang for ever, which `ReportsAreTaken` admits. Every
  wait for the broker ends by its answer or by the end of the connection, which is what
  `CallsReturn` checks in `MqttSession`.
- *MqttSession*: strong for the application, the receive task, and the expiry of its timers:
  the mutex goes to the waiters in order, and time passes. Weak for the broker, unless it is silent. Calls need not be made.
- *SlDriver*: weak for the spawn task, the interrupt and each task, and for the network processor's
  answers and freed buffers: it answers every command, which is its protocol. Events need not come.
- *KernelQueue*: weak for the step of some task: the highest-priority ready task runs, and the
  tick comes. Nothing is assumed of the handlers, nor that a given task is the one that runs.
- *Board*: weak for the reader, the interrupt, the timer task and the sensor's edges (nothing
  forces the sensor to answer: `NoAnswer`); weak for the bus handler, the controller, which
  ends every command well or with an error, and the calls; nothing forces a lost command to be carried out.
- *Outside*: weak for the caller of the Wi-Fi calls, the spawn task that runs the event
  handlers, and the address that an access point of its own always has; for QoS 2 weak for receiving on both
  sides and for connecting again; for the console weak for each task, the interrupt handler and
  the UART, which sends without anybody's help.

## 5. The proofs

Every safety property that a passing run checks is a theorem. The theorems hold for every value of the constants that the modules' named assumptions
admit; a few have a hypothesis of their own, stated in the theorem and explained below. What
several proofs need about lists, sets and division (cutting a list, appending, remainders, the
size of a set that gains or loses an element) is in `ListFacts`.

Induction over numbers goes through lemmas `Least` and `CountUp` of that module, derived from the
well-foundedness of the naturals: a set of numbers that contains 0 and with each number the next is
everything up to a bound. The general induction theorems of the library take an operator
as a parameter, which the provers cannot instantiate. `SelectSeq` is opaque to them, so where a
proof is about a filtered list the model removes by position (`KernelQueue`, `KernelMutex`,
`Without` in `QoS2`, `Inserted` in `KernelTicks`) or collects with a recursive function (`OnWire`,
`Off` in `KernelTicks`). That such a function exists follows from lemma `Recursion`: a rule that gives a value for each
value, and a first value, are followed by some function on `0..n`.

### Station (`StationProofs`)

For every queue length, every set of messages and of measurements, and every width of integers
above 60000 (`StationAssumption`; it also bounds moisture below by 10, as the conversion in
`moistureSensor.c` does).

| Theorem | States |
|---|---|
| `TypeOKHolds` | `Spec => []TypeOK`, the length of the queue included |
| `PumpOnDemandHolds` | `Spec => []PumpOnDemand` |
| `ImplementsIrrigation` | `Spec => IrrigationSafe`: initial states map to initial states, every step to a step of `Irrigation` or a stutter |
| `SwitchOffHolds` | `Spec => []SwitchOffStops` |
| `DurationHolds` | `Spec => []DurationAsked` |
| `NoAutoWateringHolds` | `Spec => []NoAutoWateringByDefault` |
| `ThresholdsWholeHolds` | `Together` implies `Spec => []ThresholdsWhole`: while no callback runs the mailbox holds the thresholds of one message; no run checks it apart from `DecisionsWhole` |
| `DecisionsWholeHolds` | `Together` implies `Spec => DecisionsWhole`, an action property |

The only way a message reaches the state is `ApplyFields`, called with all fields of a
message or with one. Lemma `Steps` says so, and each proof then has one step for it and one
for each action that could disturb the invariant.

- `TypeInv` adds to `TypeOK` that the fields still to be handled are fields of the message:
  without it `rx.msg[f]` could be anything.
- `WateringInv`: the relay is on exactly in location `sleep`, the flag is up exactly when
  there is demand, and it is up from the end of the wait to the clear. `PumpOnDemand` alone is not
  inductive: it does not say that `WaterClear` runs with the relay off. The refinement uses
  the same invariant.
- `SwitchInv`: while measuring is on, or `measurementsTask` is about to send, no report has
  been late. So the first late report is sent from there, and the next one has to pass the wait.
- `DurationInv`: what the mailbox holds was asked for; a client among the requesters has
  written the mailbox; from the choice of the duration to the end of the watering, it is one
  that was asked for, or the default for a watering nobody but the station asked for.
- `AutoInv`: as long as the mailbox is empty, `thresholds` is at most the default 0, which no moisture of
  10 or more meets, whatever the temperature is.
- The thresholds: `Mqtt_Recv` stores one, then the other, out of a local it did not initialise. With
  `Together` (a message carries both or neither, as the PC interface does, `guipanel.cpp:381-384`) the mailbox holds the
  pair of one message whenever the callback is not between the two (`WholeInv`). There, a command of Losant can be
  preempted, and the invariant says what the mailbox has then: this command's temperature (`Half`). So `DecisionsWhole` needs no hypothesis on the
  clients beyond `Together`; without `Together` the run `station_partial` shows the mailbox with a half of garbage.

### MQTT client (`MqttProofs`)

| Theorem | States |
|---|---|
| `PubrecFindsItsPacket` | `Spec => []PubrecFindsPacket` |
| `SignalsAreFresh` | `Spec => []NoStaleSignal` |
| `SuccessIsReleased` | `Spec => []SuccessMeansReleased` |

- `LinkOK`, `ConnackOK`: nothing is received before CONNECT was sent nor after the socket is closed; while CONNACK is
  awaited nobody has signalled.
- `OrderOK`, `FlightOK`: the waiting list and both wires are in the order of the identifiers; what was sent first is
  answered first; what is on a wire is waited for, and what is waited for and not on a
  wire was lost together with all that was sent later. This carries `PubrecFindsPacket`, whose code
  takes the head of the list without a test. `MutexOK` is what keeps two packets from
  being sent and enlisted in different orders.
- `ListsOK`, `SignalOK`: with blocking calls the lists hold at most the packet of the call under way, and a
  signal nobody took was given for the end of the connection.
- `CompOK`, `ReleasedOK`: a PUBCOMP in flight is for a message the broker has let go; a call
  whose acknowledgement was reset by the callback has been told by that PUBCOMP.

### SimpleLink driver (`DriverProofs`, `PoolProofs`)

| Theorem | States |
|---|---|
| `ResponseReachesItsTask` | `Spec => []ResponseToItsTask` |
| `NoMessageIsForgotten` | `Spec => []UnreadHasReader` |
| `PoolStaysWhole` | `Spec => []PoolIsWhole` |

- `LockOK`, `OpOK`: who is where holds which lock, for which operation.
- `MessagesOK`, `WaitOK`, `AnswerOK`: the response to the command of the lock's holder is owed, on its way or being read, at one
  of these places at most.
- `SpawnedOK`, `CountOK`, `TestOK`: `unread` counts the announced messages exactly; while a message is announced
  and the entry of the spawn queue is missing or already passed its test, some task is on its way to the test that it will make
  before it gives the lock back.
- `PoolInv` (`Lists`, `Owned`, `Active`, `Counted`): the three lists are disjoint and without repetition; the object of a
  call is in the list that matches where the call is, or in none while its task, woken, has not run; lists and
  woken tasks together make up all objects.

### Queues of the kernel (`QueueProofs`)

| Theorem | States |
|---|---|
| `TypeCorrect` | `Spec => []TypeOK` |
| `ImplementsBoundedQueue` | `Spec => QueueIsFifo`, the refinement of `BoundedQueue` |
| `NoWakeUpIsLost` | `Spec => []NoLostWakeUp` |

- `TypeInv` (`LengthOK`, `StorageOK`, `LocksOK`, `ListsOK`, `CallsOK`, `EndsOK`) bounds each part of the queue; a count of a lock never
  passes the number of handlers that ran.
- `HeldOK`: the scheduler is suspended exactly between `prvLockQueue` and `xTaskResumeAll`, the queue locked with it.
- `RingOK`: the next item is written behind the last queued one. With it a write at `pcWriteTo` is an append to the
  abstract sequence and a read at `pcReadFrom` its tail.
- `WaitersOK`, `ReceiversOK`, `SendersOK`: a task is once on one list, only while it waits; while some task waits to receive, there are as many
  tasks on their way, or counted in the lock, as there are items, and likewise for room. `NoLostWakeUp` alone is not inductive, since
  one wake-up may have to stand for several items.

### What the tasks stand on (`BoardProofs`)

| Theorem | States |
|---|---|
| `ReadingsAreFresh` | `Spec => []ReadingIsFresh` (`WaterLevel`) |
| `HoldersInherit` | `NestedForEver` implies `MutexSpec => []InheritanceHolds` |
| `ResultsAreOwn` | `BusSpec => ResultIsOwn`, an action property |
| `BytesAreCarried` | `BusSpec => BytesCarried`, an action property |
| `HeapStaysTiled` | `HeapSpec => []HeapIsTiled` |
| `TicksTyped` | `TicksSpec => []TicksTypeOK` |
| `NotEarlyHolds` | `TicksSpec => NotEarly`, an action property |
| `NotLateHolds` | `[]Prompt` implies `TicksSpec => []NotLate` |

- `LevelInv`: between two calls nothing is under way, no pulse, interrupt or deferred operation; within a call,
  ECHO_DONE, set or still queued (`Announced`), means that this call's pulse is over.
- `MutexInv`: a priority is the task's own or inherited; lists are sorted as far as base priorities go;
  the holder is as important as all that wait; a mutex that is free while tasks wait has a successor at least
  as important as they are. `NestedForEver` (a task that may hold one mutex while it takes another waits
  for ever) is needed: a time-out of such a wait can leave its holder too low, see the observations in
  section 4. The run `board` has it, and the firmware takes its mutexes either for ever or without waiting
  (`driver.c:1809`, `:1275`, `sl_mqtt_client.c:375`).
- `BusInv`: the queue holds the requests of the tasks that wait, the handler works for its head, and a
  notification bit is there only for a task whose transaction has ended, for the bit it was asked for.
  `Solo` is about one task alone: the controller is at work exactly while the handler waits for it, except for the STOP
  of a transaction that is over (`BetweenCalls`, `NotBegun`, `UnderWay`), and the bytes carried, the one in flight and
  those left add up to what was asked (`InFlight`).
- `HeapInv`: the free list is in the order of addresses and does not overlap, which `prvInsertBlockIntoFreeList` relies on;
  free and used units partition the heap.
- `TicksInv`: both delayed lists are in the order of wake times, without a common task, the first one ahead of
  the counter and of `xNextTaskUnblockTime` (`ListsInTime`); ticks are put off only while a task has suspended the scheduler
  (`Suspending`). For a task in `vTaskDelay`, what is left of its delay is the distance from the counter, with the ticks put off,
  to its wake time, one round more on the overflow list (`OnTime`). For a wait, what is left is *at most* what the
  noted time tells (`WaitOK`): the code sees the counter modulo 2^32 and the count of rounds only as equal or not, and
  lemma `Rounds` shows that it never takes more ticks for passed than have. So no time-out is early, without any hypothesis. That it is *exactly*
  that much (`WaitsExact`), and so no time-out late, needs `Prompt`: from noting the time to testing it, the sleep between them
  included, a task with a finite time-out takes at most a whole round (2^32 ticks, 49 days at 1 kHz). Beyond that
  `xTaskCheckForTimeOut` can miss a round, and the hypothesis cannot be dropped. The effect of one tick is lemma `OneTick`, that of several, made up for by
  `xTaskResumeAll`, `TicksAre` by induction.

### The outside (`OutsideProofs`)

| Theorem | States |
|---|---|
| `PrintsInOrder` | `ConsoleSpec => []InOrderAlone` |
| `PollingSeesThisCall` | `Spec => PollsSeeThisCall` (`NetworkIf`), an action property |
| `GaugesShowOneReport` | `GuiSpec => []OneReport` |
| `GoesBackForPings` | `GuiSpec => []BackOnlyForPing` |
| `PassedOnOnceHolds` | `QosSpec => []PassedOnOnce` |
| `StoresHoldWhatIsUnderWay` | `QosSpec => []StoresFollowTheWire` |
| `HistoryEndsInTheLine` | `LineSpec => []HistoryServes` |

- `AloneInv`: while the task moves characters the transmit interrupt is masked (`TxMasked`), so the room it found stays (`RoomStays`),
  and what is out, in the FIFO, in the ring and in the task's hand is one run of consecutive numbers (`InOrder`).
- `NetworkInv`: from the restart to the request to join, the network processor has nothing to tell (`Quiet`), so
  a bit seen in the polling loop was set after it (`Fresh`, `NoAddress`).
- `GuiInv`: messages wait in the order of their numbers, all newer than what is shown or held by a dialog (`Waiting`);
  a message is held by the innermost dialog only, while no ping is pending (`Nested`), so that a click of ping pays for one
  return to an older message (`Due`).
- `OnceInv`: a PUBLISH on the wire is still waited for and has no PUBREC on its way back (`SendOK`); what the broker passed on and
  may get again, it holds (`HeldOK`). The vector of the store appears in it because the loop that sends
  PUBRELs again may read places that were released.
- `Follows`: a store that has not lost its place lists its identifiers from `rd_idx` round the ring (`Whole`), and this list is the
  identifiers on the wire (`FollowsNow`). Lemmas `OnWireAppend` and `OnWireTail` say what a packet more or less is to
  the collected identifiers, `LogUpActive` and `UnlogActive` what the operations are to the list.
- `LineInv`: a terminator is never further than the length of a line from any place of the ring (`Terminated`), which is why the
  copy of an overwritten entry ends; the entry written last is the line entered last (`Remembers`).

### Only model-checked

- Every liveness property: liveness under fairness and ENABLED are beyond the prover as installed.
- The properties of the runs that show a violation, of course, are not theorems.

## 6. Not modelled

- *Vendor code.* driverlib and the register headers (`inc/hw_*.h`, `driverlib/`) are the larger part of the
  repository by lines: definitions of addresses and bit fields, and single register accesses,
  without state or control of their own. What the peripherals behind them do is external in the models.
- *The rest of the driver* (`wlan.c`, `socket.c`, `netapp.c`, `netcfg.c`, `fs.c`) fills in commands and hands
  them to `driver.c`; the framing on the bus is arithmetic on bytes.
- *The rest of the kernel*: event groups and the timer task as modules of their own, stream buffers, co-routines, queue sets, task
  creation and the port in assembly.
- *frozen* (JSON) has no state between calls; messages are the fields they carry.
- The *MQTT server* is not started by the firmware and its core is missing from the
  repository; the drivers of accelerometer and TMP006, and `protocol.c` of the interface, are not called.
- *Board support* (pins, GPIO, buttons, timers) keeps no state.
