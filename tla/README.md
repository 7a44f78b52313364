# A TLA+ model of the STM32F1 health check device

The program under `src/` is the firmware of a small monitoring device: an STM32F103 with FreeRTOS that reads DS18B20
sensors on a one-wire bus and up to two Bosch sensors on I2C, checks an HTTP server, answers clients on two TCP ports, and
restarts itself through the independent watchdog when one of its tasks stops making progress.  This directory holds
specifications of the parts whose correctness depends on the order in which tasks, devices and clients act, the TLC
configurations that check them, and proofs of the most important properties for every value of the constants.

Paths below are relative to `src/`.  `PROJECT.json` maps every definition to the lines it models.

## 1. The system

### Tasks

FreeRTOS runs with preemption and without time slicing (`Core/Inc/FreeRTOSConfig.h`: 93, 100).

| Task (priority) | Code | Loop |
| --- | --- | --- |
| Health (4) | `Srv/Src/health_service.c` | poll every 100 ms, self-check every 60 s, reload the watchdog every second |
| Heart Beat (4) | `Srv/Src/heart_beat.c` | toggle the LED, report, `vTaskDelay` |
| OW Bus Init (3) | `Periph/Src/onewire.c:70-81` | lock the bus, search it, unlock, wait a minute |
| Temperature (3) | `Srv/Src/temperature_service.c:144-181` | measure all sensors, publish the round, report, `vTaskDelayUntil` |
| TCP Commands (2) | `Srv/Src/tcp_service.c` | serve port 5005, serve the health port, report, wait one tick |
| HTTP Monitor (2) | `Srv/Src/http_monitor_service.c` | resolve, connect, ask, read the status, record, report, `vTaskDelayUntil` (a minute, wake to wake) |

### Components, their state, and what makes them correct

| Component | State | Operations | Interacts with | Correct when |
| --- | --- | --- | --- | --- |
| One-wire ROM search | device table and count, `lastfork` | `OneWire_Search`, `OneWire_Enumerate` | devices on the bus | every attached device is found once, and the search ends |
| One-wire mutex | holder | `OneWire_Lock`, `OneWire_Unlock` | configuration task, DS18B20 driver | no row is read while the table is rebuilt; both tasks get the bus again and again |
| DS18B20 driver | measurements of a round | `DS18B20_Measure` | table, mutex | a measurement is of the row it stands for; the mutex is released on every path |
| Temperature service | list of physical sensors with health data | round, `GetSnapshot` | DS18B20 and Bosch drivers, TCP service | numbers are stable, one sensor has one number, published slots are consistent, valid data is fresh and belongs to its sensor |
| Bosch drivers | last results | `Init`, `Measure` | Temperature service | a failed measurement is not taken for a new one |
| Health service | reports of the window, the latch, last check and reload | `Register`, `Report`, self-check, reload | all services, watchdog, stack overflow hook | no false alarm, the watchdog is fed, a hang or latched failure restarts the device in bounded time |
| TCP service | a line buffer and a W5500 socket per port | accept, receive, process, send, disconnect | clients, sensor list, HTTP snapshot | one answer, to the first line, received before the connection is ended; no client blocks the other port for ever |
| HTTP monitor | last check's snapshot, socket 4 | check, record, `GetSnapshot` | DNS client, W5500, health service | a response that arrived is judged by its status line; no check leaves a socket open; every check ends |
| DNS client (third party) | query, retry count, second counter | `DNS_run`, `DNS_time_handler` | HTTP monitor, timer task | a lost query is asked again; the answer belongs to the lookup; every wait for one is whole |
| W5500 driver (third party) | per-socket flag words, the chip | `socket` ... `recv` | TCP and HTTP tasks | one task's flags are not lost to the other |
| Cycle counter delays | the DWT counter, shared by all callers | `Delay_Microseconds`, `Delay_Milliseconds` | one-wire and Bosch drivers | no delay ends early or never |
| W25Qxx flash | pages; the chip's busy state outlives a reset | identify, erase, program, read, self-test | SPI, start-up | a flash called ready holds what was written; a chip that works is accepted |
| Network bring-up and DHCP client | chip, link, `dhcp_state`, lease, static addresses | `W5500_Init`, `DHCP_run` | DHCP servers, start-up | address, gateway and name server belong together; the address is a confirmed one; start-up ends |
| Start-up | `peripheralReadiness`, the tasks created | `main` | all of the above | tasks that use the network run exactly on a configured one |
| Displays, buzzer, buses | registers | output | hardware | not about order, see section 8 |

### What is hard here

`PROJECT.json` lists the hazards line by line.  The main groups are:

* *shared state under a mutex or a critical section*: the device table, the published sensor list, and the tick that is read
  before the critical section it is used in;
* *devices that come and go* between the minute search and the round that uses its table, and a table and a list with
  different capacities (16 rows, 6 DS18B20s per round, 8 slots that are never released);
* *unsynchronised periods*: reports, self-check windows and watchdog reloads drift against each other;
* *a network peer that does anything at any time* while one task serves two ports and waits for the peer;
* *unreliable datagrams*: late, lost and repeated answers of DNS and DHCP servers, to this lookup, an earlier one, or an earlier boot;
* *hardware that outlives a reset*, or that two tasks share without a lock: the flash and the cycle counter;
* *numbers at their limit*: a failure count that saturates, ages as differences of a wrapping tick, zero as "never".

## 2. Modules

| Module | Models | Status |
| --- | --- | --- |
| `OneWireSearch` | the ROM search, one pass per step | with `OneWireTask`, proved |
| `OneWireSearchProofs` | what a search finds | proved |
| `SensorRegistry` | extends `OneWireSearch`: mutex, configuration task, Temperature task, published list, readers | checked, proved |
| `SensorRegistryProofs` | its theorems about the list and the mutex | proved |
| `SensorList` | what the registry promises to its readers: a list that rounds replace as a whole | abstract |
| `SensorListRefinement` | the mapping under which `SensorRegistry` implements `SensorList` | checked, proved |
| `SensorListProofs` | extends both: the refinement, and what readers may rely on | proved |
| `HealthSupervisor` | self-check, latch, watchdog, supervised tasks, stack overflow hook | checked, proved |
| `HealthSupervisorProofs` | its theorems | proved |
| `TcpService` | both TCP ports with their clients and the W5500 sockets | checked, proved |
| `TcpServiceProofs` | its theorems, and lemmas about lines cut into segments | proved |
| `DnsClient` | one lookup after another, with the network and the name server | with `HttpMonitor` |
| `HttpMonitor` | extends `DnsClient`: the checks, the HTTP server, the chip's socket 4 | checked, proved |
| `HttpMonitorProofs` | the theorems about both | proved |
| `W25qFlash` | identification and self-test of the flash, with the chip | with `Startup` |
| `NetworkBringUp` | `W5500_Init` and the DHCP client, with several servers | with `Startup` |
| `Startup` | extends both: `main()`, resets | checked, proved |
| `StartupProofs` | the theorems about the three | proved |
| `DelayCounter` | busy waits on the cycle counter | with `OneWireTask`, proved |
| `DelayCounterProofs` | its theorems | proved |
| `OneWireTask` | extends `OneWireSearch` and `DelayCounter`: a search made of waits, beside the Temperature task's wait | checked |
| `MCOneWireTask`, `MCSensorRegistry`, `MCSensorList`, `MCHealthSupervisor`, `MCTcpService`, `MCHttpMonitor`, `MCStartup` | constants of the instances | |

### OneWireSearch

A ROM code is a function from bit numbers to bits.  A device takes part in a pass as long as it agrees with the bits chosen so
far, so a pass is determined by its forks, the bits at which the participating devices disagree (`Forks`), and by the branch the
code takes at each (`Branch`, lines 296-306).  `EnumerateDevice` is one successful call of `OneWire_Enumerate`.  The point that
needs care is which row supplies the bits before `lastfork`: the code passes the row that is being *filled*, and that row was
cleared at line 338.  The table keeps `oneWireDevices`, `oneWireDeviceCount` and `lastfork` under their own names.

### SensorRegistry

| Code | Model |
| --- | --- |
| `oneWireDevices`, `oneWireDeviceCount`, mutex | the variables of `OneWireSearch`, `oneWireMutex` |
| `oneWireBusConfigurationTask` | `LockForSearch`, `SearchBus` (one `SearchStep`), `UnlockAfterSearch` |
| `DS18B20_Measure` | `LockForMeasure`, one `ConvertAndRead` per row, `UnlockAfterMeasure` |
| Bosch measurements | `MeasureBmx280`, `MeasureBmx680`: new results, or an error and the old results |
| `temperatureSensorService_UpdateSnapshots` | `StampRound` (reads the tick), `EnterCritical`, `RefreshDs18b20` / `RegisterDs18b20` / `IgnoreDs18b20` per measurement, `MarkMissing`, `UpdateBmx280`, `UpdateBmx680`, `ExitCritical` |
| `temperatureSensorService_RecordResult` | `RecordResult` with `Succeeded` and `Failed` |
| `temperatureSensorService_ApplyAge`, `GetSnapshot` | operators of the same names; a reader may run whenever `~critical` |
| devices plugged in and pulled out, the tick | `Plug`, `Unplug`, `Tick` (which a critical section holds off) |

A round and a search may begin at any time: the periods of the two tasks are left out, so every phase between them is covered.
The local variables of a round get their initial values back when the round is over.  Temperature, pressure and humidity are one
*reading*.  `delivered`, `published`, `discovered`, `dataAge` and `roundAge` are history variables that only properties read, except that `Tick` does not go
past `MaxRound` ticks between two rounds: a Temperature task that slow has been ended by the watchdog.

### HealthSupervisor

The components are a set with a wait and a longest round each; `Periodic` are those that use `vTaskDelayUntil`.  `Tick` waits
for everything that is due, as the scheduler does for tasks that are ready.  `SelfCheck` and `FeedWatchdog` are the two halves
of an iteration of the Health task, with the printed report between them: the code computes with the tick count it read before
the print.  All calls of `HealthService_Register` come before the scheduler starts (`Core/Src/main.c:82-99`), so registration
is part of `Init`.  `Hang` and `StackOverflow` are the faults.

### TcpService

The two halves of `tcp_service.c` are the same code, written out for two sockets; the model has it once, for the socket whose
turn it is.  `status`, `connected` (`Sn_IR_CON`), `sendOk` and `received` are what the chip shows; `Connect`, `ClientSends`,
`ClientCloses`, `ClientAcknowledges`, `ClientResets` and `ConnectionEnds` may happen between any two looks of the task at the
chip.  `SendTimesOut` may happen at any time of the wait: the second the code waits is not counted.  A response is the line it
answers.  `Sn_IR_SENDOK` is taken to mean that the client has acknowledged the data.

### DnsClient and HttpMonitor

| Code | Model |
| --- | --- |
| `DNS_run` | `BeginLookup`; then `SendQuery`, and turns of `PollSocket` followed by `ReceiveAnswer`, or by `WaitOn`, `Retry` or `GiveUp` (the results of `check_DNS_timeout`) |
| `DNS_time_handler`, called by the timer task | `DNS_time_handler`, in `HttpMonitor` part of `Second` |
| `socket`, `sock_any_port` | `NextPort`: each DNS and each HTTP socket gets a port of its own |
| `httpMonitorService_Check` | `StartCheck`, `Lookup`, `OpenSocket`, `Connect`, `Connecting`, `Send`, `Disconnect`, `Disconnecting`, `Close`: a step ends where the code looks at the chip again |
| `httpMonitorService_ReadStatus` | `ReadSize` (the clock, then the receive size), `ReadByte` or `ReadByteFails` (`recv`), `ReadState` (the status) |
| `httpMonitorService_Record` | `Record` |
| name server and network | `ServerAnswers`, `LoseAnswer`, `DeliverAnswer`, which may leave a copy on the way |
| HTTP server and chip | `ConnectionAnswered`, `ServerSends`, `ServerCloses`, `ServerResets`, `DisconnectEnds` |

The variable `length` is the C variable `len`, which holds the length of the query and then the receive size: the heart of `dns_doc`.
Answers carry an *age*, how many sockets were opened since their lookup began; it is how a property knows an answer to this lookup
(age 0) from a late one.  A status line is a length, a code and whether `ParseStatus` takes it.

### W25qFlash, NetworkBringUp and Startup

`Startup` is `main()`: `InitBuses`, the steps of `W25qFlash`, the steps of `NetworkBringUp`, `StartTasks`.  `Reset` may happen at any
step, by the reset button or the watchdog; it resets everything except the flash chip (`busy`, `writeEnabled`, `page`), which keeps its power, and the network (`wire`).

* The flash: a transaction succeeds, or fails before or after its command reached the chip.  The chip takes an erase or a program only when
  it is enabled and idle, and identifies itself only when it is idle.  `ProgramPage` also covers a page that was programmed in part.
* The DHCP client: `Discover`, `TakeOffer`, `TakeAck`, `FindConflict`, `TakeNak` and `PassOver` are the ways a call of `DHCP_run` can go.  Each reads
  at most one datagram.  As in the code, the options of an accepted message are stored whatever its type (`Stored`), and the address
  is taken from an OFFER only.  The transaction number is not compared, so answers to the boot before a reset are still read.
* `Turning` stands for the two endless loops: the scheduler, and the wait of `check_DHCP_leasedIP`.

### DelayCounter

`_DWT_Init` and `Delay_Microseconds` are one action per access to the counter, for the Temperature task's wait for a Bosch
sensor.  `OneWireDelay` is a whole wait of the one-wire configuration task: these run with interrupts disabled.  It can come between any two of the
others, for both tasks have priority 3: when the Health task preempts one and blocks again, the scheduler takes the other.

### OneWireTask

The search and the delays composed as the configuration task composes them.  A pass of the search (`SearchPass`) is decided after the last of its
waits; `BusWait` is one of those before it, after which the task may be preempted; `SearchReturns` leaves the loop without a wait.  All other
steps are the Temperature task's wait (`TemperatureDelay`) and time (`TimePasses`).

## 3. Abstract statements

`SensorList` is the contract of the sensor list in its own terms: `Publish` replaces the whole list; every sensor that has a
number is attempted by every round, at one tick; its slot becomes what its attempts came to (`AfterSuccess`, `AfterFailures`); new sensors take
the next numbers; a failure never touches a reading.  `SensorListRefinement` maps the abstract list to `sensorSnapshots` outside a critical
section and, inside one, to `published`, the list as the last round left it: what a reader can see.  `PublishesWholeRounds` is the
abstract specification under that mapping, checked in `registry_replug`.  `ExitCritical` maps to `Publish`, every other step to a stutter.  A sensor
whose row the search repeats is attempted more than once in a round; `Evolves` allows as many attempts as a round has rows.

## 4. Runs

| Run | Instance | Question | Result |
| --- | --- | --- | --- |
| `one_wire` | every set of the eight 3-bit ROM codes, 8 rows; a wait of 3 cycles, one-wire waits of 2, a counter of 7 values | what does a search find, does it end; is the wait long enough, or disturbed and lost | exactly all devices iff no fork lies inside the one branch of a fork; it always ends; the waits hold |
| `registry` | two sensors, one of them read per round, three slots, two readings, both Bosch sensors fitted, any subset initialised, a growing bus | types; the list at its limit; data of the right sensor | holds |
| `registry_bus` | three 2-bit codes with a fork in a one branch, three rows, all read; tick modulo 4, stale after 1, at most 1 tick between rounds | repeated rows: one slot per sensor; consistent slots; freshness over wraps of the tick | holds |
| `registry_replug` | two devices plugged and pulled at any time, one row read | mutex, missing sensors, stable numbers, whole rounds (refinement of `SensorList`), and (fair) publication of attached sensors | holds |
| `health` | one component with each kind of wait, hang or overflow at any tick | false alarm, feeding, bounded restart | holds |
| `tcp` | two ports, a 2-byte buffer, clients of 3 and 2 bytes | answers, order of answer and disconnect, progress of both ports | holds |
| `http` | a name server and an HTTP server that do anything at any time; waits of 2 s, 1 retry, status lines of 1 to 3 bytes for a 3-byte buffer | what a check is judged by, its sockets, the snapshot, waits, every check ends | holds |
| `startup` | two boots, two DHCP servers of which one announces no name server, two polls, two link attempts, five calls of `DHCP_run` | flash, lease, configuration and tasks after any failures and resets; start-up ends | holds |
| `missing_doc` | two devices, one row read | is a missing sensor absent from the latest discovery | violated, section 7 |
| `health_http` | one component whose wait is the self-check window | false alarm | violated, section 7 |
| `dns_doc` | as `http` | does a retry send the query | violated, section 7 |
| `dns_time_doc` | as `http`, with the code's waits of 3 s and 2 retries | does a lookup end within the documented time | violated, section 7 |

`PROJECT.json` names for every property of a passing run a mutation of a modelled definition (the definitions marked
*Mutation*) that breaks it.

### Bounds and why they are enough

* Three ROM bits give every shape of tree with up to three nested forks, among them the smallest on which the search is
  incomplete (three devices, two bits).  Two bits suffice where only a repeated row matters; there all three rows are read, so that
  one round measures a sensor twice.
* One DS18B20 per round with two on the bus is the smallest instance with a device beyond the rows that are read, and with a
  list (three slots) that plugging can fill before the Bosch sensors are registered.  The code has 6, 16 and 8.
* Threshold 2 separates the first failure, the last one before *unavailable*, and *unavailable*; the limit 2 lets
  the count saturate in a few rounds (65535 in the code).
* `TickModulus = 1` switches time off in the runs that are not about it; 4 ticks with rounds at most one tick apart let the counter wrap
  while data ages.  The ratio that matters, `MaxRound * (FailureThreshold + 1) < TickModulus`, is an assumption of the
  module and holds in the code by five orders of magnitude.
* In `health` one tick is one poll; check 6, feed 2 and watchdog 5 keep the order of 60000, 1000, 2400 and 100 ms, with windows
  short enough for every drift of the two components against them.
* `http`: the values are in `MCHttpMonitor.cfg`.  Ports repeat after a number of sockets that outlasts the answers in the network (16368 in the code).  One status line
  fits the buffer with a code 200, one has another code, one is too long or malformed; the limit of the failure count equals the threshold, so that it saturates at
  the first failure that makes the server unavailable (65535 and the threshold of the code are far apart).
* `startup`: two polls distinguish the last poll from the others; five calls are the four of a shortest lease and one that is passed over, so that every order of
  OFFER, ACK, NAK and foreign answers in them happens (20 calls in the code); two boots give answers of an earlier one.  Answers are lost, late and reordered; they are not duplicated.
* `one_wire`: 3, 2 and 7 are the smallest numbers `DelayAssumption` allows with a one-wire wait that is shorter than the other but longer than a cycle.  The
  difference of counter and start takes every value, the counter wraps, and a one-wire wait falls into every gap; the two safety properties are proved for every
  length.  No wait is preempted for a whole turn of the counter, a minute in the code.
* `registry` is checked up to the symmetry of the readings, which no definition or property tells apart, and has no temporal property.
* A two-byte buffer with three bytes from a client has the empty line, the full buffer, the line that exactly fits, and bytes left in the chip when
  the answer is sent.  The second port only needs a whole line.

### Fairness

* `registry_replug`: both bus tasks have priority 3 and block between their rounds, so each keeps running (weak
  fairness), and each finds the mutex free again and again while the other waits its minute or period (strong fairness of the two lock
  steps: they are disabled whenever the other task holds the mutex).  Nothing is assumed of the devices; the property itself is about buses that have come to rest.
* `tcp`: the task runs whenever no task of higher priority does, and those block (weak fairness of its steps).  The chip ends a connection the
  device has disconnected, at the latest after its retransmission time-out (`ConnectionEnds`).  Nothing is
  assumed of clients.
* `http`: the task runs (weak fairness of `Task`), the chip answers each command, at the latest with its time-out (`Chip`), and the timer ticks (`Second`).
  Nothing is assumed of the servers or the network.
* `startup`: `main()` runs alone (`MainStep`), and the chip ends an erase or a program (`FlashChip`).  Nothing is assumed of DHCP servers.
* `one_wire`: the two tasks take turns, so a search that is under way goes on after finitely many waits (`SearchesOn`) and so does the Temperature task's
  wait; the clock ticks.
* `HealthSupervisor` has no liveness property: its bounds are invariants over counted ticks.

## 5. Proofs

Every invariant and every action property of the passing runs is proved for all values of the constants that the named assumptions
allow (`NoFalseAlarm` under one condition more); every proof is an inductive invariant `IInv`, the lemma that no action disturbs it, and a short step from it to the property.  Each
`IInv` was checked by TLC on the run's instance before it was proved.  The assumptions are the modules' `ASSUME`s, which
TLC evaluates for the instances; they hold of the code's values.

### The search

`OneWireSearchProofs` assumes that a ROM code has at least one bit and the table one row.  Because the row that a pass fills was cleared, a
pass takes the zero branch at every fork but `lastfork`.  `OneBranchInv` says what follows for every bus: no device that takes the one branch at two
forks is ever found.  `WayInv` says what follows when no fork lies inside a one branch: all forks lie on the way of the device the first pass finds
(`FirstRow`), every found row agrees with it up to `lastfork`, and every device that does is found.  The next pass leaves the way at `lastfork`, so its
device is new (`PassLeavesTheWay`), and the device it finds is the only one to leave the way there (`WayGoesOn`).  When the table is full
before `lastfork` is zero, the rows are counted: the devices are finitely many because each is known by the fork at which it leaves the way.

| Theorem | Establishes |
| --- | --- |
| `SearchInvariant` | `IInv` |
| `RowsAreDistinct` | no row repeats another, unless a fork lies inside a one branch |
| `SearchIsComplete` | a finished search has found all devices exactly when none does |

### The sensor list

`SensorRegistryProofs` assumes the named assumptions of `OneWireSearch` and `SensorRegistry`: a non-empty table, at least one
DS18B20 per round, a threshold within the limit of the counter.  The inductive invariant `IInv` is

* `TypeInv`: `TypeOK`; `LockInv`, who holds the mutex in which steps, with a search only ever under way in the hands of the configuration task;
  `TableInv`, the counted rows are ROM codes; `RoundInv`, the measurements of the round so far are of the first rows of the table;
* `ListInv`: `OneSlotPerSensor`; `SlotInv`, every slot is consistent outside and inside the critical section; `AttemptInv`, outside
  the critical section all slots carry one tick, and inside it the slots of each model that the round has finished with, and those in
  `ds18b20Seen`, carry the round's.

None of the properties is inductive alone.  That all slots were attempted by one round holds at the end of the critical section only because
`MarkMissing` reaches exactly the DS18B20 slots no measurement reached, which needs `AttemptInv`; that a registered slot is new needs
`OneSlotPerSensor` together with what the lookup returned.

| Theorem | Establishes |
| --- | --- |
| `RegistryTypeCorrect` | types and bounds: saturated failure counts, a list within its slots |
| `RoundsReadOneSearch` | a round reads the table of one finished search |
| `RegistryInvariant` | `IInv` |
| `SensorsHaveOneSlot` | no sensor has two numbers, whatever a search repeats |
| `SensorNumbersAreStable` | no step removes a slot or gives it to another sensor |
| `SnapshotsAreConsistent` | what readers may see: fields agree with each other, all slots are of one round |

`SensorListProofs` adds `ReaderInv`, for what the readers rely on: `MeasureInv`, how far a round has come with its measurements;
`RoomInv`, the list has room for what this round may still add, which is why the Bosch sensors cannot be crowded out; `SeenInv`, a slot is in `ds18b20Seen` exactly when a
measurement looked at so far is its own; `BoschInv`, a Bosch slot holds the driver's results; `DataInv`, `delivered` is what each sensor's last success
brought; `EvolveInv`, what each published slot has become so far in this round by attempts of it; `AgeInv`, the ticks since the last success are bounded by
the failures counted since.  `DiscoveredInv` carries the table a round reads, which the next search may rebuild before the round is published.  `AgeInv` uses the assumption `MaxRound * (FailureThreshold + 1) < TickModulus`: without a bound on the age, the difference of
two ticks says nothing.  The refinement maps the initial states to the initial list, `ExitCritical` to `Publish` with the evolved slots, and every other step to a stutter.

| Theorem | Establishes |
| --- | --- |
| `ReaderInvariant` | `IInv /\ ReaderInv` |
| `ReadersSeeWholeRounds` | `SensorRegistry` implements `SensorList` |
| `BoschHaveNumbers` | every initialised Bosch sensor has a number after the first round |
| `ValidDataIsOwn` | valid data is its own sensor's last reading |
| `MissingAsTheRoundFound` | a sensor the search has not found is missing, a measured one is not |
| `ValidDataIsNotOld` | valid data is not older than the stale period, tick zero excepted |

### The health service

`HealthSupervisorProofs` assumes that rounds are no longer than their waits, and that polling and printing fit into the
check period and, with the reload period, into the watchdog's.  `IInv` adds to `TypeOK` where an iteration stands
(`IterationInv`), how far a window is (`WindowInv`), that the time since the last reload is bounded while nothing is latched (`FeedInv`),
that a latched failure and the watchdog's counter grow together (`LatchInv`), and for every hung component the sum of what
is left of its window and the watchdog's time (`HangInv`).

| Theorem | Establishes |
| --- | --- |
| `HealthTypeCorrect` | types, bounds of the window and of the time since a reload |
| `WatchdogFed` | the watchdog runs out only after a failure was latched |
| `LatchedFailureIsFinal` | a latched failure restarts the device within one watchdog timeout |
| `HungComponentIsDetected` | a hang restarts it within two windows and one watchdog timeout |
| `NoFalseAlarmWhenReportsFit` | no false alarm if wait and work of every component together are shorter than the check period |

The last is conditional on purpose: the HTTP monitor does not meet its condition, and `health_http` shows what follows.

### The TCP service

`TcpServiceProofs` assumes a buffer of at least one byte, an end of line that is not part of a command, and a list of different sockets.  The first half
is about bytes.  `FromFirstOfMore`: what is kept of the bytes read so far, with more bytes appended, comes to the same line as all of them.
`ProcessedIs`: so `ProcessInput`, which sees only what it kept and what it has just read, gives the answer to all that was sent.  `AnswerStays`: once an answer is
certain, no further byte changes it.  The invariant then is

* `BytesInv`: of the bytes the client of a socket has sent, some were read and the rest is in the chip; while the connection is unanswered, those read ask
  for no answer and the buffer holds what is left of them; before the second half of `SOCK_CLOSE_WAIT` nothing is in the chip, or a buffer's worth was read;
* `AnswerInv`: `Send` is called with the answer to all bytes sent, for a client that has none yet;
* `AcknowledgedInv`: an acknowledgement the chip shows is of this connection's answer; `ConnectedInv`: the buffer that is emptied when a connection is first
  seen was empty; `StepInv`: which status the socket can have at each step of the task.

`OneAnswerToTheFirstLine` alone is not inductive: it speaks only of the step before `Send`, and says nothing of the bytes that wait in the buffer.

| Theorem | Establishes |
| --- | --- |
| `TcpInvariant`, `TcpTypes` | `IInv`; types, with the line buffer never written past its end |
| `FirstLineIsAnswered` | one answer, to the first line of this connection |
| `DisconnectFollowsTheAnswer` | a connection that asked for an answer is ended only after it was received |

### The HTTP monitor and the DNS client

`HttpMonitorProofs` assumes `HttpAssumption` and `DnsAssumption`: positive waits and sizes, and a threshold within the limit of the count.  That an answer is
gone before the ports repeat is part of the model (`Older`).  `LookupInv` counts the time of a lookup, `elapsed = retryCount * WaitTime + ticks`, so that clearing the seconds after each wait loses
none; `AnswersInv` relates the port of every answer in the network to its age, so that what reaches the open socket has age 0 for any number of
ports; `LineInv` shares the bytes the server has sent between the line and the chip; `SocketInv` says what the chip may show in each phase,
`OutcomeInv` what every outcome rests on, `CountInv` that the snapshot's count is the true one up to its limit.

| Theorem | Establishes |
| --- | --- |
| `HttpInvariant`, `HttpTypes` | `IInv`; types, with the line never outgrowing its buffer |
| `SuccessIsOwn` | a success is a code 200 of a server named by an answer to this lookup |
| `WholeLineIsJudged` | a line that arrived decides, with the exceptions the property names |
| `SocketsAreClosed` | no check leaves a socket open |
| `SnapshotIsTrue` | the snapshot follows from the checks so far |
| `LookupsWaitLongEnough` | every wait of a lookup is whole |

### Start-up

`StartupProofs` assumes at least one boot, poll, link attempt and call, and that the value that stands for *no server* is not a server.  `FlashInv` says for each step of
the self-test what the page and the chip are at; `MainInv` where `main()` is and which error bits are set; `DhcpInv` that answers under way are what their
servers announced, that the offer the client holds is one server's (`OfferInv`), its acknowledgement the leasing server's
(`AckInv`), and that the configuration is the lease or the built-in one; `OptionInv` that, as long as no answer to an earlier boot was read, the client
holds no option of a server other than the one it asks.  Genuine answers of an earlier boot are part of it: the client does not compare transaction numbers.

| Theorem | Establishes |
| --- | --- |
| `StartupInvariant`, `StartupTypes` | `IInv`; types |
| `ReadyFlash`, `RefusedFlash` | a ready flash holds the pattern; a working one is refused only when it was found busy |
| `WholeConfiguration`, `ConfirmedLease` | a leased address has its server's own gateway and name server where that server announces them, and nobody's (0.0.0.0) where it does not, unless an answer to an earlier boot was read; without a lease all are built in; the address was confirmed |
| `NetworkTasksStart` | tasks that use the network run exactly on one |

### The cycle counter

`DelayCounterProofs` assumes that a one-wire wait is shorter than the other and two waits are less than a turn of the counter.  `ElapsedInv` says that no
more than has passed can be read off an undisturbed counter, `DisturbedInv` that a disturbed one stands where the other wait left it.

| Theorem | Establishes |
| --- | --- |
| `DelayInvariant`, `DelayIsLongEnough` | `IInv`; an undisturbed wait is as long as asked |
| `DisturbedDelayLost` | a disturbed one ends only if it began ahead of the counter |

### What the proofs changed in the models

* `TcpService`: `Processed` and `Answer` were written as `CASE`s whose guards overlap.  TLC takes the first that is true, but the language leaves the value open, and
  a line that ends exactly at a full buffer would have had either answer.  They are `IF`s in the order of the code.
* `TcpService`: `SocketsAssumption` says that `Sockets` is a sequence; `NetworkBringUp`: `BringUpAssumption` says that `"none"` is not a server.  Both were
  silently assumed.

## 6. Only model-checked

* Liveness: `SearchTerminates`, `AttachedSensorsArePublished`, `LinesAreAnswered`, `ChecksEndUnlessConnectMissesIt`,
  `StartupEndsUnlessAddressConflict` and `UndisturbedDelayEnds`.  Fairness and `ENABLED` are out of the prover's reach.
* The four violations, `MissingMeansUndiscovered`, `NoFalseAlarm` of the HTTP monitor, `RequeriesSendTheQuery` and `LookupsTakeTheDocumentedTime`, which are
  counterexamples.
* The theorems about a search are about one search of a bus that does not change; what a search finds while devices are plugged in and pulled out is checked
  by the runs of `SensorRegistry`, and what its theorems use of it is only that the rows are ROM codes.

## 7. Where code and documents differ

* **Incomplete search** (`CompleteExactlyWithoutBranchFork` in `one_wire`).  `Periph/Inc/onewire.h:78-79` promises that the devices are discovered.  With three devices whose
  codes fork inside the one branch of a fork, the search misses one, repeats another in the rows that are left, and reports SUCCESS.  The property says exactly when.
* **Missing although discovered** (`missing_doc`).  `README.md:108` defines *missing* by absence from the latest discovery; the code
  calls missing what the round did not measure, and a round reads six rows.  A registered sensor whose row has moved beyond the sixth is found by every discovery and
  stays missing.  What does hold is `MissingFollowsTheRound`: absent sensors are missing, measured ones are not.
* **Never stale** (`ValidDataIsFresh` in `registry_bus`, which excepts it).  `README.md:107` defines *stale* by age; a success stamped with tick zero has no age.
* **False alarm** (`health_http`).  `Srv/Inc/health_service.h:36, 42` asks a component for forward progress in every self-check round.  The HTTP
  monitor is woken every 60 s, wake to wake, as long as the window, and reports when its check ends; when a check takes longer than the one before, the reports are
  further apart than a window, and one may close without any.
* **Requery without a query** (`dns_doc`).  `Ethernet/DNS/dns.h:73` calls `MAX_DNS_RETRY` the requery count.  The retry hands `sendto` the receive
  size, zero, and nothing is sent (`dns.c:559, 598`, `socket.c:822`).
* **Longer lookups** (`dns_time_doc`).  The note at `dns.h:95` gives the longest time of a lookup as the product of retries and wait time, 6 s.  There is one wait more
  than there are retries, 9 s (`dns.c:502-509`).  What does hold is `EveryWaitIsWhole`: each of the waits is the `DNS_WAIT_TIME` of `dns.h:74`.
* **DHCP without a clock.**  `Ethernet/DHCP/dhcp.h:99` says of the tick handler that it should be registered with a 1 s timer.  Nothing calls it: no message is sent twice, no
  lease is renewed, and an address conflict stops the start-up for ever, before the watchdog is started (`StartupEndsUnlessAddressConflict` excepts it).

* **A delay that never ends.**  `Core/Inc/common.h:191-192` describes a wait of the given duration; a one-wire wait that falls into the Temperature task's
  wait stops the counter it waits on, and only the watchdog ends it.  `DisturbedDelayIsLost` and `UndisturbedDelayEnds` say exactly which waits are lost.

Two behaviours contradict no document we know of and are stated as exceptions of properties that hold: `connect` waits for ever for a server that ends the
connection before it was seen established (`ChecksEndUnlessConnectMissesIt`; the watchdog ends it); a flash that is busy from before a reset is refused (`WorkingFlashIsReadyUnlessFoundBusy`).

`README.md:103` documents the state *initializing*, which no reader ever sees: a slot is registered and recorded in the same critical
section.  It is not listed, for the document does not say that it is seen.

## 8. Not modelled

* The bit timing of the one-wire bus, I2C, SPI and USART transfers, compensation arithmetic, display pixels, the buzzer, fault handlers: register-level
  I/O without an order of events to check.
* The text of responses and the parsing of sensor numbers: pure formatting; a command is its line.
* A bus error in the middle of a search pass: a pass is one step.
* Datagrams from anyone but the name server reaching the DNS socket, and an answer to a lookup before a reset: a reset starts the ports anew, and `HttpMonitor` has no reset.
* Waits on the cycle counter by tasks other than the two of `DelayCounter` (the display's).
* The catch-up of `vTaskDelayUntil` after a round longer than its period: excluded by `MaxWork <= Period`.
* The flag words of `Ethernet/socket.c` (`sock_is_sending`, `sock_io_mode`), which the TCP and the HTTP task change without a lock.  A bit is read by a second `send` on one
  connection only, both tasks send once per connection, and `socket()` clears the bit again; the register access of `wizchip_conf.c` and `W5500/w5500.c` is I/O.
* Writes of several pages and erases of blocks (`W25Qxx_Write`, `W25Qxx_Erase` with more than one unit): nothing in the firmware calls them so.
* The mutexes of the display and of the I2C bus: a display locks itself and then, for each transfer, the bus; no code locks them in the other order, and
  neither is held over a wait for anything else.
* Third-party code: the kernel is used through its contract.  FreeRTOS, its ports and the CMSIS headers are about nine tenths of the lines under `src/`; they are not
  this program's logic, and a model of them would say nothing about it, which is why the share of all lines that is modelled stays small.

## 9. Plan

The parts whose order of events matters are modelled, and their safety properties are proved.  What is left:

1. Search and registry together: that a search of a bus whose devices only come, or only go, during the search still fills its rows with attached devices.
2. An abstract specification of the TCP ports, a connection at a time (sent, answered, received, ended), and `TcpService` shown to implement it from `TcpServiceProofs`.
3. The same for the HTTP monitor: a check as one step from the snapshot before to the snapshot after it.
