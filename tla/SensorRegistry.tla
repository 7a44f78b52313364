--------------------------- MODULE SensorRegistry ---------------------------
(***************************************************************************)
(* The physical sensor list of Srv/Src/temperature_service.c and the two   *)
(* tasks that feed it: the Temperature task, which measures every sensor   *)
(* and publishes one round of results inside a critical section, and the   *)
(* one-wire configuration task, which searches the bus again every minute  *)
(* (module OneWireSearch).  The tasks share the device table under the     *)
(* one-wire mutex.  The TCP services read the list with GetSnapshot, which *)
(* is the operator of that name: it may run whenever no task is inside a   *)
(* critical section.                                                       *)
(*                                                                         *)
(* Ticks are counted modulo TickModulus (2^32 in the code).  Temperature,  *)
(* pressure and humidity are one value, the reading.                       *)
(***************************************************************************)
EXTENDS OneWireSearch, Sequences

CONSTANTS
    MaxDs18b20,        \* SENSOR_SERVICE_MAX_DS18B20: DS18B20s read per round
    FittedBosch,       \* the Bosch sensors soldered to the I2C bus
    Faults,            \* the failures a DS18B20 transaction may end with
    Readings,          \* values a successful measurement may deliver
    NoReading,         \* the zero a sensor that never answered has
    FailureThreshold,  \* SENSOR_FAILURE_THRESHOLD
    FailureLimit,      \* UINT16_MAX, where consecutiveFailures stops
    StalePeriod,       \* SENSOR_STALE_PERIOD_MS
    TickModulus,       \* values of TickType_t
    MaxRound           \* ticks between two rounds before the watchdog resets

Bosch == {"BMx280", "BME680"}
ReadStatus == {"BUS", "TIMEOUT", "CRC"}

ASSUME MaxDs18b20Assumption == MaxDs18b20 \in Nat \ {0}
ASSUME FittedBoschAssumption == FittedBosch \subseteq Bosch
ASSUME FaultsAssumption == Faults \subseteq ReadStatus /\ Faults # {}
ASSUME NoReadingAssumption == NoReading \notin Readings
ASSUME FailureAssumption ==
    /\ FailureThreshold \in Nat \ {0}
    /\ FailureLimit \in Nat
    /\ FailureThreshold <= FailureLimit
ASSUME TickAssumption ==
    /\ StalePeriod \in Nat
    /\ TickModulus \in Nat \ {0}
    /\ MaxRound \in Nat
    /\ MaxRound * (FailureThreshold + 1) < TickModulus

(* Mutation: the list has room for the DS18B20s of one round and no more. *)
MaxDevices_NoBoschRoom == MaxDs18b20

MaxDevices == MaxDs18b20 + 2

VARIABLES
    oneWireMutex,     \* "free", or the task that holds it
    now,              \* xTaskGetTickCount()
    task,             \* what the Temperature task does next
    readCount,        \* rows of the table this round reads
    discovered,       \* history: the devices in the table this round reads
    measurements,     \* ds18b20Measurements
    boschResults,     \* device->results of each Bosch sensor
    boschStatus,      \* bmx280Status and bmx680Status
    boschRegistered,  \* bmx280Registered and bmx680Registered
    critical,         \* between taskENTER_CRITICAL and taskEXIT_CRITICAL
    roundTick,        \* now, as read by UpdateSnapshots
    cursor,           \* the measurement UpdateSnapshots looks at
    ds18b20Seen,      \* slots the round has a measurement for
    sensorSnapshots,  \* the published list; its length is sensorSnapshotCount
    delivered,        \* history: the latest reading each DS18B20 delivered
    published,        \* history: the list as the last round left it
    dataAge,          \* history: ticks since the success a slot's data is from
    roundAge          \* history: ticks since roundTick was taken

busVars == <<attached, searchVars>>
roundVars == <<readCount, discovered, measurements, boschResults, boschStatus,
               boschRegistered>>
listVars == <<critical, roundTick, cursor, ds18b20Seen, sensorSnapshots>>
timeVars == <<now, dataAge, roundAge>>
vars == <<busVars, oneWireMutex, task, roundVars, listVars, timeVars, delivered,
          published>>

----------------------------------------------------------------------------
(* Snapshots.                                                              *)

States == {"INITIALIZING", "AVAILABLE", "DEGRADED", "UNAVAILABLE", "STALE",
           "MISSING"}
Errors == {"NONE", "NOT_READY", "TIMEOUT", "CRC", "BUS", "MISSING",
           "CONVERSION"}
Ticks == 0..(TickModulus - 1)

Snapshot == [model : {"DS18B20"} \union Bosch,
             identity : Roms \union {ZeroRom},
             dataValid : BOOLEAN,
             reading : Readings \union {NoReading},
             state : States,
             lastError : Errors,
             consecutiveFailures : 0..FailureLimit,
             lastAttempt : Ticks,
             lastSuccess : Ticks]

NewSnapshot(model, identity) ==
    [model |-> model, identity |-> identity, dataValid |-> FALSE,
     reading |-> NoReading, state |-> "INITIALIZING",
     lastError |-> "NOT_READY", consecutiveFailures |-> 0,
     lastAttempt |-> 0, lastSuccess |-> 0]

(* The snapshot of the same sensor, with its last reading, after an attempt. *)
Attempted(s, valid, state, error, failures, success) ==
    [model |-> s.model, identity |-> s.identity, dataValid |-> valid,
     reading |-> s.reading, state |-> state, lastError |-> error,
     consecutiveFailures |-> failures, lastAttempt |-> roundTick,
     lastSuccess |-> success]

Succeeded(s) == Attempted(s, TRUE, "AVAILABLE", "NONE", 0, roundTick)

(* Mutation: the counter does not stop at its limit. *)
FailuresAfter_Unsaturated(s) == s.consecutiveFailures + 1

FailuresAfter(s) ==
    IF s.consecutiveFailures < FailureLimit
        THEN s.consecutiveFailures + 1
        ELSE s.consecutiveFailures

Failed(s, error) ==
    LET unavailable == FailuresAfter(s) >= FailureThreshold IN
    Attempted(s, s.dataValid /\ ~unavailable,
              IF unavailable THEN "UNAVAILABLE" ELSE "DEGRADED",
              error, FailuresAfter(s), s.lastSuccess)

RecordResult(s, status, error) ==
    IF status = "SUCCESS" THEN Succeeded(s) ELSE Failed(s, error)

MapDs18b20Error(status) == IF status = "OK" THEN "NONE" ELSE status

(* Mutation: the reading is copied before the status is looked at. *)
WithMeasurement_Unchecked(s, m) ==
    RecordResult([s EXCEPT !.reading = m.reading],
                 IF m.status = "OK" THEN "SUCCESS" ELSE "ERROR",
                 MapDs18b20Error(m.status))

(* What a round does to the slot of the DS18B20 that measurement m is of. *)
WithMeasurement(s, m) ==
    RecordResult(
        IF m.status = "OK" THEN [s EXCEPT !.reading = m.reading] ELSE s,
        IF m.status = "OK" THEN "SUCCESS" ELSE "ERROR",
        MapDs18b20Error(m.status))

(* Mutation: a missing sensor gives its identity up. *)
Missing_Forgets(s) ==
    [Failed(s, "MISSING") EXCEPT !.state = "MISSING", !.dataValid = FALSE,
                                 !.identity = ZeroRom]

(* A failure of its own kind, which always invalidates the data. *)
Missing(s) ==
    Attempted(s, FALSE, "MISSING", "MISSING", FailuresAfter(s), s.lastSuccess)

(* The results of a Bosch sensor are copied whether or not it answered. *)
WithBoschResult(s, model) ==
    RecordResult([s EXCEPT !.reading = boschResults[model]],
                 boschStatus[model], "CONVERSION")

TickDifference(a, b) == IF b <= a THEN a - b ELSE (a - b) + TickModulus

(* Mutation: only available data ages. *)
ApplyAge_AvailableOnly(s) ==
    IF /\ s.lastSuccess # 0
       /\ s.state = "AVAILABLE"
       /\ TickDifference(now, s.lastSuccess) > StalePeriod
        THEN [s EXCEPT !.state = "STALE", !.dataValid = FALSE]
        ELSE s

ApplyAge(s) ==
    IF /\ s.lastSuccess # 0
       /\ s.state \in {"AVAILABLE", "DEGRADED"}
       /\ TickDifference(now, s.lastSuccess) > StalePeriod
        THEN [s EXCEPT !.state = "STALE", !.dataValid = FALSE]
        ELSE s

Slots == DOMAIN sensorSnapshots

(* TemperatureSensorService_GetSnapshot for a registered, one-based number. *)
GetSnapshot(number) == ApplyAge(sensorSnapshots[number])

(* Mutation: the lookup stops before the last slot. *)
Ds18b20Slots_OffByOne(rom) ==
    {i \in Slots : /\ i < Len(sensorSnapshots)
                   /\ sensorSnapshots[i].model = "DS18B20"
                   /\ sensorSnapshots[i].identity = rom}

Ds18b20Slots(rom) ==
    {i \in Slots : /\ sensorSnapshots[i].model = "DS18B20"
                   /\ sensorSnapshots[i].identity = rom}

ModelSlots(model) == {i \in Slots : sensorSnapshots[i].model = model}

IsFirst(i, slots) == i \in slots /\ \A j \in slots : i <= j

----------------------------------------------------------------------------
(* The bus, the clock and the one-wire configuration task.                 *)

Plug(rom) ==
    /\ rom \notin attached
    /\ attached' = attached \union {rom}
    /\ UNCHANGED <<searchVars, oneWireMutex, task, roundVars, listVars,
                   timeVars, delivered, published>>

Unplug(rom) ==
    /\ rom \in attached
    /\ attached' = attached \ {rom}
    /\ UNCHANGED <<searchVars, oneWireMutex, task, roundVars, listVars,
                   timeVars, delivered, published>>

(* The tick interrupt is held off inside a critical section.  A Temperature *)
(* task that publishes nothing for MaxRound ticks does not report either,   *)
(* and the watchdog resets the device.                                      *)
Tick ==
    /\ ~critical
    /\ roundAge < MaxRound
    /\ now' = IF now = TickModulus - 1 THEN 0 ELSE now + 1
    /\ roundAge' = roundAge + 1
    /\ dataAge' = [i \in 1..MaxDevices |->
                      IF i \in Slots /\ sensorSnapshots[i].dataValid
                          THEN dataAge[i] + 1 ELSE dataAge[i]]
    /\ UNCHANGED <<busVars, oneWireMutex, task, roundVars, listVars, delivered,
                   published>>

(* Mutation: the search does not wait for the mutex. *)
LockForSearch_Unguarded ==
    /\ oneWireMutex # "search"
    /\ ~critical
    /\ oneWireMutex' = "search"
    /\ UNCHANGED <<busVars, task, roundVars, listVars, timeVars, delivered,
                   published>>

LockForSearch ==
    /\ oneWireMutex = "free"
    /\ ~critical
    /\ oneWireMutex' = "search"
    /\ UNCHANGED <<busVars, task, roundVars, listVars, timeVars, delivered,
                   published>>

SearchBus ==
    /\ oneWireMutex = "search"
    /\ ~critical
    /\ SearchStep
    /\ UNCHANGED <<attached, oneWireMutex, task, roundVars, listVars, timeVars,
                   delivered, published>>

UnlockAfterSearch ==
    /\ oneWireMutex = "search"
    /\ ~critical
    /\ search = "done"
    /\ search' = "idle"
    /\ oneWireMutex' = "free"
    /\ UNCHANGED <<attached, oneWireDevices, oneWireDeviceCount, lastfork, task,
                   roundVars, listVars, timeVars, delivered, published>>

----------------------------------------------------------------------------
(* The Temperature task: one round.                                        *)

LockForMeasure ==
    /\ task = "delay"
    /\ oneWireMutex = "free"
    /\ oneWireMutex' = "measure"
    /\ readCount' = IF oneWireDeviceCount < MaxDs18b20
                        THEN oneWireDeviceCount ELSE MaxDs18b20
    /\ discovered' = Found
    /\ measurements' = <<>>
    /\ task' = "convert"
    /\ UNCHANGED <<busVars, boschResults, boschStatus, boschRegistered, listVars,
                   timeVars, delivered, published>>

(* DS18B20_GetTemperatureMeasurement of the next row.  A device that is gone *)
(* cannot answer; one that is there may still fail.                          *)
ConvertAndRead ==
    /\ task = "convert"
    /\ Len(measurements) < readCount
    /\ LET rom == oneWireDevices[Len(measurements) + 1] IN
       \/ /\ rom \in attached
          /\ \E value \in Readings :
                /\ measurements' = Append(measurements,
                       [rom |-> rom, status |-> "OK", reading |-> value])
                /\ delivered' = [delivered EXCEPT ![rom] = value]
       \/ /\ \E fault \in Faults :
                measurements' = Append(measurements,
                       [rom |-> rom, status |-> fault, reading |-> NoReading])
          /\ UNCHANGED delivered
    /\ UNCHANGED <<busVars, oneWireMutex, task, readCount, discovered,
                   boschResults, boschStatus, boschRegistered, listVars, timeVars,
                   published>>

(* Mutation: an early return for an empty table leaves the mutex taken. *)
UnlockAfterMeasure_EarlyReturn ==
    /\ task = "convert"
    /\ Len(measurements) = readCount
    /\ readCount' = 0
    /\ oneWireMutex' = IF readCount = 0 THEN oneWireMutex ELSE "free"
    /\ task' = "measureBMx280"
    /\ UNCHANGED <<busVars, discovered, measurements, boschResults, boschStatus,
                   boschRegistered, listVars, timeVars, delivered, published>>

UnlockAfterMeasure ==
    /\ task = "convert"
    /\ Len(measurements) = readCount
    /\ readCount' = 0
    /\ oneWireMutex' = "free"
    /\ task' = "measureBMx280"
    /\ UNCHANGED <<busVars, discovered, measurements, boschResults, boschStatus,
                   boschRegistered, listVars, timeVars, delivered, published>>

(* A sensor whose initialisation failed is not measured: its error flag is   *)
(* set.  The results are written only by a measurement that succeeds.        *)
MeasureBosch(model, from, to) ==
    /\ task = from
    /\ task' = to
    /\ \/ /\ model \in boschRegistered
          /\ \E value \in Readings :
                boschResults' = [boschResults EXCEPT ![model] = value]
          /\ boschStatus' = [boschStatus EXCEPT ![model] = "SUCCESS"]
       \/ /\ boschStatus' = [boschStatus EXCEPT ![model] = "ERROR"]
          /\ UNCHANGED boschResults
    /\ UNCHANGED <<busVars, oneWireMutex, readCount, discovered, measurements,
                   boschRegistered, listVars, timeVars, delivered, published>>

MeasureBmx280 == MeasureBosch("BMx280", "measureBMx280", "measureBME680")
MeasureBmx680 == MeasureBosch("BME680", "measureBME680", "stamp")

(* The tick is read before the critical section is entered. *)
StampRound ==
    /\ task = "stamp"
    /\ roundTick' = now
    /\ roundAge' = 0
    /\ task' = "enter"
    /\ UNCHANGED <<busVars, oneWireMutex, roundVars, critical, cursor,
                   ds18b20Seen, sensorSnapshots, now, dataAge, delivered,
                   published>>

(* Mutation: the round is published without a critical section. *)
EnterCritical_Open ==
    /\ task = "enter"
    /\ cursor' = 1
    /\ ds18b20Seen' = {}
    /\ task' = "updateDS18B20"
    /\ UNCHANGED <<busVars, oneWireMutex, roundVars, critical, roundTick,
                   sensorSnapshots, timeVars, delivered, published>>

EnterCritical ==
    /\ task = "enter"
    /\ critical' = TRUE
    /\ cursor' = 1
    /\ ds18b20Seen' = {}
    /\ task' = "updateDS18B20"
    /\ UNCHANGED <<busVars, oneWireMutex, roundVars, roundTick, sensorSnapshots,
                   timeVars, delivered, published>>

----------------------------------------------------------------------------
(* UpdateSnapshots, inside the critical section.                           *)

(* The history variable follows a slot that has just been written. *)
AgeAfter(i, s) == [dataAge EXCEPT ![i] =
                      IF s.consecutiveFailures = 0 THEN roundAge ELSE @]

WriteSlot(i, s) ==
    /\ sensorSnapshots' = [sensorSnapshots EXCEPT ![i] = s]
    /\ dataAge' = AgeAfter(i, s)

AddSlot(s) ==
    /\ sensorSnapshots' = Append(sensorSnapshots, s)
    /\ dataAge' = AgeAfter(Len(sensorSnapshots) + 1, s)

NextMeasurement ==
    /\ task = "updateDS18B20"
    /\ cursor <= Len(measurements)
    /\ cursor' = cursor + 1
    /\ UNCHANGED <<busVars, oneWireMutex, task, roundVars, critical, roundTick,
                   now, roundAge, delivered, published>>

(* Mutation: a sensor that was known is not marked as seen. *)
RefreshDs18b20_Unseen ==
    /\ NextMeasurement
    /\ LET m == measurements[cursor] IN
       \E i \in Slots :
          /\ IsFirst(i, Ds18b20Slots(m.rom))
          /\ WriteSlot(i, WithMeasurement(sensorSnapshots[i], m))
    /\ UNCHANGED ds18b20Seen

RefreshDs18b20 ==
    /\ NextMeasurement
    /\ LET m == measurements[cursor] IN
       \E i \in Slots :
          /\ IsFirst(i, Ds18b20Slots(m.rom))
          /\ WriteSlot(i, WithMeasurement(sensorSnapshots[i], m))
          /\ ds18b20Seen' = ds18b20Seen \union {i}

RegisterDs18b20 ==
    /\ NextMeasurement
    /\ LET m == measurements[cursor] IN
       /\ Ds18b20Slots(m.rom) = {}
       /\ Len(sensorSnapshots) < MaxDevices
       /\ AddSlot(WithMeasurement(NewSnapshot("DS18B20", m.rom), m))
    /\ ds18b20Seen' = ds18b20Seen \union {Len(sensorSnapshots) + 1}

IgnoreDs18b20 ==
    /\ NextMeasurement
    /\ Ds18b20Slots(measurements[cursor].rom) = {}
    /\ Len(sensorSnapshots) >= MaxDevices
    /\ UNCHANGED <<sensorSnapshots, ds18b20Seen, dataAge>>

MarkMissing ==
    /\ task = "updateDS18B20"
    /\ cursor > Len(measurements)
    /\ sensorSnapshots' = [i \in Slots |->
           IF sensorSnapshots[i].model = "DS18B20" /\ i \notin ds18b20Seen
               THEN Missing(sensorSnapshots[i])
               ELSE sensorSnapshots[i]]
    /\ task' = "updateBMx280"
    /\ UNCHANGED <<busVars, oneWireMutex, roundVars, critical, roundTick, cursor,
                   ds18b20Seen, timeVars, delivered, published>>

UpdateBosch(model, from, to) ==
    /\ task = from
    /\ task' = to
    /\ \/ /\ model \notin boschRegistered
          /\ UNCHANGED <<sensorSnapshots, dataAge>>
       \/ /\ model \in boschRegistered
          /\ \E i \in Slots :
                /\ IsFirst(i, ModelSlots(model))
                /\ WriteSlot(i, WithBoschResult(sensorSnapshots[i], model))
       \/ /\ model \in boschRegistered
          /\ ModelSlots(model) = {}
          /\ IF Len(sensorSnapshots) < MaxDevices
               THEN AddSlot(WithBoschResult(NewSnapshot(model, ZeroRom), model))
               ELSE UNCHANGED <<sensorSnapshots, dataAge>>
    /\ UNCHANGED <<busVars, oneWireMutex, roundVars, critical, roundTick, cursor,
                   ds18b20Seen, now, roundAge, delivered, published>>

UpdateBmx280 == UpdateBosch("BMx280", "updateBMx280", "updateBME680")
UpdateBmx680 == UpdateBosch("BME680", "updateBME680", "exit")

(* Printing, the health report and vTaskDelayUntil change no state of this   *)
(* module; the locals of the round go out of scope.                          *)
ExitCritical ==
    /\ task = "exit"
    /\ critical' = FALSE
    /\ task' = "delay"
    /\ measurements' = <<>>
    /\ discovered' = {}
    /\ boschStatus' = [model \in Bosch |-> "ERROR"]
    /\ roundTick' = 0
    /\ published' = sensorSnapshots
    /\ cursor' = 1
    /\ ds18b20Seen' = {}
    /\ UNCHANGED <<busVars, oneWireMutex, readCount, boschResults,
                   boschRegistered, sensorSnapshots, timeVars, delivered>>

----------------------------------------------------------------------------
Init ==
    /\ SearchInit
    /\ attached \in SUBSET Roms
    /\ oneWireMutex = "free"
    /\ now = 0
    /\ task = "delay"
    /\ readCount = 0
    /\ discovered = {}
    /\ measurements = <<>>
    /\ boschResults = [model \in Bosch |-> NoReading]
    /\ boschStatus = [model \in Bosch |-> "ERROR"]
    /\ boschRegistered \in SUBSET FittedBosch
    /\ critical = FALSE
    /\ roundTick = 0
    /\ cursor = 1
    /\ ds18b20Seen = {}
    /\ sensorSnapshots = <<>>
    /\ published = <<>>
    /\ delivered = [rom \in Roms \union {ZeroRom} |-> NoReading]
    /\ dataAge = [i \in 1..MaxDevices |-> 0]
    /\ roundAge = 0

Environment == Tick \/ \E rom \in Roms : Plug(rom) \/ Unplug(rom)

SearchTask == LockForSearch \/ SearchBus \/ UnlockAfterSearch

UpdateSnapshots ==
    \/ EnterCritical
    \/ RefreshDs18b20 \/ RegisterDs18b20 \/ IgnoreDs18b20
    \/ MarkMissing
    \/ UpdateBmx280 \/ UpdateBmx680
    \/ ExitCritical

TemperatureTask ==
    \/ LockForMeasure \/ ConvertAndRead \/ UnlockAfterMeasure
    \/ MeasureBmx280 \/ MeasureBmx680
    \/ StampRound
    \/ UpdateSnapshots

Next == Environment \/ SearchTask \/ TemperatureTask

Spec == Init /\ [][Next]_vars

(* The behaviours on a bus nothing is pulled from, and on one that is not    *)
(* touched at all.                                                           *)
SteadyBusNext == Tick \/ SearchTask \/ TemperatureTask

GrowingBusNext == SteadyBusNext \/ \E rom \in Roms : Plug(rom)

GrowingBusSpec == Init /\ [][GrowingBusNext]_vars

SteadyBusSpec == Init /\ [][SteadyBusNext]_vars

(* The Temperature task has priority 3 and blocks only in vTaskDelay and on  *)
(* the mutex; the search task shares that priority.  Each blocks between two *)
(* of its rounds, which leaves the other time to take the mutex when it is   *)
(* free: the two lock steps are enabled again and again, not continuously.   *)
Fairness ==
    /\ WF_vars(TemperatureTask)
    /\ SF_vars(LockForMeasure)
    /\ WF_vars(SearchBus \/ UnlockAfterSearch)
    /\ SF_vars(LockForSearch)

FairSpec == Spec /\ Fairness

----------------------------------------------------------------------------
Measurement == [rom : Roms, status : {"OK"} \union Faults,
                reading : Readings \union {NoReading}]

Steps == {"delay", "convert", "measureBMx280", "measureBME680", "stamp", "enter",
          "updateDS18B20", "updateBMx280", "updateBME680", "exit"}

TypeOK ==
    /\ SearchTypeOK
    /\ oneWireMutex \in {"free", "search", "measure"}
    /\ now \in Ticks
    /\ task \in Steps
    /\ readCount \in 0..MaxDs18b20
    /\ discovered \subseteq Roms \union {ZeroRom}
    /\ measurements \in Seq(Measurement)
    /\ boschResults \in [Bosch -> Readings \union {NoReading}]
    /\ boschStatus \in [Bosch -> {"SUCCESS", "ERROR"}]
    /\ boschRegistered \in SUBSET FittedBosch
    /\ critical \in BOOLEAN
    /\ roundTick \in Ticks
    /\ cursor \in Nat \ {0}
    /\ ds18b20Seen \in SUBSET (1..MaxDevices)
    /\ sensorSnapshots \in Seq(Snapshot)
    /\ Len(sensorSnapshots) <= MaxDevices
    /\ published \in Seq(Snapshot)
    /\ delivered \in [Roms \union {ZeroRom} -> Readings \union {NoReading}]
    /\ dataAge \in [1..MaxDevices -> Nat]
    /\ roundAge \in 0..MaxRound

(* One physical sensor has one number: no two slots hold the same DS18B20    *)
(* ROM, whatever the search repeats, and no two slots the same Bosch model   *)
(* (temperature_service.c:235-253, 286-304, 320-334).                        *)
OneSlotPerSensor ==
    \A i, j \in Slots :
        /\ sensorSnapshots[i].model = sensorSnapshots[j].model
        /\ sensorSnapshots[i].identity = sensorSnapshots[j].identity
        => i = j

(* A number, once given, stays with its sensor: the list only grows and no   *)
(* slot changes its model or identity, through failures, absence and a full  *)
(* list (README.md:59-61).                                                   *)
NumbersAreStable ==
    [][/\ Slots \subseteq DOMAIN sensorSnapshots'
       /\ \A i \in Slots :
             /\ sensorSnapshots[i].model = sensorSnapshots'[i].model
             /\ sensorSnapshots[i].identity = sensorSnapshots'[i].identity
      ]_sensorSnapshots

(* The rows a round reads are the rows of one finished search: no search     *)
(* rebuilds the table under DS18B20_Measure (ds18b20.c:50-71, onewire.c:75). *)
RoundReadsOneSearch ==
    task = "convert" =>
        /\ search # "enumerate"
        /\ readCount <= oneWireDeviceCount
        /\ \A k \in DOMAIN measurements :
               measurements[k].rom = oneWireDevices[k]

(* What a reader may find in a slot: the state, the failure count, the last  *)
(* error and the validity of the data agree with each other.  No reader ever *)
(* finds "initializing".                                                     *)
ConsistentSnapshot(s) ==
    /\ s.state = "AVAILABLE" =>
          s.dataValid /\ s.consecutiveFailures = 0 /\ s.lastError = "NONE"
    /\ s.state = "DEGRADED" =>
          /\ s.consecutiveFailures \in 1..(FailureThreshold - 1)
          /\ s.lastError \in ReadStatus \union {"CONVERSION"}
    /\ s.state = "UNAVAILABLE" =>
          ~s.dataValid /\ s.consecutiveFailures >= FailureThreshold
    /\ s.state = "MISSING" =>
          ~s.dataValid /\ s.model = "DS18B20" /\ s.lastError = "MISSING"
    /\ s.state \notin {"INITIALIZING", "STALE"}

(* A round is never seen half published: outside the critical section every  *)
(* slot is consistent and all of them were attempted by the same round       *)
(* (temperature_service.c:230-347).                                          *)
ReadersSeeConsistentSnapshots ==
    ~critical =>
        /\ \A i \in Slots : ConsistentSnapshot(sensorSnapshots[i])
        /\ \A i, j \in Slots :
               sensorSnapshots[i].lastAttempt = sensorSnapshots[j].lastAttempt

(* Valid data is the reading its own sensor delivered last, never the zero   *)
(* of a failed transaction or the reading of another sensor.                 *)
ValidDataIsFromItsSensor ==
    task = "exit" =>
        \A i \in Slots : LET s == sensorSnapshots[i] IN
            s.dataValid =>
                /\ s.reading # NoReading
                /\ s.reading = IF s.model = "DS18B20"
                                  THEN delivered[s.identity]
                                  ELSE boschResults[s.model]

(* What a published round calls missing, whatever was plugged, pulled and     *)
(* searched meanwhile: a sensor that the search it read from has not found is *)
(* always missing, and one that it measured, however often and with whatever  *)
(* result, never is (temperature_service.c:235-279).                          *)
MissingFollowsTheRound ==
    task = "exit" =>
        \A i \in Slots : LET s == sensorSnapshots[i] IN
            s.model = "DS18B20" =>
                /\ s.identity \notin discovered => s.state = "MISSING"
                /\ (\E k \in DOMAIN measurements :
                        measurements[k].rom = s.identity) => s.state # "MISSING"

(* What README.md:108 says of a missing sensor: it is "absent from the        *)
(* latest discovery", here the one the published round has read.              *)
MissingMeansUndiscovered ==
    task = "exit" =>
        \A i \in Slots :
            sensorSnapshots[i].state = "MISSING" =>
                sensorSnapshots[i].identity \notin discovered

(* Room is left for the Bosch sensors: after the first round every Bosch     *)
(* sensor that was initialised has a number, however many DS18B20s there are *)
(* (temperature_service.h:20-21).                                            *)
BoschSensorsHaveNumbers ==
    ~critical /\ Slots # {} =>
        \A model \in boschRegistered : ModelSlots(model) # {}

(* No data older than the stale period is handed out as valid, unless it was *)
(* measured at tick zero.                                                    *)
ValidDataIsFresh ==
    ~critical => \A i \in Slots :
        /\ GetSnapshot(i).dataValid
        /\ sensorSnapshots[i].lastSuccess # 0
        => dataAge[i] <= StalePeriod

(* A DS18B20 that stays attached to a bus the search can enumerate, and that *)
(* always answers, ends up with a number and valid data.                     *)
Serviceable(rom) ==
    /\ rom \in attached
    /\ Cardinality(attached) <= MaxDs18b20
    /\ MaxDs18b20 <= BusCapacity
    /\ ~ForkUnderOneBranch(attached)
    /\ Ds18b20Slots(rom) # {} \/ Len(sensorSnapshots) < MaxDevices
    /\ \A k \in DOMAIN measurements : measurements[k].status = "OK"

AttachedSensorsArePublished ==
    \A rom \in Roms :
        (<>[][FALSE]_attached /\ <>[]Serviceable(rom)) =>
            <>[](\E i \in Ds18b20Slots(rom) :
                    sensorSnapshots[i].state = "AVAILABLE")

=============================================================================
