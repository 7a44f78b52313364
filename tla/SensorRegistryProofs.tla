------------------------ MODULE SensorRegistryProofs ------------------------
(***************************************************************************)
(* The safety properties of SensorRegistry, proved for every set of ROM    *)
(* codes, table size, number of sensors and failure threshold that its     *)
(* assumptions allow.                                                      *)
(***************************************************************************)
EXTENDS SensorRegistry, SequenceTheorems, TLAPS

----------------------------------------------------------------------------
(* What the operators on snapshots return.                                 *)

(* s2 is the snapshot of the same sensor as s1. *)
SameSensor(s1, s2) == s1.model = s2.model /\ s1.identity = s2.identity

(* s2 is s1 after the round that began at roundTick has dealt with it. *)
Updates(s1, s2) ==
    /\ s2 \in Snapshot
    /\ SameSensor(s1, s2)
    /\ ConsistentSnapshot(s2)
    /\ s2.lastAttempt = roundTick

LEMMA NewSnapshotType ==
    ASSUME NEW model \in {"DS18B20"} \union Bosch,
           NEW identity \in Roms \union {ZeroRom}
    PROVE  /\ NewSnapshot(model, identity) \in Snapshot
           /\ NewSnapshot(model, identity).model = model
           /\ NewSnapshot(model, identity).identity = identity
  BY FailureAssumption, TickAssumption
  DEF NewSnapshot, Snapshot, States, Errors, Ticks

LEMMA AttemptedType ==
    ASSUME NEW s \in Snapshot, roundTick \in Ticks, NEW valid \in BOOLEAN,
           NEW state \in States, NEW error \in Errors,
           NEW failures \in 0..FailureLimit, NEW success \in Ticks
    PROVE  LET t == Attempted(s, valid, state, error, failures, success) IN
           t \in Snapshot /\ SameSensor(s, t) /\ t.lastAttempt = roundTick
  BY DEF Attempted, Snapshot, SameSensor

LEMMA SucceededUpdates ==
    ASSUME NEW s \in Snapshot, roundTick \in Ticks
    PROVE  Updates(s, Succeeded(s))
  <1>1. /\ Succeeded(s) \in Snapshot
        /\ SameSensor(s, Succeeded(s))
        /\ Succeeded(s).lastAttempt = roundTick
      <2>1. /\ "AVAILABLE" \in States
            /\ "NONE" \in Errors
            /\ 0 \in 0..FailureLimit
          BY FailureAssumption DEF States, Errors
      <2>2. TRUE \in BOOLEAN
          BY Zenon
      <2> QED
          BY <2>1, <2>2, AttemptedType, Zenon DEF Succeeded
  <1>2. ConsistentSnapshot(Succeeded(s))
      BY DEF Succeeded, Attempted, ConsistentSnapshot
  <1> QED
      BY <1>1, <1>2 DEF Updates

LEMMA FailuresAfterRange ==
    ASSUME NEW s \in Snapshot
    PROVE  /\ FailuresAfter(s) \in 1..FailureLimit
           /\ FailuresAfter(s) \in 0..FailureLimit
           /\ FailuresAfter(s) \in Nat
  BY FailureAssumption DEF FailuresAfter, Snapshot

LEMMA FailedUpdates ==
    ASSUME NEW s \in Snapshot, roundTick \in Ticks,
           NEW error \in ReadStatus \union {"CONVERSION"}
    PROVE  Updates(s, Failed(s, error))
  <1> DEFINE unavailable == FailuresAfter(s) >= FailureThreshold
             valid == s.dataValid /\ ~unavailable
             state == IF unavailable THEN "UNAVAILABLE" ELSE "DEGRADED"
  <1>1. Failed(s, error) =
            Attempted(s, valid, state, error, FailuresAfter(s), s.lastSuccess)
      BY Zenon DEF Failed
  <1>2. valid \in BOOLEAN
      OBVIOUS
  <1>3. state \in States /\ error \in Errors /\ s.lastSuccess \in Ticks
      BY DEF States, Errors, ReadStatus, Snapshot
  <1>4. /\ FailuresAfter(s) \in 1..FailureLimit
        /\ FailuresAfter(s) \in 0..FailureLimit
        /\ FailuresAfter(s) \in Nat
      BY FailuresAfterRange
  <1>5. \/ unavailable /\ ~valid /\ state = "UNAVAILABLE"
        \/ FailuresAfter(s) \in 1..(FailureThreshold - 1) /\ state = "DEGRADED"
      BY <1>4, FailureAssumption
  <1>6. unavailable <=> FailuresAfter(s) >= FailureThreshold
      OBVIOUS
  <1> HIDE DEF unavailable, valid, state
  <1>7. /\ Failed(s, error) \in Snapshot
        /\ SameSensor(s, Failed(s, error))
        /\ Failed(s, error).lastAttempt = roundTick
      BY <1>1, <1>2, <1>3, <1>4, AttemptedType
  <1>8. /\ Failed(s, error).dataValid <=> valid
        /\ Failed(s, error).state = state
        /\ Failed(s, error).lastError = error
        /\ Failed(s, error).consecutiveFailures = FailuresAfter(s)
      BY <1>1, <1>2 DEF Attempted
  <1>9. ConsistentSnapshot(Failed(s, error))
      BY <1>5, <1>6, <1>8 DEF ConsistentSnapshot
  <1> QED
      BY <1>7, <1>9 DEF Updates

LEMMA MissingUpdates ==
    ASSUME NEW s \in Snapshot, s.model = "DS18B20", roundTick \in Ticks
    PROVE  Updates(s, Missing(s))
  <1>1. FailuresAfter(s) \in 0..FailureLimit /\ s.lastSuccess \in Ticks
      BY FailuresAfterRange DEF Snapshot
  <1>2. /\ Missing(s) \in Snapshot
        /\ SameSensor(s, Missing(s))
        /\ Missing(s).lastAttempt = roundTick
      BY <1>1, AttemptedType DEF Missing, States, Errors
  <1>3. ConsistentSnapshot(Missing(s))
      BY DEF Missing, Attempted, ConsistentSnapshot
  <1> QED
      BY <1>2, <1>3 DEF Updates

LEMMA MeasurementUpdates ==
    ASSUME NEW s \in Snapshot, NEW m \in Measurement, roundTick \in Ticks
    PROVE  Updates(s, WithMeasurement(s, m))
  <1>1. CASE m.status = "OK"
      <2> DEFINE read == [s EXCEPT !.reading = m.reading]
      <2>1. read \in Snapshot /\ SameSensor(s, read)
          BY DEF Measurement, Snapshot, SameSensor
      <2>2. WithMeasurement(s, m) = Succeeded(read)
          BY <1>1 DEF WithMeasurement, RecordResult
      <2> QED
          BY <2>1, <2>2, SucceededUpdates DEF Updates, SameSensor
  <1>2. CASE m.status # "OK"
      <2>1. m.status \in ReadStatus
          BY <1>2, FaultsAssumption DEF Measurement
      <2>2. WithMeasurement(s, m) = Failed(s, m.status)
          BY <1>2 DEF WithMeasurement, RecordResult, MapDs18b20Error
      <2> QED
          BY <2>1, <2>2, FailedUpdates
  <1> QED
      BY <1>1, <1>2

LEMMA BoschResultUpdates ==
    ASSUME NEW s \in Snapshot, NEW model \in Bosch, roundTick \in Ticks,
           boschResults \in [Bosch -> Readings \union {NoReading}]
    PROVE  Updates(s, WithBoschResult(s, model))
  <1> DEFINE copied == [s EXCEPT !.reading = boschResults[model]]
  <1>1. copied \in Snapshot /\ SameSensor(s, copied)
      BY DEF Snapshot, SameSensor
  <1>2. \/ WithBoschResult(s, model) = Succeeded(copied)
        \/ WithBoschResult(s, model) = Failed(copied, "CONVERSION")
      BY DEF WithBoschResult, RecordResult
  <1>3. Updates(copied, Succeeded(copied)) /\ Updates(copied, Failed(copied, "CONVERSION"))
      BY <1>1, SucceededUpdates, FailedUpdates
  <1> QED
      BY <1>1, <1>2, <1>3 DEF Updates, SameSensor

----------------------------------------------------------------------------
(* The inductive invariant, one named part per concern.                    *)

CriticalSteps == {"updateDS18B20", "updateBMx280", "updateBME680", "exit"}

(* Who holds the mutex, and who is inside the critical section. *)
LockInv ==
    /\ task = "convert" <=> oneWireMutex = "measure"
    /\ search # "idle" => oneWireMutex = "search"
    /\ critical <=> task \in CriticalSteps

(* The rows in use hold ROMs of devices. *)
TableInv == \A row \in 1..oneWireDeviceCount : oneWireDevices[row] \in Roms

(* The measurements of a round follow the rows of the table. *)
RoundInv ==
    task = "convert" =>
        /\ readCount <= oneWireDeviceCount
        /\ Len(measurements) <= readCount
        /\ \A k \in 1..Len(measurements) :
               measurements[k].rom = oneWireDevices[k]

TypeInv == TypeOK /\ LockInv /\ TableInv /\ RoundInv

(* Every published slot is consistent, and a Bosch sensor that has a slot    *)
(* was initialised, so that every round attempts it.                         *)
SlotInv ==
    \A i \in Slots :
        /\ ConsistentSnapshot(sensorSnapshots[i])
        /\ sensorSnapshots[i].model \in Bosch =>
               /\ sensorSnapshots[i].model \in boschRegistered
               /\ sensorSnapshots[i].identity = ZeroRom

(* The slots of the models that the round has finished with are attempted at *)
(* its tick.                                                                 *)
UpToDate(i) == sensorSnapshots[i].lastAttempt = roundTick

ModelUpToDate(model) == \A i \in ModelSlots(model) : UpToDate(i)

AttemptInv ==
    /\ ~critical =>
           \A i, j \in Slots :
               sensorSnapshots[i].lastAttempt = sensorSnapshots[j].lastAttempt
    /\ task = "updateDS18B20" =>
           \A i \in ds18b20Seen : i \in Slots /\ UpToDate(i)
    /\ task \in {"updateBMx280", "updateBME680", "exit"} => ModelUpToDate("DS18B20")
    /\ task \in {"updateBME680", "exit"} => ModelUpToDate("BMx280")
    /\ task = "exit" => ModelUpToDate("BME680")

ListInv == OneSlotPerSensor /\ SlotInv /\ AttemptInv

IInv == TypeInv /\ ListInv

----------------------------------------------------------------------------
(* Types.                                                                  *)

LEMMA FunctionIsSeq ==
    ASSUME NEW S, NEW n \in Nat, NEW f \in [1..n -> S]
    PROVE  f \in Seq(S) /\ Len(f) = n /\ DOMAIN f = 1..n
  <1>1. f \in Seq(S)
      BY SeqDef
  <1> QED
      BY <1>1, LenProperties

LEMMA AppendProps ==
    ASSUME NEW S, NEW q \in Seq(S), NEW e \in S
    PROVE  /\ Append(q, e) \in Seq(S)
           /\ Len(Append(q, e)) = Len(q) + 1
           /\ DOMAIN Append(q, e) = DOMAIN q \union {Len(q) + 1}
           /\ \A k \in DOMAIN q : Append(q, e)[k] = q[k]
           /\ Append(q, e)[Len(q) + 1] = e
  OBVIOUS

LEMMA ZeroRomIsRom == ZeroRom \in Roms \union {ZeroRom}
  OBVIOUS

LEMMA InitTypeInv == Init => TypeInv
  <1> SUFFICES ASSUME Init PROVE TypeInv
      OBVIOUS
  <1>1. SearchTypeOK
      BY RomBitsAssumption, BusCapacityAssumption
      DEF Init, SearchInit, SearchTypeOK
  <1>2. /\ oneWireMutex \in {"free", "search", "measure"}
        /\ task \in Steps
        /\ now \in Ticks /\ roundTick \in Ticks
        /\ readCount \in 0..MaxDs18b20
        /\ cursor \in Nat \ {0}
        /\ roundAge \in 0..MaxRound
      BY TickAssumption, MaxDs18b20Assumption DEF Init, Steps, Ticks
  <1>3. /\ measurements \in Seq(Measurement) /\ Len(measurements) = 0
        /\ sensorSnapshots \in Seq(Snapshot) /\ Len(sensorSnapshots) = 0
        /\ published \in Seq(Snapshot)
        /\ Len(sensorSnapshots) <= MaxDevices
      BY EmptySeq, MaxDs18b20Assumption DEF Init, MaxDevices
  <1>4. /\ boschResults \in [Bosch -> Readings \union {NoReading}]
        /\ boschStatus \in [Bosch -> {"SUCCESS", "ERROR"}]
        /\ boschRegistered \in SUBSET FittedBosch
        /\ ds18b20Seen \in SUBSET (1..MaxDevices)
        /\ discovered \subseteq Roms \union {ZeroRom}
        /\ delivered \in [Roms \union {ZeroRom} -> Readings \union {NoReading}]
        /\ dataAge \in [1..MaxDevices -> Nat]
      BY DEF Init
  <1>5. critical \in BOOLEAN
      BY Zenon DEF Init
  <1>6. LockInv /\ TableInv /\ RoundInv
      BY DEF Init, SearchInit, LockInv, CriticalSteps, TableInv, RoundInv
  <1> QED
      BY <1>1, <1>2, <1>3, <1>4, <1>5, <1>6 DEF TypeInv, TypeOK

(* A step of the search keeps the table's types, and every row in use a ROM. *)
LEMMA SearchStepType ==
    ASSUME SearchTypeOK, TableInv, SearchStep, UNCHANGED attached
    PROVE  /\ SearchTypeOK'
           /\ TableInv'
           /\ search \in {"idle", "enumerate"}
  <1> USE RomBitsAssumption, BusCapacityAssumption
  <1>1. CASE SearchFindsNoPresence
      BY <1>1 DEF SearchFindsNoPresence, ClearTable, SearchTypeOK, TableInv
  <1>2. CASE SearchBegins
      BY <1>2 DEF SearchBegins, ClearTable, SearchTypeOK, TableInv
  <1>3. CASE EnumerateDevice
      <2>1. PICK rom \in attached :
                oneWireDevices' =
                    [oneWireDevices EXCEPT ![oneWireDeviceCount + 1] = rom]
          BY <1>3 DEF EnumerateDevice
      <2>2. lastfork' \in 0..RomBits
          BY <1>3 DEF EnumerateDevice
      <2>3. /\ oneWireDeviceCount' = oneWireDeviceCount + 1
            /\ oneWireDeviceCount < BusCapacity
            /\ search = "enumerate" /\ search' = search
          BY <1>3 DEF EnumerateDevice
      <2>4. rom \in Roms
          BY <2>1 DEF SearchTypeOK
      <2> QED
          BY <2>1, <2>2, <2>3, <2>4 DEF SearchTypeOK, TableInv
  <1>4. CASE SearchEnds
      BY <1>4 DEF SearchEnds, SearchTypeOK, TableInv
  <1> QED
      BY <1>1, <1>2, <1>3, <1>4 DEF SearchStep

LEMMA AgeAfterType ==
    ASSUME TypeOK, NEW i, NEW s
    PROVE  AgeAfter(i, s) \in [1..MaxDevices -> Nat]
  <1>1. dataAge \in [1..MaxDevices -> Nat] /\ roundAge \in Nat
      BY TickAssumption DEF TypeOK
  <1> QED
      BY <1>1 DEF AgeAfter

(* What the Temperature task writes into the list keeps its type. *)
LEMMA WriteSlotType ==
    ASSUME TypeOK, NEW i \in Slots, NEW s \in Snapshot, WriteSlot(i, s)
    PROVE  /\ sensorSnapshots' \in Seq(Snapshot)
           /\ Len(sensorSnapshots') = Len(sensorSnapshots)
           /\ DOMAIN sensorSnapshots' = Slots
           /\ \A j \in Slots :
                  sensorSnapshots'[j] = IF j = i THEN s ELSE sensorSnapshots[j]
           /\ dataAge' \in [1..MaxDevices -> Nat]
  <1>1. /\ sensorSnapshots \in Seq(Snapshot)
        /\ Slots = 1..Len(sensorSnapshots)
        /\ sensorSnapshots' = [sensorSnapshots EXCEPT ![i] = s]
      BY LenProperties DEF TypeOK, Slots, WriteSlot
  <1>2. /\ sensorSnapshots' \in Seq(Snapshot)
        /\ Len(sensorSnapshots') = Len(sensorSnapshots)
        /\ \A j \in Slots :
               sensorSnapshots'[j] = IF j = i THEN s ELSE sensorSnapshots[j]
      BY <1>1, ExceptSeq
  <1>3. DOMAIN sensorSnapshots' = Slots
      BY <1>1
  <1>4. dataAge' \in [1..MaxDevices -> Nat]
      BY AgeAfterType DEF WriteSlot
  <1> QED
      BY <1>2, <1>3, <1>4

LEMMA AddSlotType ==
    ASSUME TypeOK, NEW s \in Snapshot, AddSlot(s), Len(sensorSnapshots) < MaxDevices
    PROVE  /\ sensorSnapshots' \in Seq(Snapshot)
           /\ Len(sensorSnapshots') = Len(sensorSnapshots) + 1
           /\ Len(sensorSnapshots') <= MaxDevices
           /\ DOMAIN sensorSnapshots' = Slots \union {Len(sensorSnapshots) + 1}
           /\ \A j \in Slots : sensorSnapshots'[j] = sensorSnapshots[j]
           /\ sensorSnapshots'[Len(sensorSnapshots) + 1] = s
           /\ Len(sensorSnapshots) + 1 \in 1..MaxDevices
           /\ dataAge' \in [1..MaxDevices -> Nat]
  <1>1. /\ sensorSnapshots \in Seq(Snapshot)
        /\ Len(sensorSnapshots) \in Nat
        /\ sensorSnapshots' = Append(sensorSnapshots, s)
      BY LenProperties DEF TypeOK, AddSlot
  <1>2. MaxDevices \in Nat
      BY MaxDs18b20Assumption DEF MaxDevices
  <1>3. /\ sensorSnapshots' \in Seq(Snapshot)
        /\ Len(sensorSnapshots') = Len(sensorSnapshots) + 1
        /\ DOMAIN sensorSnapshots' = Slots \union {Len(sensorSnapshots) + 1}
        /\ \A j \in Slots : sensorSnapshots'[j] = sensorSnapshots[j]
        /\ sensorSnapshots'[Len(sensorSnapshots) + 1] = s
      BY <1>1, AppendProps DEF Slots
  <1>4. dataAge' \in [1..MaxDevices -> Nat]
      BY AgeAfterType DEF AddSlot
  <1> QED
      BY <1>1, <1>2, <1>3, <1>4

LEMMA MarkMissingType ==
    ASSUME TypeOK, MarkMissing
    PROVE  /\ sensorSnapshots' \in Seq(Snapshot)
           /\ Len(sensorSnapshots') = Len(sensorSnapshots)
           /\ DOMAIN sensorSnapshots' = Slots
           /\ \A i \in Slots :
                  IF sensorSnapshots[i].model = "DS18B20" /\ i \notin ds18b20Seen
                      THEN Updates(sensorSnapshots[i], sensorSnapshots'[i])
                      ELSE sensorSnapshots'[i] = sensorSnapshots[i]
  <1>1. /\ Len(sensorSnapshots) \in Nat
        /\ Slots = 1..Len(sensorSnapshots)
        /\ roundTick \in Ticks
        /\ \A i \in Slots : sensorSnapshots[i] \in Snapshot
      BY LenProperties, ElementOfSeq DEF TypeOK, Slots
  <1>2. ASSUME NEW i \in Slots
        PROVE  /\ sensorSnapshots'[i] \in Snapshot
               /\ IF sensorSnapshots[i].model = "DS18B20" /\ i \notin ds18b20Seen
                      THEN Updates(sensorSnapshots[i], sensorSnapshots'[i])
                      ELSE sensorSnapshots'[i] = sensorSnapshots[i]
      <2>1. CASE sensorSnapshots[i].model = "DS18B20" /\ i \notin ds18b20Seen
          <3>1. sensorSnapshots'[i] = Missing(sensorSnapshots[i])
              BY <2>1 DEF MarkMissing
          <3>2. Updates(sensorSnapshots[i], Missing(sensorSnapshots[i]))
              BY <1>1, <2>1, MissingUpdates
          <3> QED
              BY <2>1, <3>1, <3>2 DEF Updates
      <2>2. CASE ~(sensorSnapshots[i].model = "DS18B20" /\ i \notin ds18b20Seen)
          <3>1. sensorSnapshots'[i] = sensorSnapshots[i]
              BY <2>2 DEF MarkMissing
          <3> QED
              BY <1>1, <2>2, <3>1
      <2> QED
          BY <2>1, <2>2
  <1>3. sensorSnapshots' \in [1..Len(sensorSnapshots) -> Snapshot]
      BY <1>1, <1>2 DEF MarkMissing
  <1>4. /\ sensorSnapshots' \in Seq(Snapshot)
        /\ Len(sensorSnapshots') = Len(sensorSnapshots)
        /\ DOMAIN sensorSnapshots' = Slots
      BY <1>1, <1>3, FunctionIsSeq
  <1> QED
      BY <1>2, <1>4

----------------------------------------------------------------------------
(* The two ways a round writes a sensor into the list.                     *)

SlotWritten(i, s) ==
    /\ i \in Slots
    /\ Updates(sensorSnapshots[i], s)
    /\ WriteSlot(i, s)

SlotAdded(s) ==
    /\ s \in Snapshot
    /\ ConsistentSnapshot(s)
    /\ s.lastAttempt = roundTick
    /\ Len(sensorSnapshots) < MaxDevices
    /\ AddSlot(s)

LEMMA SlotType ==
    ASSUME TypeOK, NEW i \in Slots
    PROVE  sensorSnapshots[i] \in Snapshot
  BY LenProperties, ElementOfSeq DEF TypeOK, Slots

LEMMA CursorMeasurement ==
    ASSUME TypeOK, cursor <= Len(measurements)
    PROVE  measurements[cursor] \in Measurement
  <1>1. measurements \in Seq(Measurement) /\ cursor \in 1..Len(measurements)
      BY LenProperties DEF TypeOK
  <1> QED
      BY <1>1, ElementOfSeq

LEMMA RefreshWrites ==
    ASSUME TypeOK, RefreshDs18b20
    PROVE  \E i \in Slots, s \in Snapshot :
               SlotWritten(i, s) /\ ds18b20Seen' = ds18b20Seen \union {i}
  <1> DEFINE m == measurements[cursor]
  <1>1. PICK i \in Slots :
            /\ WriteSlot(i, WithMeasurement(sensorSnapshots[i], m))
            /\ ds18b20Seen' = ds18b20Seen \union {i}
      BY DEF RefreshDs18b20
  <1>2. m \in Measurement
      BY CursorMeasurement DEF RefreshDs18b20, NextMeasurement
  <1>3. Updates(sensorSnapshots[i], WithMeasurement(sensorSnapshots[i], m))
      BY <1>2, SlotType, MeasurementUpdates DEF TypeOK
  <1> QED
      BY <1>1, <1>3 DEF SlotWritten, Updates

LEMMA RegisterAdds ==
    ASSUME TypeOK, RegisterDs18b20
    PROVE  \E s \in Snapshot :
               /\ SlotAdded(s)
               /\ s.model = "DS18B20"
               /\ Ds18b20Slots(s.identity) = {}
               /\ ds18b20Seen' = ds18b20Seen \union {Len(sensorSnapshots) + 1}
  <1> DEFINE m == measurements[cursor]
             new == NewSnapshot("DS18B20", m.rom)
             s == WithMeasurement(new, m)
  <1>1. /\ Ds18b20Slots(m.rom) = {}
        /\ Len(sensorSnapshots) < MaxDevices
        /\ AddSlot(s)
        /\ ds18b20Seen' = ds18b20Seen \union {Len(sensorSnapshots) + 1}
      BY DEF RegisterDs18b20
  <1>2. m \in Measurement
      BY CursorMeasurement DEF RegisterDs18b20, NextMeasurement
  <1>3. new \in Snapshot /\ new.model = "DS18B20" /\ new.identity = m.rom
      BY <1>2, NewSnapshotType DEF Measurement
  <1> HIDE DEF new, m
  <1>4. Updates(new, s)
      BY <1>2, <1>3, MeasurementUpdates DEF TypeOK
  <1> QED
      BY <1>1, <1>3, <1>4 DEF SlotAdded, Updates, SameSensor

LEMMA UpdateBoschWrites ==
    ASSUME TypeOK, NEW model \in Bosch, NEW from, NEW to,
           UpdateBosch(model, from, to)
    PROVE  \/ /\ UNCHANGED <<sensorSnapshots, dataAge>>
              /\ model \notin boschRegistered \/ ModelSlots(model) = {}
           \/ \E i \in ModelSlots(model), s \in Snapshot : SlotWritten(i, s)
           \/ /\ ModelSlots(model) = {}
              /\ model \in boschRegistered
              /\ \E s \in Snapshot :
                    SlotAdded(s) /\ s.model = model /\ s.identity = ZeroRom
  <1>1. boschResults \in [Bosch -> Readings \union {NoReading}] /\ roundTick \in Ticks
      BY DEF TypeOK
  <1>2. ASSUME NEW i \in Slots, IsFirst(i, ModelSlots(model)),
               WriteSlot(i, WithBoschResult(sensorSnapshots[i], model))
        PROVE  \E j \in ModelSlots(model), s \in Snapshot : SlotWritten(j, s)
      <2>1. Updates(sensorSnapshots[i], WithBoschResult(sensorSnapshots[i], model))
          BY <1>1, SlotType, BoschResultUpdates
      <2>2. i \in ModelSlots(model)
          BY <1>2 DEF IsFirst
      <2> QED
          BY <1>2, <2>1, <2>2 DEF SlotWritten, Updates
  <1>3. ASSUME Len(sensorSnapshots) < MaxDevices,
               AddSlot(WithBoschResult(NewSnapshot(model, ZeroRom), model))
        PROVE  \E s \in Snapshot :
                   SlotAdded(s) /\ s.model = model /\ s.identity = ZeroRom
      <2> DEFINE new == NewSnapshot(model, ZeroRom)
                 s == WithBoschResult(new, model)
      <2>1. new \in Snapshot /\ new.model = model /\ new.identity = ZeroRom
          BY NewSnapshotType
      <2> HIDE DEF new
      <2>2. Updates(new, s)
          BY <1>1, <2>1, BoschResultUpdates
      <2>3. AddSlot(s)
          BY <1>3 DEF new
      <2> QED
          BY <1>3, <2>1, <2>2, <2>3 DEF SlotAdded, Updates, SameSensor
  <1> QED
      BY <1>2, <1>3 DEF UpdateBosch

----------------------------------------------------------------------------
(* Every step keeps the types.  The table is untouched but for the search,   *)
(* which never runs while a round reads the table.                           *)

LEMMA EnvironmentType ==
    ASSUME TypeInv, Environment
    PROVE  TypeInv'
  <1> USE DEF TypeInv, searchVars, roundVars, listVars, timeVars, busVars
  <1>1. CASE Tick
      <2>1. now' \in Ticks /\ roundAge' \in 0..MaxRound
          BY <1>1, TickAssumption DEF Tick, TypeOK, Ticks
      <2>2. dataAge' \in [1..MaxDevices -> Nat]
          <3>1. dataAge \in [1..MaxDevices -> Nat]
              BY DEF TypeOK
          <3> QED
              BY <1>1, <3>1 DEF Tick
      <2>3. TypeOK'
          BY <1>1, <2>1, <2>2 DEF Tick, TypeOK, SearchTypeOK
      <2> QED
          BY <1>1, <2>3 DEF Tick, LockInv, TableInv, RoundInv
  <1>2. ASSUME NEW rom \in Roms, Plug(rom) \/ Unplug(rom)
        PROVE  TypeInv'
      <2>1. TypeOK'
          BY <1>2 DEF Plug, Unplug, TypeOK, SearchTypeOK
      <2> QED
          BY <1>2, <2>1 DEF Plug, Unplug, LockInv, TableInv, RoundInv
  <1> QED
      BY <1>1, <1>2 DEF Environment

LEMMA SearchTaskType ==
    ASSUME TypeInv, SearchTask
    PROVE  TypeInv'
  <1> USE DEF TypeInv, searchVars, roundVars, listVars, timeVars, busVars
  <1>1. CASE LockForSearch
      <2>1. TypeOK'
          BY <1>1 DEF LockForSearch, TypeOK, SearchTypeOK
      <2> QED
          BY <1>1, <2>1 DEF LockForSearch, LockInv, TableInv, RoundInv
  <1>2. CASE SearchBus
      <2>1. SearchTypeOK' /\ TableInv'
          BY <1>2, SearchStepType DEF SearchBus, TypeOK
      <2>2. TypeOK'
          BY <1>2, <2>1 DEF SearchBus, TypeOK
      <2>3. LockInv' /\ RoundInv'
          BY <1>2 DEF SearchBus, LockInv, RoundInv
      <2> QED
          BY <2>1, <2>2, <2>3
  <1>3. CASE UnlockAfterSearch
      <2>1. TypeOK'
          BY <1>3 DEF UnlockAfterSearch, TypeOK, SearchTypeOK
      <2> QED
          BY <1>3, <2>1 DEF UnlockAfterSearch, LockInv, TableInv, RoundInv
  <1> QED
      BY <1>1, <1>2, <1>3 DEF SearchTask

LEMMA MeasureType ==
    ASSUME TypeInv,
           \/ LockForMeasure \/ ConvertAndRead \/ UnlockAfterMeasure
           \/ MeasureBmx280 \/ MeasureBmx680 \/ StampRound
    PROVE  TypeInv'
  <1> USE DEF TypeInv, searchVars, roundVars, listVars, timeVars, busVars
  <1>1. CASE LockForMeasure
      <2>1. /\ readCount' \in 0..MaxDs18b20
            /\ readCount' <= oneWireDeviceCount
            /\ task' \in Steps
            /\ discovered' \subseteq Roms \union {ZeroRom}
          BY <1>1, MaxDs18b20Assumption, BusCapacityAssumption
          DEF LockForMeasure, TypeOK, SearchTypeOK, Steps, Found
      <2>2. measurements' \in Seq(Measurement) /\ Len(measurements') = 0
          BY <1>1, EmptySeq DEF LockForMeasure
      <2>3. TypeOK'
          BY <1>1, <2>1, <2>2 DEF LockForMeasure, TypeOK, SearchTypeOK
      <2>4. LockInv' /\ TableInv'
          BY <1>1 DEF LockForMeasure, LockInv, CriticalSteps, TableInv
      <2>5. RoundInv'
          BY <1>1, <2>1, <2>2 DEF LockForMeasure, TypeOK, RoundInv
      <2> QED
          BY <2>3, <2>4, <2>5
  <1>2. CASE ConvertAndRead
      <2> DEFINE next == Len(measurements) + 1
                 rom == oneWireDevices[next]
      <2>1. /\ measurements \in Seq(Measurement)
            /\ Len(measurements) \in Nat
            /\ next <= readCount
            /\ readCount <= oneWireDeviceCount
            /\ readCount \in Nat /\ oneWireDeviceCount \in Nat
            /\ task = "convert"
          BY <1>2, LenProperties, MaxDs18b20Assumption, BusCapacityAssumption
          DEF ConvertAndRead, RoundInv, TypeOK, SearchTypeOK
      <2>2. rom \in Roms
          BY <2>1 DEF TableInv
      <2>3. PICK m \in Measurement :
                m.rom = rom /\ measurements' = Append(measurements, m)
          <3>1. CASE \E value \in Readings :
                        measurements' = Append(measurements,
                            [rom |-> rom, status |-> "OK", reading |-> value])
              BY <2>2, <3>1 DEF Measurement
          <3>2. CASE \E fault \in Faults :
                        measurements' = Append(measurements,
                            [rom |-> rom, status |-> fault, reading |-> NoReading])
              BY <2>2, <3>2 DEF Measurement
          <3> QED
              BY <1>2, <3>1, <3>2 DEF ConvertAndRead
      <2>4. delivered' \in [Roms \union {ZeroRom} -> Readings \union {NoReading}]
          BY <1>2, <2>2 DEF ConvertAndRead, TypeOK
      <2>5. /\ measurements' \in Seq(Measurement)
            /\ Len(measurements') = next
            /\ \A k \in 1..Len(measurements) : measurements'[k] = measurements[k]
            /\ measurements'[next].rom = rom
          BY <2>1, <2>3, AppendProps
      <2>6. UNCHANGED <<busVars, oneWireMutex, task, readCount, discovered,
                        boschResults, boschStatus, boschRegistered, listVars,
                        timeVars, published>>
          BY <1>2 DEF ConvertAndRead
      <2>7. TypeOK'
          BY <2>4, <2>5, <2>6 DEF TypeOK, SearchTypeOK
      <2>8. LockInv' /\ TableInv'
          BY <2>6 DEF LockInv, TableInv
      <2>9. RoundInv'
          BY <2>1, <2>5, <2>6 DEF RoundInv
      <2> QED
          BY <2>7, <2>8, <2>9
  <1>3. CASE UnlockAfterMeasure
      <2>1. readCount' \in 0..MaxDs18b20 /\ task' \in Steps
          BY <1>3, MaxDs18b20Assumption DEF UnlockAfterMeasure, Steps
      <2>2. TypeOK'
          BY <1>3, <2>1 DEF UnlockAfterMeasure, TypeOK, SearchTypeOK
      <2> QED
          BY <1>3, <2>2
          DEF UnlockAfterMeasure, LockInv, CriticalSteps, TableInv, RoundInv
  <1>4. ASSUME NEW model \in Bosch, NEW from, NEW to,
               MeasureBosch(model, from, to),
               from \in Steps \ (CriticalSteps \union {"convert"}),
               to \in Steps \ (CriticalSteps \union {"convert"})
        PROVE  TypeInv'
      <2>1. /\ boschResults' \in [Bosch -> Readings \union {NoReading}]
            /\ boschStatus' \in [Bosch -> {"SUCCESS", "ERROR"}]
          BY <1>4 DEF MeasureBosch, TypeOK
      <2>2. TypeOK'
          BY <1>4, <2>1 DEF MeasureBosch, TypeOK, SearchTypeOK
      <2> QED
          BY <1>4, <2>2 DEF MeasureBosch, LockInv, TableInv, RoundInv
  <1>5. CASE MeasureBmx280
      BY <1>4, <1>5 DEF MeasureBmx280, Bosch, Steps, CriticalSteps
  <1>6. CASE MeasureBmx680
      BY <1>4, <1>6 DEF MeasureBmx680, Bosch, Steps, CriticalSteps
  <1>7. CASE StampRound
      <2>1. roundTick' \in Ticks /\ roundAge' \in 0..MaxRound /\ task' \in Steps
          BY <1>7, TickAssumption DEF StampRound, TypeOK, Steps
      <2>2. TypeOK'
          BY <1>7, <2>1 DEF StampRound, TypeOK, SearchTypeOK
      <2> QED
          BY <1>7, <2>2 DEF StampRound, LockInv, CriticalSteps, TableInv, RoundInv
  <1> QED
      BY <1>1, <1>2, <1>3, <1>5, <1>6, <1>7

(* What the steps inside the critical section leave alone. *)
LEMMA UpdateFrame ==
    ASSUME TypeInv,
           RefreshDs18b20 \/ RegisterDs18b20 \/ IgnoreDs18b20
           \/ MarkMissing \/ UpdateBmx280 \/ UpdateBmx680
    PROVE  /\ UNCHANGED <<busVars, oneWireMutex, roundVars, critical, roundTick,
                          now, roundAge, delivered, published>>
           /\ task \in CriticalSteps /\ task' \in CriticalSteps
           /\ cursor' \in Nat \ {0}
  BY DEF TypeInv, TypeOK, RefreshDs18b20, RegisterDs18b20, IgnoreDs18b20,
         NextMeasurement, MarkMissing, UpdateBmx280, UpdateBmx680, UpdateBosch,
         CriticalSteps, timeVars

LEMMA UpdateListType ==
    ASSUME TypeInv,
           RefreshDs18b20 \/ RegisterDs18b20 \/ IgnoreDs18b20
           \/ MarkMissing \/ UpdateBmx280 \/ UpdateBmx680
    PROVE  /\ sensorSnapshots' \in Seq(Snapshot)
           /\ Len(sensorSnapshots') <= MaxDevices
           /\ dataAge' \in [1..MaxDevices -> Nat]
           /\ ds18b20Seen' \in SUBSET (1..MaxDevices)
  <1>1. /\ TypeOK
        /\ sensorSnapshots \in Seq(Snapshot)
        /\ Len(sensorSnapshots) <= MaxDevices
        /\ dataAge \in [1..MaxDevices -> Nat]
        /\ ds18b20Seen \in SUBSET (1..MaxDevices)
        /\ Slots \subseteq 1..MaxDevices
      BY LenProperties, MaxDs18b20Assumption
      DEF TypeInv, TypeOK, Slots, MaxDevices
  <1>2. ASSUME NEW i \in Slots, NEW s \in Snapshot, SlotWritten(i, s)
        PROVE  /\ sensorSnapshots' \in Seq(Snapshot)
               /\ Len(sensorSnapshots') <= MaxDevices
               /\ dataAge' \in [1..MaxDevices -> Nat]
      BY <1>1, <1>2, WriteSlotType DEF SlotWritten
  <1>3. ASSUME NEW s \in Snapshot, SlotAdded(s)
        PROVE  /\ sensorSnapshots' \in Seq(Snapshot)
               /\ Len(sensorSnapshots') <= MaxDevices
               /\ dataAge' \in [1..MaxDevices -> Nat]
               /\ Len(sensorSnapshots) + 1 \in 1..MaxDevices
      BY <1>1, <1>3, AddSlotType DEF SlotAdded
  <1>4. CASE RefreshDs18b20
      BY <1>1, <1>2, <1>4, RefreshWrites
  <1>5. CASE RegisterDs18b20
      BY <1>1, <1>3, <1>5, RegisterAdds
  <1>6. CASE IgnoreDs18b20
      BY <1>1, <1>6 DEF IgnoreDs18b20
  <1>7. CASE MarkMissing
      <2>1. UNCHANGED <<dataAge, ds18b20Seen>>
          BY <1>7 DEF MarkMissing, timeVars
      <2> QED
          BY <1>1, <1>7, <2>1, MarkMissingType
  <1>8. ASSUME NEW model \in Bosch, NEW from, NEW to,
               UpdateBosch(model, from, to)
        PROVE  /\ sensorSnapshots' \in Seq(Snapshot)
               /\ Len(sensorSnapshots') <= MaxDevices
               /\ dataAge' \in [1..MaxDevices -> Nat]
               /\ ds18b20Seen' \in SUBSET (1..MaxDevices)
      <2>1. ds18b20Seen' = ds18b20Seen
          BY <1>8 DEF UpdateBosch
      <2>2. ModelSlots(model) \subseteq Slots
          BY DEF ModelSlots
      <2> QED
          BY <1>1, <1>2, <1>3, <1>8, <2>1, <2>2, UpdateBoschWrites
  <1>9. CASE UpdateBmx280
      BY <1>8, <1>9 DEF UpdateBmx280, Bosch
  <1>10. CASE UpdateBmx680
      BY <1>8, <1>10 DEF UpdateBmx680, Bosch
  <1> QED
      BY <1>4, <1>5, <1>6, <1>7, <1>9, <1>10

LEMMA UpdateType ==
    ASSUME TypeInv, UpdateSnapshots
    PROVE  TypeInv'
  <1> USE DEF TypeInv, searchVars, roundVars, busVars
  <1>1. CASE EnterCritical
      <2>1. critical' \in BOOLEAN
          BY <1>1, Zenon DEF EnterCritical
      <2>2. task' \in Steps /\ cursor' \in Nat \ {0} /\ ds18b20Seen' \in SUBSET (1..MaxDevices)
          BY <1>1 DEF EnterCritical, Steps
      <2>3. TypeOK'
          BY <1>1, <2>1, <2>2 DEF EnterCritical, TypeOK, SearchTypeOK, timeVars
      <2> QED
          BY <1>1, <2>3 DEF EnterCritical, LockInv, CriticalSteps, TableInv, RoundInv
  <1>2. CASE \/ RefreshDs18b20 \/ RegisterDs18b20 \/ IgnoreDs18b20
             \/ MarkMissing \/ UpdateBmx280 \/ UpdateBmx680
      <2>1. /\ UNCHANGED <<busVars, oneWireMutex, roundVars, critical, roundTick,
                           now, roundAge, delivered, published>>
            /\ task \in CriticalSteps /\ task' \in CriticalSteps
            /\ cursor' \in Nat \ {0}
          BY <1>2, UpdateFrame
      <2>2. task' \in Steps
          BY <2>1 DEF CriticalSteps, Steps
      <2>3. /\ sensorSnapshots' \in Seq(Snapshot)
            /\ Len(sensorSnapshots') <= MaxDevices
            /\ dataAge' \in [1..MaxDevices -> Nat]
            /\ ds18b20Seen' \in SUBSET (1..MaxDevices)
          BY <1>2, UpdateListType
      <2>4. TypeOK'
          BY <2>1, <2>2, <2>3 DEF TypeOK, SearchTypeOK
      <2> QED
          BY <2>1, <2>4 DEF LockInv, CriticalSteps, TableInv, RoundInv
  <1>3. CASE ExitCritical
      <2>1. critical' \in BOOLEAN
          BY <1>3, Zenon DEF ExitCritical
      <2>2. /\ task' \in Steps
            /\ roundTick' \in Ticks
            /\ cursor' \in Nat \ {0}
            /\ ds18b20Seen' \in SUBSET (1..MaxDevices)
            /\ boschStatus' \in [Bosch -> {"SUCCESS", "ERROR"}]
          BY <1>3, TickAssumption DEF ExitCritical, Steps, Ticks
      <2>3. measurements' \in Seq(Measurement)
          BY <1>3, EmptySeq DEF ExitCritical
      <2>4. TypeOK'
          BY <1>3, <2>1, <2>2, <2>3 DEF ExitCritical, TypeOK, SearchTypeOK, timeVars
      <2> QED
          BY <1>3, <2>4 DEF ExitCritical, LockInv, CriticalSteps, TableInv, RoundInv
  <1> QED
      BY <1>1, <1>2, <1>3 DEF UpdateSnapshots

LEMMA NextTypeInv == TypeInv /\ [Next]_vars => TypeInv'
  <1> SUFFICES ASSUME TypeInv, [Next]_vars PROVE TypeInv'
      OBVIOUS
  <1>1. CASE UNCHANGED vars
      BY <1>1 DEF vars, busVars, searchVars, roundVars, listVars, timeVars, TypeInv,
                  TypeOK, SearchTypeOK, LockInv, CriticalSteps, TableInv, RoundInv
  <1> QED
      BY <1>1, EnvironmentType, SearchTaskType, MeasureType, UpdateType
      DEF Next, TemperatureTask

----------------------------------------------------------------------------
(* The type invariant of modules OneWireSearch and SensorRegistry: the list  *)
(* never outgrows SENSOR_SERVICE_MAX_DEVICES, the table its rows, and every  *)
(* snapshot is well formed (temperature_service.c:224-348).                  *)
THEOREM RegistryTypeCorrect == Spec => []TypeOK
  <1>1. TypeInv => TypeOK
      BY DEF TypeInv
  <1> QED
      BY <1>1, InitTypeInv, NextTypeInv, PTL DEF Spec

(* No search rebuilds the table while a round reads it: the mutex makes the  *)
(* rows of a round those of one search (ds18b20.c:50-71).                    *)
THEOREM RoundsReadOneSearch == Spec => []RoundReadsOneSearch
  <1>1. TypeInv => RoundReadsOneSearch
      <2> SUFFICES ASSUME TypeInv, task = "convert"
                   PROVE  /\ search # "enumerate"
                          /\ readCount <= oneWireDeviceCount
                          /\ \A k \in DOMAIN measurements :
                                 measurements[k].rom = oneWireDevices[k]
          BY DEF RoundReadsOneSearch
      <2>1. DOMAIN measurements = 1..Len(measurements)
          BY LenProperties DEF TypeInv, TypeOK
      <2> QED
          BY <2>1 DEF TypeInv, LockInv, RoundInv
  <1> QED
      BY <1>1, InitTypeInv, NextTypeInv, PTL DEF Spec

----------------------------------------------------------------------------
(* The published list.                                                     *)

(* Slots keep their sensor and are not set back to an earlier round. *)
ListGrows ==
    /\ Slots \subseteq DOMAIN sensorSnapshots'
    /\ \A j \in Slots :
          /\ SameSensor(sensorSnapshots[j], sensorSnapshots'[j])
          /\ sensorSnapshots[j].lastAttempt = roundTick =>
                 sensorSnapshots'[j].lastAttempt = roundTick

LEMMA AfterWrite ==
    ASSUME TypeOK, OneSlotPerSensor, SlotInv, UNCHANGED boschRegistered,
           NEW i \in Slots, NEW s \in Snapshot, SlotWritten(i, s)
    PROVE  /\ OneSlotPerSensor'
           /\ SlotInv'
           /\ ListGrows
           /\ DOMAIN sensorSnapshots' = Slots
           /\ sensorSnapshots'[i].lastAttempt = roundTick
  <1>1. /\ DOMAIN sensorSnapshots' = Slots
        /\ Slots' = Slots
        /\ \A j \in Slots :
               sensorSnapshots'[j] = IF j = i THEN s ELSE sensorSnapshots[j]
      BY WriteSlotType DEF SlotWritten, Slots
  <1>2. /\ SameSensor(sensorSnapshots[i], s)
        /\ ConsistentSnapshot(s)
        /\ s.lastAttempt = roundTick
      BY DEF SlotWritten, Updates
  <1>3. \A j \in Slots : SameSensor(sensorSnapshots[j], sensorSnapshots'[j])
      BY <1>1, <1>2 DEF SameSensor
  <1>4. OneSlotPerSensor'
      BY <1>1, <1>3 DEF OneSlotPerSensor, SameSensor
  <1>5. SlotInv'
      <2> SUFFICES ASSUME NEW j \in Slots
                   PROVE  /\ ConsistentSnapshot(sensorSnapshots'[j])
                          /\ sensorSnapshots'[j].model \in Bosch =>
                                 /\ sensorSnapshots'[j].model \in boschRegistered
                                 /\ sensorSnapshots'[j].identity = ZeroRom
          BY <1>1 DEF SlotInv, ConsistentSnapshot
      <2>1. ConsistentSnapshot(sensorSnapshots'[j])
          BY <1>1, <1>2 DEF SlotInv
      <2> QED
          BY <1>3, <2>1 DEF SlotInv, SameSensor
  <1> QED
      BY <1>1, <1>2, <1>3, <1>4, <1>5 DEF ListGrows

LEMMA AfterAdd ==
    ASSUME TypeOK, OneSlotPerSensor, SlotInv, UNCHANGED boschRegistered,
           NEW s \in Snapshot, SlotAdded(s),
           \A j \in Slots : ~SameSensor(sensorSnapshots[j], s),
           s.model \in Bosch => s.model \in boschRegistered /\ s.identity = ZeroRom
    PROVE  /\ OneSlotPerSensor'
           /\ SlotInv'
           /\ ListGrows
           /\ DOMAIN sensorSnapshots' = Slots \union {Len(sensorSnapshots) + 1}
           /\ sensorSnapshots'[Len(sensorSnapshots) + 1].lastAttempt = roundTick
           /\ sensorSnapshots'[Len(sensorSnapshots) + 1].model = s.model
  <1> DEFINE new == Len(sensorSnapshots) + 1
  <1>1. /\ DOMAIN sensorSnapshots' = Slots \union {new}
        /\ Slots' = Slots \union {new}
        /\ \A j \in Slots : sensorSnapshots'[j] = sensorSnapshots[j]
        /\ sensorSnapshots'[new] = s
      BY AddSlotType DEF SlotAdded, Slots
  <1>2. ConsistentSnapshot(s) /\ s.lastAttempt = roundTick
      BY DEF SlotAdded
  <1> HIDE DEF new
  <1>3. OneSlotPerSensor'
      BY <1>1 DEF OneSlotPerSensor, SameSensor
  <1>4. SlotInv'
      <2> SUFFICES ASSUME NEW j \in Slots \union {new}
                   PROVE  /\ ConsistentSnapshot(sensorSnapshots'[j])
                          /\ sensorSnapshots'[j].model \in Bosch =>
                                 /\ sensorSnapshots'[j].model \in boschRegistered
                                 /\ sensorSnapshots'[j].identity = ZeroRom
          BY <1>1 DEF SlotInv, ConsistentSnapshot
      <2> QED
          BY <1>1, <1>2 DEF SlotInv
  <1> QED
      BY <1>1, <1>2, <1>3, <1>4 DEF ListGrows, SameSensor, new

LEMMA InitListInv == Init => ListInv
  BY DEF Init, ListInv, OneSlotPerSensor, SlotInv, AttemptInv, Slots

(* Outside UpdateSnapshots nothing touches the list. *)
LEMMA OtherStepsList ==
    ASSUME TypeInv, ListInv,
           \/ Environment \/ SearchTask
           \/ LockForMeasure \/ ConvertAndRead \/ UnlockAfterMeasure
           \/ MeasureBmx280 \/ MeasureBmx680 \/ StampRound
           \/ EnterCritical
           \/ UNCHANGED vars
    PROVE  ListInv' /\ UNCHANGED sensorSnapshots
  <1> USE DEF busVars, searchVars, roundVars, listVars, timeVars
  <1>1. CASE Environment \/ SearchTask \/ UNCHANGED vars
      <2>1. UNCHANGED <<sensorSnapshots, boschRegistered, critical, task,
                        roundTick, ds18b20Seen>>
          BY <1>1
          DEF Environment, Tick, Plug, Unplug, SearchTask, LockForSearch, SearchBus,
              UnlockAfterSearch, vars
      <2> QED
          BY <2>1
          DEF ListInv, OneSlotPerSensor, SlotInv, AttemptInv, Slots, ModelUpToDate,
              ModelSlots, UpToDate, ConsistentSnapshot
  <1>2. CASE \/ LockForMeasure \/ ConvertAndRead \/ UnlockAfterMeasure
             \/ MeasureBmx280 \/ MeasureBmx680 \/ StampRound
      <2>1. /\ UNCHANGED <<sensorSnapshots, boschRegistered, critical>>
            /\ task \notin CriticalSteps /\ task' \notin CriticalSteps
          BY <1>2
          DEF LockForMeasure, ConvertAndRead, UnlockAfterMeasure, MeasureBmx280,
              MeasureBmx680, MeasureBosch, StampRound, CriticalSteps
      <2> QED
          BY <2>1
          DEF ListInv, OneSlotPerSensor, SlotInv, AttemptInv, Slots,
              ConsistentSnapshot, CriticalSteps
  <1>3. CASE EnterCritical
      <2>1. /\ UNCHANGED <<sensorSnapshots, boschRegistered>>
            /\ critical'
            /\ task' = "updateDS18B20"
            /\ ds18b20Seen' = {}
          BY <1>3, Zenon DEF EnterCritical
      <2> QED
          BY <2>1
          DEF ListInv, OneSlotPerSensor, SlotInv, AttemptInv, Slots, ConsistentSnapshot
  <1> QED
      BY <1>1, <1>2, <1>3

LEMMA MeasuredList ==
    ASSUME TypeInv, ListInv, RefreshDs18b20 \/ RegisterDs18b20 \/ IgnoreDs18b20
    PROVE  ListInv' /\ ListGrows
  <1>1. /\ UNCHANGED <<boschRegistered, roundTick, critical>>
        /\ task = "updateDS18B20" /\ task' = "updateDS18B20"
        /\ critical
        /\ TypeOK
      BY DEF TypeInv, LockInv, CriticalSteps, RefreshDs18b20, RegisterDs18b20,
             IgnoreDs18b20, NextMeasurement, roundVars
  <1>2. /\ OneSlotPerSensor /\ SlotInv
        /\ \A i \in ds18b20Seen : i \in Slots /\ UpToDate(i)
      BY <1>1 DEF ListInv, AttemptInv
  <1>3. SUFFICES /\ OneSlotPerSensor' /\ SlotInv' /\ ListGrows
                 /\ \A i \in ds18b20Seen' :
                        i \in DOMAIN sensorSnapshots'
                        /\ sensorSnapshots'[i].lastAttempt = roundTick
      BY <1>1 DEF ListInv, AttemptInv, Slots, UpToDate
  <1>4. CASE RefreshDs18b20
      <2>1. PICK i \in Slots, s \in Snapshot :
                SlotWritten(i, s) /\ ds18b20Seen' = ds18b20Seen \union {i}
          BY <1>1, <1>4, RefreshWrites
      <2>2. /\ OneSlotPerSensor' /\ SlotInv' /\ ListGrows
            /\ DOMAIN sensorSnapshots' = Slots
            /\ sensorSnapshots'[i].lastAttempt = roundTick
          BY <1>1, <1>2, <2>1, AfterWrite
      <2> QED
          BY <1>2, <2>1, <2>2 DEF ListGrows, UpToDate
  <1>5. CASE RegisterDs18b20
      <2>1. PICK s \in Snapshot :
                /\ SlotAdded(s)
                /\ s.model = "DS18B20"
                /\ Ds18b20Slots(s.identity) = {}
                /\ ds18b20Seen' = ds18b20Seen \union {Len(sensorSnapshots) + 1}
          BY <1>1, <1>5, RegisterAdds
      <2>2. \A j \in Slots : ~SameSensor(sensorSnapshots[j], s)
          BY <2>1 DEF Ds18b20Slots, SameSensor
      <2>3. s.model \notin Bosch
          BY <2>1 DEF Bosch
      <2>4. /\ OneSlotPerSensor' /\ SlotInv' /\ ListGrows
            /\ DOMAIN sensorSnapshots' = Slots \union {Len(sensorSnapshots) + 1}
            /\ sensorSnapshots'[Len(sensorSnapshots) + 1].lastAttempt = roundTick
          BY <1>1, <1>2, <2>1, <2>2, <2>3, AfterAdd
      <2> QED
          BY <1>2, <2>1, <2>4 DEF ListGrows, UpToDate
  <1>6. CASE IgnoreDs18b20
      <2>1. UNCHANGED <<sensorSnapshots, ds18b20Seen>>
          BY <1>6 DEF IgnoreDs18b20
      <2> QED
          BY <1>1, <1>2, <2>1
          DEF OneSlotPerSensor, SlotInv, Slots, ConsistentSnapshot, ListGrows,
              SameSensor, UpToDate
  <1> QED
      BY <1>4, <1>5, <1>6

LEMMA MissingList ==
    ASSUME TypeInv, ListInv, MarkMissing
    PROVE  ListInv' /\ ListGrows
  <1>1. /\ UNCHANGED <<boschRegistered, roundTick, critical>>
        /\ task = "updateDS18B20" /\ task' = "updateBMx280"
        /\ critical
        /\ TypeOK
      BY DEF TypeInv, LockInv, CriticalSteps, MarkMissing, roundVars
  <1>2. /\ OneSlotPerSensor /\ SlotInv
        /\ \A i \in ds18b20Seen : i \in Slots /\ UpToDate(i)
      BY <1>1 DEF ListInv, AttemptInv
  <1>3. /\ DOMAIN sensorSnapshots' = Slots
        /\ Slots' = Slots
        /\ \A i \in Slots :
               IF sensorSnapshots[i].model = "DS18B20" /\ i \notin ds18b20Seen
                   THEN Updates(sensorSnapshots[i], sensorSnapshots'[i])
                   ELSE sensorSnapshots'[i] = sensorSnapshots[i]
      BY <1>1, MarkMissingType DEF Slots
  <1>4. ASSUME NEW i \in Slots
        PROVE  /\ SameSensor(sensorSnapshots[i], sensorSnapshots'[i])
               /\ ConsistentSnapshot(sensorSnapshots'[i])
               /\ UpToDate(i) => sensorSnapshots'[i].lastAttempt = roundTick
               /\ sensorSnapshots[i].model = "DS18B20" =>
                      sensorSnapshots'[i].lastAttempt = roundTick
      BY <1>2, <1>3 DEF SlotInv, Updates, SameSensor, UpToDate
  <1>5. OneSlotPerSensor'
      BY <1>2, <1>3, <1>4 DEF OneSlotPerSensor, SameSensor
  <1>6. SlotInv'
      <2> SUFFICES ASSUME NEW i \in Slots
                   PROVE  /\ ConsistentSnapshot(sensorSnapshots'[i])
                          /\ sensorSnapshots'[i].model \in Bosch =>
                                 /\ sensorSnapshots'[i].model \in boschRegistered
                                 /\ sensorSnapshots'[i].identity = ZeroRom
          BY <1>1, <1>3 DEF SlotInv, ConsistentSnapshot
      <2> QED
          BY <1>2, <1>4 DEF SlotInv, SameSensor
  <1>7. AttemptInv'
      <2>1. \A i \in Slots : sensorSnapshots'[i].model = "DS18B20" =>
                                  sensorSnapshots'[i].lastAttempt = roundTick'
          BY <1>1, <1>4 DEF SameSensor
      <2> QED
          BY <1>1, <1>3, <2>1 DEF AttemptInv, ModelUpToDate, ModelSlots, UpToDate
  <1> QED
      BY <1>3, <1>4, <1>5, <1>6, <1>7 DEF ListInv, ListGrows, UpToDate

LEMMA BoschList ==
    ASSUME TypeInv, ListInv, NEW model \in Bosch, NEW from, NEW to,
           UpdateBosch(model, from, to)
    PROVE  /\ OneSlotPerSensor' /\ SlotInv' /\ ListGrows
           /\ ModelUpToDate(model)'
           /\ \A other \in {"DS18B20"} \union Bosch :
                  ModelUpToDate(other) => ModelUpToDate(other)'
  <1>1. /\ UNCHANGED <<boschRegistered, roundTick>>
        /\ TypeOK /\ OneSlotPerSensor /\ SlotInv
      BY DEF TypeInv, ListInv, UpdateBosch, roundVars
  <1>2. CASE /\ UNCHANGED <<sensorSnapshots, dataAge>>
             /\ model \notin boschRegistered \/ ModelSlots(model) = {}
      <2>1. ModelSlots(model) = {}
          BY <1>1, <1>2 DEF SlotInv, ModelSlots
      <2> QED
          BY <1>1, <1>2, <2>1
          DEF OneSlotPerSensor, SlotInv, Slots, ConsistentSnapshot, ListGrows,
              SameSensor, ModelUpToDate, ModelSlots, UpToDate
  <1>3. CASE \E i \in ModelSlots(model), s \in Snapshot : SlotWritten(i, s)
      <2>1. PICK i \in ModelSlots(model), s \in Snapshot : SlotWritten(i, s)
          BY <1>3
      <2>2. i \in Slots /\ sensorSnapshots[i].model = model
          BY <2>1 DEF ModelSlots
      <2>3. /\ OneSlotPerSensor' /\ SlotInv' /\ ListGrows
            /\ DOMAIN sensorSnapshots' = Slots
            /\ sensorSnapshots'[i].lastAttempt = roundTick
          BY <1>1, <2>1, <2>2, AfterWrite
      <2>4. \A j \in ModelSlots(model) : j = i
          BY <1>1, <2>2 DEF ModelSlots, SlotInv, OneSlotPerSensor
      <2>5. \A j \in Slots : sensorSnapshots'[j].model = sensorSnapshots[j].model
          BY <2>3 DEF ListGrows, SameSensor
      <2> QED
          BY <1>1, <2>3, <2>4, <2>5
          DEF ModelUpToDate, ModelSlots, UpToDate, ListGrows, Slots
  <1>4. CASE /\ ModelSlots(model) = {}
             /\ model \in boschRegistered
             /\ \E s \in Snapshot :
                   SlotAdded(s) /\ s.model = model /\ s.identity = ZeroRom
      <2> DEFINE new == Len(sensorSnapshots) + 1
      <2>1. PICK s \in Snapshot :
                SlotAdded(s) /\ s.model = model /\ s.identity = ZeroRom
          BY <1>4
      <2>2. \A j \in Slots : ~SameSensor(sensorSnapshots[j], s)
          BY <1>4, <2>1 DEF ModelSlots, SameSensor
      <2>3. /\ OneSlotPerSensor' /\ SlotInv' /\ ListGrows
            /\ DOMAIN sensorSnapshots' = Slots \union {new}
            /\ sensorSnapshots'[new].lastAttempt = roundTick
            /\ sensorSnapshots'[new].model = model
          BY <1>1, <1>4, <2>1, <2>2, AfterAdd
      <2> HIDE DEF new
      <2>4. \A j \in Slots : sensorSnapshots'[j].model = sensorSnapshots[j].model
          BY <2>3 DEF ListGrows, SameSensor
      <2> QED
          BY <1>1, <1>4, <2>3, <2>4
          DEF ModelUpToDate, ModelSlots, UpToDate, ListGrows, Slots
  <1> QED
      BY <1>1, <1>2, <1>3, <1>4, UpdateBoschWrites

LEMMA UpdateBmx280List ==
    ASSUME TypeInv, ListInv, UpdateBmx280
    PROVE  ListInv' /\ ListGrows
  <1>1. /\ task = "updateBMx280" /\ task' = "updateBME680"
        /\ critical' = critical
        /\ critical
      BY DEF TypeInv, LockInv, CriticalSteps, UpdateBmx280, UpdateBosch
  <1>2. ModelUpToDate("DS18B20")
      BY <1>1 DEF ListInv, AttemptInv
  <1>3. /\ OneSlotPerSensor' /\ SlotInv' /\ ListGrows
        /\ ModelUpToDate("BMx280")'
        /\ ModelUpToDate("DS18B20")'
      BY <1>2, BoschList DEF UpdateBmx280, Bosch
  <1> QED
      BY <1>1, <1>3 DEF ListInv, AttemptInv

LEMMA UpdateBmx680List ==
    ASSUME TypeInv, ListInv, UpdateBmx680
    PROVE  ListInv' /\ ListGrows
  <1>1. /\ task = "updateBME680" /\ task' = "exit"
        /\ critical' = critical
        /\ critical
      BY DEF TypeInv, LockInv, CriticalSteps, UpdateBmx680, UpdateBosch
  <1>2. ModelUpToDate("DS18B20") /\ ModelUpToDate("BMx280")
      BY <1>1 DEF ListInv, AttemptInv
  <1>3. /\ OneSlotPerSensor' /\ SlotInv' /\ ListGrows
        /\ ModelUpToDate("BME680")'
        /\ ModelUpToDate("BMx280")'
        /\ ModelUpToDate("DS18B20")'
      BY <1>2, BoschList DEF UpdateBmx680, Bosch
  <1> QED
      BY <1>1, <1>3 DEF ListInv, AttemptInv

(* When the critical section ends, every slot is of a model that the round   *)
(* has finished with.                                                        *)
LEMMA ExitList ==
    ASSUME TypeInv, ListInv, ExitCritical
    PROVE  ListInv' /\ UNCHANGED sensorSnapshots
  <1>1. /\ UNCHANGED <<sensorSnapshots, boschRegistered>>
        /\ task = "exit" /\ task' = "delay"
      BY DEF ExitCritical
  <1>2. \A model \in {"DS18B20"} \union Bosch : ModelUpToDate(model)
      BY <1>1 DEF ListInv, AttemptInv, Bosch
  <1>3. \A i \in Slots : sensorSnapshots[i].model \in {"DS18B20"} \union Bosch
      BY SlotType DEF TypeInv, Snapshot
  <1>4. \A i \in Slots : sensorSnapshots[i].lastAttempt = roundTick
      BY <1>2, <1>3 DEF ModelUpToDate, ModelSlots, UpToDate
  <1>5. AttemptInv'
      BY <1>1, <1>4 DEF AttemptInv, Slots
  <1> QED
      BY <1>1, <1>5
      DEF ListInv, OneSlotPerSensor, SlotInv, Slots, ConsistentSnapshot

LEMMA NextIInv ==
    ASSUME IInv, [Next]_vars
    PROVE  IInv' /\ (UNCHANGED sensorSnapshots \/ ListGrows)
  <1>1. TypeInv'
      BY NextTypeInv DEF IInv
  <1>2. ListInv' /\ (UNCHANGED sensorSnapshots \/ ListGrows)
      BY OtherStepsList, MeasuredList, MissingList, UpdateBmx280List,
         UpdateBmx680List, ExitList
      DEF IInv, Next, TemperatureTask, UpdateSnapshots
  <1> QED
      BY <1>1, <1>2 DEF IInv

THEOREM RegistryInvariant == Spec => []IInv
  <1>1. Init => IInv
      BY InitTypeInv, InitListInv DEF IInv
  <1>2. IInv /\ [Next]_vars => IInv'
      BY NextIInv
  <1> QED
      BY <1>1, <1>2, PTL DEF Spec

(* One physical sensor has one number, whatever the search repeats, however  *)
(* often sensors come and go, and with the list full                         *)
(* (temperature_service.c:235-253, 286-304, 320-334).                        *)
THEOREM SensorsHaveOneSlot == Spec => []OneSlotPerSensor
  <1>1. IInv => OneSlotPerSensor
      BY DEF IInv, ListInv
  <1> QED
      BY <1>1, RegistryInvariant, PTL

(* A number stays with its sensor for ever (README.md:59-61). *)
THEOREM SensorNumbersAreStable == Spec => NumbersAreStable
  <1>1. IInv /\ [Next]_vars =>
            [/\ Slots \subseteq DOMAIN sensorSnapshots'
             /\ \A i \in Slots :
                   /\ sensorSnapshots[i].model = sensorSnapshots'[i].model
                   /\ sensorSnapshots[i].identity = sensorSnapshots'[i].identity
            ]_sensorSnapshots
      BY NextIInv DEF ListGrows, SameSensor
  <1> QED
      BY <1>1, RegistryInvariant, PTL DEF Spec, NumbersAreStable

(* Whoever reads the list outside the critical section finds consistent      *)
(* snapshots, all of one round (temperature_service.c:230-347).              *)
THEOREM SnapshotsAreConsistent == Spec => []ReadersSeeConsistentSnapshots
  <1>1. IInv => ReadersSeeConsistentSnapshots
      BY DEF IInv, ListInv, SlotInv, AttemptInv, ReadersSeeConsistentSnapshots
  <1> QED
      BY <1>1, RegistryInvariant, PTL
=============================================================================
