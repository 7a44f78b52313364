-------------------------- MODULE SensorListProofs --------------------------
(***************************************************************************)
(* What the readers of the sensor list may rely on, proved for every       *)
(* instance of SensorRegistry: the data is its sensor's own and fresh, a   *)
(* sensor the search has not found is missing and a measured one is not,   *)
(* the Bosch sensors always have room, and every published list follows    *)
(* from the one before it by one whole round, as SensorList says.          *)
(***************************************************************************)
EXTENDS SensorListRefinement, SensorRegistryProofs

AfterDs18b20 == {"updateBMx280", "updateBME680", "exit"}

----------------------------------------------------------------------------
(* The inductive invariant, one named part per concern.                    *)

(* The measurements of one round, and how far UpdateSnapshots has come. *)
MeasureInv ==
    /\ Len(measurements) <= MaxDs18b20
    /\ \A k \in 1..Len(measurements) :
           measurements[k].status = "OK" => measurements[k].reading \in Readings
    /\ task = "delay" => measurements = <<>>
    /\ task \notin CriticalSteps => cursor = 1
    /\ cursor <= Len(measurements) + 1
    /\ task \in AfterDs18b20 => cursor = Len(measurements) + 1

(* The list has room for what this round may still add. *)
Numbered == \A model \in boschRegistered : ModelSlots(model) # {}

RoomInv ==
    /\ task \notin CriticalSteps => Slots = {} \/ Numbered
    /\ task = "updateDS18B20" => Len(sensorSnapshots) <= cursor - 1 \/ Numbered
    /\ task = "updateBMx280" => Len(sensorSnapshots) <= MaxDs18b20 \/ Numbered
    /\ task = "updateBME680" =>
           \/ /\ Len(sensorSnapshots) <= MaxDs18b20 + 1
              /\ "BMx280" \in boschRegistered => ModelSlots("BMx280") # {}
           \/ Numbered
    /\ task = "exit" => Numbered

(* A slot of a DS18B20 is marked as seen by the measurements looked at. *)
Measured(rom, n) == \E k \in 1..n : measurements[k].rom = rom

SeenInv ==
    /\ \A i \in Slots : sensorSnapshots[i].model = "DS18B20" =>
                            sensorSnapshots[i].identity \in Roms
    /\ task = "updateDS18B20" =>
           /\ \A i \in ds18b20Seen :
                  /\ i \in Slots
                  /\ sensorSnapshots[i].model = "DS18B20"
                  /\ sensorSnapshots[i].state # "MISSING"
           /\ \A i \in Slots : sensorSnapshots[i].model = "DS18B20" =>
                  (i \in ds18b20Seen <=> Measured(sensorSnapshots[i].identity, cursor - 1))
    /\ task \in AfterDs18b20 =>
           \A i \in Slots : sensorSnapshots[i].model = "DS18B20" =>
               (sensorSnapshots[i].state = "MISSING" <=>
                    ~Measured(sensorSnapshots[i].identity, Len(measurements)))

(* The results of a Bosch sensor are those of its slot, unless this round    *)
(* has measured it and not copied them yet.                                  *)
Copied(model) ==
    \A i \in ModelSlots(model) : sensorSnapshots[i].reading = boschResults[model]

BoschInv ==
    /\ \A model \in Bosch :
           /\ boschStatus[model] = "SUCCESS" =>
                  model \in boschRegistered /\ boschResults[model] \in Readings
           /\ boschStatus[model] = "ERROR" => Copied(model)
           /\ boschStatus[model] = "ERROR" /\ ModelSlots(model) = {} =>
                  boschResults[model] = NoReading
    /\ \A i \in Slots : LET s == sensorSnapshots[i] IN
           s.dataValid /\ s.model \in Bosch => boschResults[s.model] \in Readings
    /\ task \in {"delay", "convert", "measureBMx280"} => boschStatus["BMx280"] = "ERROR"
    /\ task \in {"delay", "convert", "measureBMx280", "measureBME680"} =>
           boschStatus["BME680"] = "ERROR"
    /\ task \in {"updateBME680", "exit"} => Copied("BMx280")
    /\ task = "exit" => Copied("BME680")

(* The last success of this round at a sensor is its latest delivery, and    *)
(* valid data is older only if a success has not been copied yet.            *)
Success(rom, first, last) ==
    \E k \in first..last : measurements[k].rom = rom /\ measurements[k].status = "OK"

DataInv ==
    /\ \A k \in 1..Len(measurements) : LET m == measurements[k] IN
           m.status = "OK" /\ ~Success(m.rom, k + 1, Len(measurements)) =>
               m.reading = delivered[m.rom]
    /\ \A i \in Slots : LET s == sensorSnapshots[i] IN
           s.dataValid /\ s.model = "DS18B20" =>
               /\ s.reading \in Readings
               /\ ~Success(s.identity, cursor, Len(measurements)) =>
                      s.reading = delivered[s.identity]

(* What the round has made of a slot since it was last published. *)
Base(i) ==
    IF i \in DOMAIN published THEN published[i]
    ELSE NewSnapshot(sensorSnapshots[i].model, sensorSnapshots[i].identity)

Untouched(i) == i \in DOMAIN published /\ sensorSnapshots[i] = published[i]

AttemptedUpTo(s, t, n) ==
    \/ t = Abstract!AfterSuccess(s, t.reading, roundTick) /\ t.reading \in Readings
    \/ \E k \in 1..n :
          /\ t = Abstract!AfterFailures(s, k, t.lastError, roundTick)
          /\ t.lastError # "MISSING"
    \/ \E k \in 1..(n - 1) :
          /\ t = Abstract!AfterFailures(Abstract!AfterSuccess(s, t.reading, roundTick),
                                        k, t.lastError, roundTick)
          /\ t.reading \in Readings
          /\ t.lastError # "MISSING"

Evolved(i) == Abstract!Evolves(Base(i), sensorSnapshots[i], roundTick)

ModelEvolved(model) == \A i \in ModelSlots(model) : Evolved(i)

ModelUntouched(model) == \A i \in ModelSlots(model) : Untouched(i)

EvolveInv ==
    /\ ~critical => published = sensorSnapshots
    /\ DOMAIN published \subseteq Slots
    /\ \A i \in DOMAIN published : SameSensor(published[i], sensorSnapshots[i])
    /\ task = "updateDS18B20" =>
           \A i \in Slots :
               IF i \in ds18b20Seen
                   THEN AttemptedUpTo(Base(i), sensorSnapshots[i], cursor - 1)
                   ELSE Untouched(i)
    /\ task \in AfterDs18b20 => ModelEvolved("DS18B20")
    /\ task = "updateBMx280" => ModelUntouched("BMx280")
    /\ task \in {"updateBMx280", "updateBME680"} => ModelUntouched("BME680")
    /\ task \in {"updateBME680", "exit"} => ModelEvolved("BMx280")
    /\ task = "exit" => ModelEvolved("BME680")

(* The age of valid data: what the tick counter shows of it, and at most a   *)
(* round for every failure, for the round that is on and for the one before  *)
(* if that has not been taken into account yet.                              *)
Settled(i) ==
    \/ task \notin CriticalSteps \union {"enter"}
    \/ task = "updateDS18B20" /\ i \in ds18b20Seen
    \/ task \in AfterDs18b20 /\ sensorSnapshots[i].model = "DS18B20"
    \/ task \in {"updateBME680", "exit"} /\ sensorSnapshots[i].model = "BMx280"
    \/ task = "exit"

AgeInv ==
    /\ task \in CriticalSteps \union {"enter"} =>
           TickDifference(now, roundTick) = roundAge
    /\ \A i \in Slots : LET s == sensorSnapshots[i] IN
           s.dataValid =>
               /\ TickDifference(now, s.lastSuccess) = dataAge[i]
               /\ dataAge[i] <= MaxRound * (s.consecutiveFailures + 1) + roundAge
               /\ Settled(i) =>
                      dataAge[i] <= MaxRound * s.consecutiveFailures + roundAge

----------------------------------------------------------------------------
(* What one attempt makes of a snapshot, in the terms of SensorList.         *)

State(failures, error) ==
    IF error = "MISSING" THEN "MISSING"
    ELSE IF failures >= FailureThreshold THEN "UNAVAILABLE" ELSE "DEGRADED"

Counted(n) == IF n < FailureLimit THEN n ELSE FailureLimit

LEMMA SameSnapshot ==
    ASSUME NEW s \in Snapshot, NEW t \in Snapshot,
           s.model = t.model, s.identity = t.identity, s.dataValid <=> t.dataValid,
           s.reading = t.reading, s.state = t.state, s.lastError = t.lastError,
           s.consecutiveFailures = t.consecutiveFailures,
           s.lastAttempt = t.lastAttempt, s.lastSuccess = t.lastSuccess
    PROVE  s = t
  BY DEF Snapshot

LEMMA AttemptedFields ==
    ASSUME NEW s \in Snapshot, roundTick \in Ticks, NEW valid \in BOOLEAN,
           NEW state \in States, NEW error \in Errors,
           NEW failures \in 0..FailureLimit, NEW success \in Ticks,
           NEW t, t = Attempted(s, valid, state, error, failures, success)
    PROVE  /\ t \in Snapshot
           /\ t.model = s.model /\ t.identity = s.identity /\ t.reading = s.reading
           /\ (t.dataValid <=> valid) /\ t.state = state /\ t.lastError = error
           /\ t.consecutiveFailures = failures
           /\ t.lastAttempt = roundTick /\ t.lastSuccess = success
  BY DEF Attempted, Snapshot

LEMMA CountedRange ==
    ASSUME NEW n \in Nat
    PROVE  Counted(n) \in 0..FailureLimit /\ Abstract!Counted(n) = Counted(n)
  BY FailureAssumption DEF Counted, Abstract!Counted

LEMMA AfterFailuresForm ==
    ASSUME NEW s \in Snapshot, NEW n \in Nat, NEW error \in Errors, roundTick \in Ticks,
           NEW t, t = Abstract!AfterFailures(s, n, error, roundTick)
    PROVE  LET failures == Counted(s.consecutiveFailures + n)
               state == State(failures, error)
           IN  /\ t \in Snapshot
               /\ t = Attempted(s, s.dataValid /\ state = "DEGRADED", state, error,
                                failures, s.lastSuccess)
               /\ t.model = s.model /\ t.identity = s.identity /\ t.reading = s.reading
               /\ t.dataValid <=> (s.dataValid /\ state = "DEGRADED")
               /\ t.state = state /\ t.lastError = error
               /\ t.consecutiveFailures = failures
               /\ t.lastAttempt = roundTick /\ t.lastSuccess = s.lastSuccess
  <1> DEFINE failures == Counted(s.consecutiveFailures + n)
             state == State(failures, error)
             valid == s.dataValid /\ state = "DEGRADED"
             u == Attempted(s, valid, state, error, failures, s.lastSuccess)
  <1>1. /\ s.consecutiveFailures + n \in Nat
        /\ s.lastSuccess \in Ticks
      BY FailureAssumption DEF Snapshot
  <1>2. failures \in 0..FailureLimit
      BY <1>1, CountedRange
  <1>3. state \in States
      BY DEF State, States
  <1>4. valid \in BOOLEAN
      OBVIOUS
  <1>5. t = [s EXCEPT !.dataValid = valid, !.state = state, !.lastError = error,
                      !.consecutiveFailures = failures, !.lastAttempt = roundTick]
      <2>1. Abstract!Counted(s.consecutiveFailures + n) = failures
          BY <1>1, CountedRange
      <2> QED
          BY <2>1 DEF Abstract!AfterFailures, State, Snapshot
  <1> HIDE DEF failures, state, valid
  <1>6. /\ t \in Snapshot
        /\ t.model = s.model /\ t.identity = s.identity /\ t.reading = s.reading
        /\ (t.dataValid <=> valid) /\ t.state = state /\ t.lastError = error
        /\ t.consecutiveFailures = failures
        /\ t.lastAttempt = roundTick /\ t.lastSuccess = s.lastSuccess
      BY <1>2, <1>3, <1>4, <1>5 DEF Snapshot
  <1>7. /\ u \in Snapshot
        /\ u.model = s.model /\ u.identity = s.identity /\ u.reading = s.reading
        /\ (u.dataValid <=> valid) /\ u.state = state /\ u.lastError = error
        /\ u.consecutiveFailures = failures
        /\ u.lastAttempt = roundTick /\ u.lastSuccess = s.lastSuccess
      BY <1>1, <1>2, <1>3, <1>4, AttemptedFields
  <1>8. t = u
      <2> HIDE DEF u
      <2> QED
          BY <1>6, <1>7, SameSnapshot
  <1> QED
      BY <1>6, <1>8 DEF failures, state, valid

LEMMA AfterSuccessFields ==
    ASSUME NEW s \in Snapshot, NEW value \in Readings, roundTick \in Ticks,
           NEW t, t = Abstract!AfterSuccess(s, value, roundTick)
    PROVE  /\ t \in Snapshot
           /\ t.model = s.model /\ t.identity = s.identity /\ t.reading = value
           /\ t.dataValid /\ t.state = "AVAILABLE" /\ t.lastError = "NONE"
           /\ t.consecutiveFailures = 0
           /\ t.lastAttempt = roundTick /\ t.lastSuccess = roundTick
  <1>1. "AVAILABLE" \in States /\ "NONE" \in Errors /\ 0 \in 0..FailureLimit
      BY FailureAssumption DEF States, Errors
  <1> QED
      BY <1>1 DEF Abstract!AfterSuccess, Snapshot

LEMMA AfterSuccessForm ==
    ASSUME NEW s \in Snapshot, NEW value \in Readings, roundTick \in Ticks,
           NEW t, t = Abstract!AfterSuccess(s, value, roundTick)
    PROVE  /\ t \in Snapshot
           /\ t = Succeeded([s EXCEPT !.reading = value])
           /\ t.model = s.model /\ t.identity = s.identity /\ t.reading = value
           /\ t.dataValid /\ t.state = "AVAILABLE" /\ t.lastError = "NONE"
           /\ t.consecutiveFailures = 0
           /\ t.lastAttempt = roundTick /\ t.lastSuccess = roundTick
  <1> DEFINE r == [s EXCEPT !.reading = value]
             u == Succeeded(r)
  <1>1. /\ r \in Snapshot /\ r.reading = value
        /\ r.model = s.model /\ r.identity = s.identity
      BY DEF Snapshot
  <1>2. TRUE \in BOOLEAN /\ "AVAILABLE" \in States /\ "NONE" \in Errors /\ 0 \in 0..FailureLimit
      BY FailureAssumption DEF States, Errors
  <1>3. /\ u \in Snapshot
        /\ u.model = r.model /\ u.identity = r.identity /\ u.reading = r.reading
        /\ u.dataValid /\ u.state = "AVAILABLE" /\ u.lastError = "NONE"
        /\ u.consecutiveFailures = 0
        /\ u.lastAttempt = roundTick /\ u.lastSuccess = roundTick
      <2>1. PICK valid \in BOOLEAN : valid /\ valid = TRUE
          BY Zenon
      <2>2. u = Attempted(r, valid, "AVAILABLE", "NONE", 0, roundTick)
          BY <2>1, Zenon DEF Succeeded
      <2>3. valid
          BY <2>1, Zenon
      <2> HIDE DEF r, u
      <2>4. /\ u \in Snapshot
            /\ u.model = r.model /\ u.identity = r.identity /\ u.reading = r.reading
            /\ (u.dataValid <=> valid)
            /\ u.state = "AVAILABLE" /\ u.lastError = "NONE"
            /\ u.consecutiveFailures = 0
            /\ u.lastAttempt = roundTick /\ u.lastSuccess = roundTick
          BY <1>1, <1>2, <2>2, AttemptedFields
      <2> QED
          BY <2>3, <2>4
  <1>4. /\ t \in Snapshot
        /\ t.model = s.model /\ t.identity = s.identity /\ t.reading = value
        /\ t.dataValid /\ t.state = "AVAILABLE" /\ t.lastError = "NONE"
        /\ t.consecutiveFailures = 0
        /\ t.lastAttempt = roundTick /\ t.lastSuccess = roundTick
      BY AfterSuccessFields
  <1>5. t = u
      <2> HIDE DEF r, u
      <2> QED
          BY <1>1, <1>3, <1>4, SameSnapshot
  <1> QED
      BY <1>4, <1>5

(* One attempt that fails, and one that succeeds. *)
Fails(s, t, error) ==
    /\ t = Abstract!AfterFailures(s, 1, error, roundTick)
    /\ t \in Snapshot
    /\ SameSensor(s, t)
    /\ t.reading = s.reading /\ t.lastSuccess = s.lastSuccess
    /\ t.lastError = error
    /\ t.state = State(FailuresAfter(s), error)
    /\ t.consecutiveFailures = FailuresAfter(s)
    /\ t.consecutiveFailures # 0
    /\ t.dataValid => s.dataValid /\ t.consecutiveFailures = s.consecutiveFailures + 1

Succeeds(s, t, value) ==
    /\ t = Abstract!AfterSuccess(s, value, roundTick)
    /\ t \in Snapshot
    /\ SameSensor(s, t)
    /\ t.reading = value /\ t.lastSuccess = roundTick
    /\ t.lastError = "NONE"
    /\ t.state = "AVAILABLE"
    /\ t.consecutiveFailures = 0
    /\ t.dataValid

LEMMA CountedOne ==
    ASSUME NEW s \in Snapshot
    PROVE  /\ FailuresAfter(s) = Counted(s.consecutiveFailures + 1)
           /\ FailuresAfter(s) \in Nat \ {0}
           /\ FailuresAfter(s) < FailureThreshold =>
                  FailuresAfter(s) = s.consecutiveFailures + 1
  BY FailureAssumption DEF FailuresAfter, Counted, Snapshot

LEMMA OneFailure ==
    ASSUME NEW s \in Snapshot, NEW error \in Errors, roundTick \in Ticks
    PROVE  /\ error # "MISSING" => Fails(s, Failed(s, error), error)
           /\ error = "MISSING" => Fails(s, Missing(s), error)
  <1> DEFINE t == Abstract!AfterFailures(s, 1, error, roundTick)
             state == State(FailuresAfter(s), error)
  <1>1. /\ FailuresAfter(s) = Counted(s.consecutiveFailures + 1)
        /\ FailuresAfter(s) \in Nat \ {0}
        /\ FailuresAfter(s) < FailureThreshold =>
               FailuresAfter(s) = s.consecutiveFailures + 1
      BY CountedOne
  <1>2. /\ t \in Snapshot
        /\ t = Attempted(s, s.dataValid /\ state = "DEGRADED", state, error,
                         FailuresAfter(s), s.lastSuccess)
        /\ t.model = s.model /\ t.identity = s.identity /\ t.reading = s.reading
        /\ t.dataValid <=> (s.dataValid /\ state = "DEGRADED")
        /\ t.state = state /\ t.lastError = error
        /\ t.consecutiveFailures = FailuresAfter(s)
        /\ t.lastAttempt = roundTick /\ t.lastSuccess = s.lastSuccess
      BY <1>1, AfterFailuresForm
  <1>3. state = "DEGRADED" => FailuresAfter(s) < FailureThreshold
      BY <1>1, FailureAssumption DEF State
  <1>4. Fails(s, t, error)
      BY <1>1, <1>2, <1>3 DEF Fails, SameSensor
  <1>5. ASSUME error # "MISSING" PROVE t = Failed(s, error)
      <2> DEFINE unavailable == FailuresAfter(s) >= FailureThreshold
      <2>1. state = IF unavailable THEN "UNAVAILABLE" ELSE "DEGRADED"
          BY <1>5 DEF State
      <2>2. (s.dataValid /\ state = "DEGRADED") = (s.dataValid /\ ~unavailable)
          BY <2>1
      <2> QED
          BY <1>2, <2>1, <2>2 DEF Failed
  <1>6. ASSUME error = "MISSING" PROVE t = Missing(s)
      <2>1. state = "MISSING"
          BY <1>6 DEF State
      <2>2. (s.dataValid /\ state = "DEGRADED") = FALSE
          BY <2>1
      <2> QED
          BY <1>2, <1>6, <2>1, <2>2 DEF Missing
  <1> QED
      BY <1>4, <1>5, <1>6

LEMMA OneSuccess ==
    ASSUME NEW s \in Snapshot, NEW value \in Readings, roundTick \in Ticks
    PROVE  Succeeds(s, Succeeded([s EXCEPT !.reading = value]), value)
  <1> DEFINE t == Abstract!AfterSuccess(s, value, roundTick)
  <1>1. /\ t \in Snapshot
        /\ t = Succeeded([s EXCEPT !.reading = value])
        /\ t.model = s.model /\ t.identity = s.identity /\ t.reading = value
        /\ t.dataValid /\ t.state = "AVAILABLE" /\ t.lastError = "NONE"
        /\ t.consecutiveFailures = 0
        /\ t.lastAttempt = roundTick /\ t.lastSuccess = roundTick
      BY AfterSuccessForm
  <1> HIDE DEF t
  <1>2. Succeeds(s, t, value)
      BY <1>1 DEF Succeeds, SameSensor, t
  <1> QED
      BY <1>1, <1>2

(* A measurement is one attempt at a DS18B20. *)
LEMMA MeasurementAttempt ==
    ASSUME NEW s \in Snapshot, NEW m \in Measurement, roundTick \in Ticks,
           m.status = "OK" => m.reading \in Readings
    PROVE  /\ m.status = "OK" => Succeeds(s, WithMeasurement(s, m), m.reading)
           /\ m.status # "OK" => /\ Fails(s, WithMeasurement(s, m), m.status)
                                 /\ m.status # "MISSING"
  <1>1. CASE m.status = "OK"
      <2>1. WithMeasurement(s, m) = Succeeded([s EXCEPT !.reading = m.reading])
          BY <1>1 DEF WithMeasurement, RecordResult
      <2> QED
          BY <1>1, <2>1, OneSuccess
  <1>2. CASE m.status # "OK"
      <2>1. m.status \in Errors /\ m.status # "MISSING"
          BY <1>2, FaultsAssumption DEF Measurement, ReadStatus, Errors
      <2>2. WithMeasurement(s, m) = Failed(s, m.status)
          BY <1>2 DEF WithMeasurement, RecordResult, MapDs18b20Error
      <2> QED
          BY <1>2, <2>1, <2>2, OneFailure
  <1> QED
      BY <1>1, <1>2

(* So is a Bosch result; when it is not a success, the results copied are    *)
(* the old ones.                                                             *)
LEMMA BoschAttempt ==
    ASSUME NEW s \in Snapshot, NEW model \in Bosch, roundTick \in Ticks,
           boschStatus[model] \in {"SUCCESS", "ERROR"},
           boschStatus[model] = "SUCCESS" => boschResults[model] \in Readings,
           boschStatus[model] = "ERROR" => boschResults[model] = s.reading
    PROVE  /\ boschStatus[model] = "SUCCESS" =>
                  Succeeds(s, WithBoschResult(s, model), boschResults[model])
           /\ boschStatus[model] = "ERROR" =>
                  Fails(s, WithBoschResult(s, model), "CONVERSION")
           /\ WithBoschResult(s, model).reading = boschResults[model]
  <1>1. CASE boschStatus[model] = "SUCCESS"
      <2>1. WithBoschResult(s, model) = Succeeded([s EXCEPT !.reading = boschResults[model]])
          BY <1>1 DEF WithBoschResult, RecordResult
      <2> QED
          BY <1>1, <2>1, OneSuccess DEF Succeeds
  <1>2. CASE boschStatus[model] = "ERROR"
      <2>1. [s EXCEPT !.reading = boschResults[model]] = s
          BY <1>2 DEF Snapshot
      <2>2. WithBoschResult(s, model) = Failed(s, "CONVERSION")
          BY <1>2, <2>1 DEF WithBoschResult, RecordResult
      <2>3. "CONVERSION" \in Errors
          BY DEF Errors
      <2>4. Fails(s, WithBoschResult(s, model), "CONVERSION")
          BY <2>2, <2>3, OneFailure
      <2>5. WithBoschResult(s, model).reading = s.reading
          BY <2>4 DEF Fails
      <2> QED
          BY <1>2, <2>4, <2>5
  <1> QED
      BY <1>1, <1>2

(* Attempts add up. *)
LEMMA FailuresAddUp ==
    ASSUME NEW s \in Snapshot, NEW n \in Nat \ {0}, roundTick \in Ticks,
           NEW e1 \in Errors \ {"MISSING"}, NEW e2 \in Errors \ {"MISSING"}
    PROVE  Abstract!AfterFailures(Abstract!AfterFailures(s, n, e1, roundTick), 1, e2,
                                  roundTick)
               = Abstract!AfterFailures(s, n + 1, e2, roundTick)
  <1> DEFINE t == Abstract!AfterFailures(s, n, e1, roundTick)
             u == Abstract!AfterFailures(t, 1, e2, roundTick)
             v == Abstract!AfterFailures(s, n + 1, e2, roundTick)
             f == s.consecutiveFailures
  <1>0. /\ t = Abstract!AfterFailures(s, n, e1, roundTick)
        /\ u = Abstract!AfterFailures(t, 1, e2, roundTick)
        /\ v = Abstract!AfterFailures(s, n + 1, e2, roundTick)
        /\ n + 1 \in Nat /\ 1 \in Nat /\ e1 \in Errors /\ e2 \in Errors
      OBVIOUS
  <1>1. f \in 0..FailureLimit
      BY DEF Snapshot
  <1> HIDE DEF t, u, v
  <1>2. /\ t \in Snapshot
        /\ t.model = s.model /\ t.identity = s.identity /\ t.reading = s.reading
        /\ t.dataValid <=> (s.dataValid /\ State(Counted(f + n), e1) = "DEGRADED")
        /\ t.consecutiveFailures = Counted(f + n)
        /\ t.lastSuccess = s.lastSuccess
      BY <1>0, AfterFailuresForm
  <1>3. Counted(Counted(f + n) + 1) = Counted(f + (n + 1))
      BY <1>1, FailureAssumption DEF Counted
  <1>4. /\ u \in Snapshot
        /\ u.model = t.model /\ u.identity = t.identity /\ u.reading = t.reading
        /\ u.dataValid <=> (t.dataValid /\ State(Counted(Counted(f + n) + 1), e2) = "DEGRADED")
        /\ u.state = State(Counted(Counted(f + n) + 1), e2) /\ u.lastError = e2
        /\ u.consecutiveFailures = Counted(Counted(f + n) + 1)
        /\ u.lastAttempt = roundTick /\ u.lastSuccess = t.lastSuccess
      BY <1>0, <1>2, AfterFailuresForm
  <1>5. /\ v \in Snapshot
        /\ v.model = s.model /\ v.identity = s.identity /\ v.reading = s.reading
        /\ v.dataValid <=> (s.dataValid /\ State(Counted(f + (n + 1)), e2) = "DEGRADED")
        /\ v.state = State(Counted(f + (n + 1)), e2) /\ v.lastError = e2
        /\ v.consecutiveFailures = Counted(f + (n + 1))
        /\ v.lastAttempt = roundTick /\ v.lastSuccess = s.lastSuccess
      BY <1>0, AfterFailuresForm
  <1>6. State(Counted(f + (n + 1)), e2) = "DEGRADED" => State(Counted(f + n), e1) = "DEGRADED"
      BY <1>1, FailureAssumption DEF Counted, State
  <1>7. u.dataValid <=> v.dataValid
      BY <1>2, <1>3, <1>4, <1>5, <1>6
  <1>8. u = v
      BY <1>2, <1>3, <1>4, <1>5, <1>7, SameSnapshot
  <1> QED
      BY <1>8 DEF t, u, v

LEMMA SuccessForgets ==
    ASSUME NEW s \in Snapshot, NEW t \in Snapshot, SameSensor(s, t),
           NEW value \in Readings, roundTick \in Ticks
    PROVE  Abstract!AfterSuccess(t, value, roundTick)
               = Abstract!AfterSuccess(s, value, roundTick)
  <1> DEFINE u == Abstract!AfterSuccess(s, value, roundTick)
             v == Abstract!AfterSuccess(t, value, roundTick)
  <1>0. /\ u = Abstract!AfterSuccess(s, value, roundTick)
        /\ v = Abstract!AfterSuccess(t, value, roundTick)
      OBVIOUS
  <1> HIDE DEF u, v
  <1>1. /\ u \in Snapshot
        /\ u.model = s.model /\ u.identity = s.identity /\ u.reading = value
        /\ u.dataValid /\ u.state = "AVAILABLE" /\ u.lastError = "NONE"
        /\ u.consecutiveFailures = 0
        /\ u.lastAttempt = roundTick /\ u.lastSuccess = roundTick
      BY <1>0, AfterSuccessFields
  <1>2. /\ v \in Snapshot
        /\ v.model = t.model /\ v.identity = t.identity /\ v.reading = value
        /\ v.dataValid /\ v.state = "AVAILABLE" /\ v.lastError = "NONE"
        /\ v.consecutiveFailures = 0
        /\ v.lastAttempt = roundTick /\ v.lastSuccess = roundTick
      BY <1>0, AfterSuccessFields
  <1> QED
      BY <1>0, <1>1, <1>2, SameSnapshot DEF SameSensor

----------------------------------------------------------------------------
(* The steps, by what they do to the list and to what it is made from.       *)

Quiet ==
    UNCHANGED <<task, measurements, boschResults, boschStatus, boschRegistered, critical,
                roundTick, cursor, ds18b20Seen, sensorSnapshots, delivered, published>>

LEMMA QuietSteps ==
    ASSUME Environment \/ SearchTask \/ UNCHANGED vars
    PROVE  Quiet
  BY DEF Quiet, Environment, Tick, Plug, Unplug, SearchTask, LockForSearch, SearchBus,
         UnlockAfterSearch, vars, busVars, roundVars, listVars, timeVars

(* Before a round is published. *)
Measures ==
    \/ LockForMeasure \/ ConvertAndRead \/ UnlockAfterMeasure
    \/ MeasureBmx280 \/ MeasureBmx680 \/ StampRound

LEMMA MeasureSteps ==
    ASSUME Measures
    PROVE  /\ UNCHANGED <<boschRegistered, critical, cursor, ds18b20Seen,
                          sensorSnapshots, published>>
           /\ task \notin CriticalSteps /\ task' \notin CriticalSteps
           /\ task' # "delay"
  BY DEF Measures, LockForMeasure, ConvertAndRead, UnlockAfterMeasure, MeasureBmx280,
         MeasureBmx680, MeasureBosch, StampRound, CriticalSteps, busVars, roundVars,
         listVars, timeVars

(* The row that ConvertAndRead reads is recorded. *)
LEMMA ConvertAdds ==
    ASSUME TypeInv, ConvertAndRead
    PROVE  \E m \in Measurement :
               /\ measurements' = Append(measurements, m)
               /\ m.rom = oneWireDevices[Len(measurements) + 1]
               /\ Len(measurements) < readCount
               /\ \/ /\ m.status = "OK" /\ m.reading \in Readings
                     /\ delivered' = [delivered EXCEPT ![m.rom] = m.reading]
                  \/ /\ m.status # "OK"
                     /\ delivered' = delivered
               /\ UNCHANGED <<task, boschResults, boschStatus>>
  <1> DEFINE rom == oneWireDevices[Len(measurements) + 1]
  <1>1. /\ Len(measurements) \in Nat /\ Len(measurements) < readCount
        /\ readCount <= oneWireDeviceCount
        /\ readCount \in Nat /\ oneWireDeviceCount \in Nat
        /\ UNCHANGED <<task, boschResults, boschStatus>>
      BY LenProperties, MaxDs18b20Assumption, BusCapacityAssumption
      DEF ConvertAndRead, TypeInv, RoundInv, TypeOK, SearchTypeOK
  <1>2. rom \in Roms
      BY <1>1 DEF TypeInv, TableInv
  <1> HIDE DEF rom
  <1>3. CASE \E value \in Readings :
                /\ measurements' = Append(measurements,
                       [rom |-> rom, status |-> "OK", reading |-> value])
                /\ delivered' = [delivered EXCEPT ![rom] = value]
      <2>1. PICK value \in Readings :
                /\ measurements' = Append(measurements,
                       [rom |-> rom, status |-> "OK", reading |-> value])
                /\ delivered' = [delivered EXCEPT ![rom] = value]
          BY <1>3
      <2> DEFINE m == [rom |-> rom, status |-> "OK", reading |-> value]
      <2>2. m \in Measurement /\ m.status = "OK" /\ m.reading = value /\ m.rom = rom
          BY <1>2 DEF Measurement
      <2> QED
          BY <1>1, <2>1, <2>2 DEF rom
  <1>4. CASE /\ \E fault \in Faults :
                   measurements' = Append(measurements,
                       [rom |-> rom, status |-> fault, reading |-> NoReading])
             /\ UNCHANGED delivered
      <2>1. PICK fault \in Faults :
                measurements' = Append(measurements,
                    [rom |-> rom, status |-> fault, reading |-> NoReading])
          BY <1>4
      <2> DEFINE m == [rom |-> rom, status |-> fault, reading |-> NoReading]
      <2>2. fault # "OK"
          BY FaultsAssumption DEF ReadStatus
      <2>3. m \in Measurement /\ m.status = fault /\ m.rom = rom
          BY <1>2 DEF Measurement
      <2> QED
          BY <1>1, <1>4, <2>1, <2>2, <2>3 DEF rom
  <1> QED
      BY <1>3, <1>4 DEF ConvertAndRead, rom

(* A slot is written, or a new one added. *)
Writes(i, s) ==
    /\ i \in Slots /\ s \in Snapshot
    /\ DOMAIN sensorSnapshots' = Slots
    /\ Len(sensorSnapshots') = Len(sensorSnapshots)
    /\ \A j \in Slots : sensorSnapshots'[j] = IF j = i THEN s ELSE sensorSnapshots[j]
    /\ dataAge' = AgeAfter(i, s)

Adds(i, s) ==
    /\ i \notin Slots /\ s \in Snapshot
    /\ i = Len(sensorSnapshots) + 1
    /\ i \in 1..MaxDevices
    /\ DOMAIN sensorSnapshots' = Slots \union {i}
    /\ Len(sensorSnapshots') = Len(sensorSnapshots) + 1
    /\ \A j \in Slots : sensorSnapshots'[j] = sensorSnapshots[j]
    /\ sensorSnapshots'[i] = s
    /\ dataAge' = AgeAfter(i, s)

LEMMA WritesSlot ==
    ASSUME TypeOK, NEW i \in Slots, NEW s \in Snapshot, WriteSlot(i, s)
    PROVE  Writes(i, s)
  BY WriteSlotType DEF Writes, WriteSlot

LEMMA AddsSlot ==
    ASSUME TypeOK, NEW s \in Snapshot, AddSlot(s), Len(sensorSnapshots) < MaxDevices
    PROVE  Adds(Len(sensorSnapshots) + 1, s)
  <1>1. Slots = 1..Len(sensorSnapshots) /\ Len(sensorSnapshots) \in Nat
      BY LenProperties DEF TypeOK, Slots
  <1> QED
      BY <1>1, AddSlotType DEF Adds, AddSlot

(* UpdateSnapshots deals with the next measurement. *)
MeasurementFrame ==
    /\ task = "updateDS18B20" /\ task' = task
    /\ cursor \in 1..Len(measurements)
    /\ cursor' = cursor + 1
    /\ UNCHANGED <<measurements, boschResults, boschStatus, boschRegistered, critical,
                   roundTick, now, roundAge, delivered, published>>

LEMMA MeasurementSteps ==
    ASSUME TypeOK, RefreshDs18b20 \/ RegisterDs18b20 \/ IgnoreDs18b20
    PROVE  LET m == measurements[cursor] IN
           /\ MeasurementFrame
           /\ m \in Measurement
           /\ \/ \E i \in Ds18b20Slots(m.rom) :
                    /\ Writes(i, WithMeasurement(sensorSnapshots[i], m))
                    /\ ds18b20Seen' = ds18b20Seen \union {i}
              \/ \E i :
                    /\ Ds18b20Slots(m.rom) = {}
                    /\ Adds(i, WithMeasurement(NewSnapshot("DS18B20", m.rom), m))
                    /\ ds18b20Seen' = ds18b20Seen \union {i}
              \/ /\ Ds18b20Slots(m.rom) = {}
                 /\ Len(sensorSnapshots) >= MaxDevices
                 /\ UNCHANGED <<sensorSnapshots, ds18b20Seen, dataAge>>
  <1> DEFINE m == measurements[cursor]
  <1>1. MeasurementFrame
      BY LenProperties
      DEF RefreshDs18b20, RegisterDs18b20, IgnoreDs18b20, NextMeasurement,
          MeasurementFrame, roundVars, TypeOK
  <1>2. m \in Measurement
      BY <1>1, CursorMeasurement DEF MeasurementFrame
  <1>3. ASSUME NEW s \in Snapshot PROVE WithMeasurement(s, m) \in Snapshot
      BY <1>2, MeasurementUpdates DEF Updates, TypeOK
  <1>4. CASE RefreshDs18b20
      <2>1. PICK i \in Slots :
                /\ IsFirst(i, Ds18b20Slots(m.rom))
                /\ WriteSlot(i, WithMeasurement(sensorSnapshots[i], m))
                /\ ds18b20Seen' = ds18b20Seen \union {i}
          BY <1>4 DEF RefreshDs18b20
      <2>2. WithMeasurement(sensorSnapshots[i], m) \in Snapshot
          BY <1>3, SlotType
      <2> QED
          BY <1>1, <1>2, <2>1, <2>2, WritesSlot DEF IsFirst
  <1>5. CASE RegisterDs18b20
      <2> DEFINE s == WithMeasurement(NewSnapshot("DS18B20", m.rom), m)
      <2>1. /\ Ds18b20Slots(m.rom) = {}
            /\ Len(sensorSnapshots) < MaxDevices
            /\ AddSlot(s)
            /\ ds18b20Seen' = ds18b20Seen \union {Len(sensorSnapshots) + 1}
          BY <1>5 DEF RegisterDs18b20
      <2>2. NewSnapshot("DS18B20", m.rom) \in Snapshot
          BY <1>2, NewSnapshotType DEF Measurement
      <2>3. s \in Snapshot
          BY <1>3, <2>2
      <2>4. Adds(Len(sensorSnapshots) + 1, s)
          <3> HIDE DEF s, m
          <3> QED
              BY <2>1, <2>3, AddsSlot
      <2> QED
          BY <1>1, <1>2, <2>1, <2>4
  <1>6. CASE IgnoreDs18b20
      BY <1>1, <1>2, <1>6 DEF IgnoreDs18b20
  <1> QED
      BY <1>4, <1>5, <1>6

(* It deals with a Bosch sensor. *)
BoschFrame ==
    UNCHANGED <<measurements, boschResults, boschStatus, boschRegistered, critical,
                roundTick, cursor, ds18b20Seen, now, roundAge, delivered, published>>

LEMMA BoschSteps ==
    ASSUME TypeOK, NEW model \in Bosch, NEW from, NEW to,
           UpdateBosch(model, from, to)
    PROVE  /\ BoschFrame
           /\ task = from /\ task' = to
           /\ \/ /\ model \notin boschRegistered
                 /\ UNCHANGED <<sensorSnapshots, dataAge>>
              \/ /\ model \in boschRegistered
                 /\ \E i \in ModelSlots(model) :
                       Writes(i, WithBoschResult(sensorSnapshots[i], model))
              \/ /\ model \in boschRegistered /\ ModelSlots(model) = {}
                 /\ \E i : Adds(i, WithBoschResult(NewSnapshot(model, ZeroRom), model))
              \/ /\ model \in boschRegistered /\ ModelSlots(model) = {}
                 /\ Len(sensorSnapshots) >= MaxDevices
                 /\ UNCHANGED <<sensorSnapshots, dataAge>>
  <1>1. BoschFrame /\ task = from /\ task' = to
      BY DEF UpdateBosch, BoschFrame, roundVars
  <1>2. ASSUME NEW s \in Snapshot PROVE WithBoschResult(s, model) \in Snapshot
      BY BoschResultUpdates DEF Updates, TypeOK
  <1>3. ASSUME model \in boschRegistered,
               NEW i \in Slots, IsFirst(i, ModelSlots(model)),
               WriteSlot(i, WithBoschResult(sensorSnapshots[i], model))
        PROVE  \E j \in ModelSlots(model) :
                   Writes(j, WithBoschResult(sensorSnapshots[j], model))
      <2>1. WithBoschResult(sensorSnapshots[i], model) \in Snapshot
          BY <1>2, SlotType
      <2> QED
          BY <1>3, <2>1, WritesSlot DEF IsFirst
  <1>4. ASSUME Len(sensorSnapshots) < MaxDevices,
               AddSlot(WithBoschResult(NewSnapshot(model, ZeroRom), model))
        PROVE  \E i : Adds(i, WithBoschResult(NewSnapshot(model, ZeroRom), model))
      <2>1. NewSnapshot(model, ZeroRom) \in Snapshot
          BY NewSnapshotType
      <2>2. WithBoschResult(NewSnapshot(model, ZeroRom), model) \in Snapshot
          BY <1>2, <2>1
      <2> QED
          BY <1>4, <2>2, AddsSlot
  <1>5. Len(sensorSnapshots) < MaxDevices \/ Len(sensorSnapshots) >= MaxDevices
      BY LenProperties, MaxDs18b20Assumption DEF TypeOK, MaxDevices
  <1> QED
      BY <1>1, <1>3, <1>4, <1>5 DEF UpdateBosch

(* The sensors it has no measurement of. *)
LEMMA MissingSteps ==
    ASSUME TypeOK, MarkMissing
    PROVE  /\ task = "updateDS18B20" /\ task' = "updateBMx280"
           /\ cursor > Len(measurements)
           /\ BoschFrame
           /\ UNCHANGED dataAge
           /\ DOMAIN sensorSnapshots' = Slots
           /\ Len(sensorSnapshots') = Len(sensorSnapshots)
           /\ \A i \in Slots :
                  sensorSnapshots'[i] =
                      IF sensorSnapshots[i].model = "DS18B20" /\ i \notin ds18b20Seen
                          THEN Missing(sensorSnapshots[i])
                          ELSE sensorSnapshots[i]
  BY MarkMissingType DEF MarkMissing, BoschFrame, roundVars, timeVars

LEMMA ExitSteps ==
    ASSUME ExitCritical
    PROVE  /\ task = "exit" /\ task' = "delay"
           /\ critical' = FALSE
           /\ measurements' = <<>> /\ cursor' = 1 /\ ds18b20Seen' = {}
           /\ boschStatus' = [model \in Bosch |-> "ERROR"]
           /\ published' = sensorSnapshots
           /\ UNCHANGED <<boschResults, boschRegistered, sensorSnapshots, delivered, now,
                          dataAge, roundAge>>
  BY DEF ExitCritical, timeVars

LEMMA EnterSteps ==
    ASSUME EnterCritical
    PROVE  /\ task = "enter" /\ task' = "updateDS18B20"
           /\ cursor' = 1 /\ ds18b20Seen' = {}
           /\ UNCHANGED <<measurements, boschResults, boschStatus, boschRegistered,
                          roundTick, sensorSnapshots, delivered, published, now, dataAge,
                          roundAge>>
  BY DEF EnterCritical, roundVars, timeVars

(* The Bosch sensors' results are taken before the round is published. *)
LEMMA BoschMeasures ==
    ASSUME NEW model \in Bosch, NEW from, NEW to, MeasureBosch(model, from, to), TypeOK
    PROVE  /\ UNCHANGED <<measurements, delivered, roundTick>>
           /\ \/ /\ model \in boschRegistered
                 /\ \E value \in Readings :
                       boschResults' = [boschResults EXCEPT ![model] = value]
                 /\ boschStatus' = [boschStatus EXCEPT ![model] = "SUCCESS"]
              \/ /\ boschStatus' = [boschStatus EXCEPT ![model] = "ERROR"]
                 /\ boschResults' = boschResults
  BY DEF MeasureBosch, listVars

----------------------------------------------------------------------------
(* The measurements.                                                       *)

LEMMA MeasurementsType ==
    ASSUME TypeOK
    PROVE  /\ measurements \in Seq(Measurement)
           /\ Len(measurements) \in Nat
           /\ DOMAIN measurements = 1..Len(measurements)
           /\ \A k \in 1..Len(measurements) : measurements[k] \in Measurement
           /\ cursor \in Nat \ {0}
           /\ sensorSnapshots \in Seq(Snapshot)
           /\ Len(sensorSnapshots) \in Nat
           /\ Slots = 1..Len(sensorSnapshots)
           /\ roundTick \in Ticks
  <1>1. measurements \in Seq(Measurement) /\ sensorSnapshots \in Seq(Snapshot)
        /\ cursor \in Nat \ {0} /\ roundTick \in Ticks
      BY DEF TypeOK
  <1> QED
      BY <1>1, LenProperties, ElementOfSeq DEF Slots

LEMMA NextMeasureInv ==
    ASSUME TypeInv, MeasureInv, [Next]_vars
    PROVE  MeasureInv'
  <1>0. /\ TypeOK /\ Len(measurements) \in Nat /\ cursor \in Nat \ {0}
        /\ measurements \in Seq(Measurement)
      BY MeasurementsType DEF TypeInv
  <1> USE MaxDs18b20Assumption
  <1>1. CASE Environment \/ SearchTask \/ UNCHANGED vars
      BY <1>1, QuietSteps DEF Quiet, MeasureInv
  <1>2. CASE Measures
      <2>0. /\ cursor' = cursor /\ cursor = 1
            /\ task' \notin CriticalSteps /\ task' \notin AfterDs18b20
            /\ task' # "delay"
          BY <1>2, MeasureSteps DEF MeasureInv, CriticalSteps, AfterDs18b20
      <2>1. CASE ConvertAndRead
          <3>1. PICK m \in Measurement :
                    /\ measurements' = Append(measurements, m)
                    /\ Len(measurements) < readCount
                    /\ m.status = "OK" => m.reading \in Readings
              BY <2>1, ConvertAdds
          <3>2. /\ Len(measurements') = Len(measurements) + 1
                /\ \A k \in 1..Len(measurements) : measurements'[k] = measurements[k]
                /\ measurements'[Len(measurements) + 1] = m
              BY <1>0, <3>1
          <3>3. readCount \in 0..MaxDs18b20
              BY <1>0 DEF TypeOK
          <3>4. Len(measurements') <= MaxDs18b20
              BY <1>0, <3>1, <3>2, <3>3
          <3>5. \A k \in 1..Len(measurements') :
                    measurements'[k].status = "OK" => measurements'[k].reading \in Readings
              <4> SUFFICES ASSUME NEW k \in 1..Len(measurements')
                           PROVE  measurements'[k].status = "OK" =>
                                      measurements'[k].reading \in Readings
                  OBVIOUS
              <4>1. CASE k \in 1..Len(measurements)
                  BY <3>2, <4>1 DEF MeasureInv
              <4>2. CASE k = Len(measurements) + 1
                  BY <3>1, <3>2, <4>2
              <4> QED
                  BY <1>0, <3>2, <4>1, <4>2
          <3> QED
              BY <1>0, <2>0, <3>2, <3>4, <3>5 DEF MeasureInv
      <2>2. CASE measurements' = <<>>
          BY <2>0, <2>2 DEF MeasureInv
      <2>3. CASE measurements' = measurements
          BY <2>0, <2>3 DEF MeasureInv
      <2> QED
          BY <1>2, <2>1, <2>2, <2>3
          DEF Measures, LockForMeasure, UnlockAfterMeasure, MeasureBmx280, MeasureBmx680,
              MeasureBosch, StampRound, roundVars
  <1>3. CASE EnterCritical
      BY <1>0, <1>3, EnterSteps DEF MeasureInv, CriticalSteps, AfterDs18b20
  <1>4. CASE RefreshDs18b20 \/ RegisterDs18b20 \/ IgnoreDs18b20
      BY <1>0, <1>4, MeasurementSteps
      DEF MeasurementFrame, MeasureInv, CriticalSteps, AfterDs18b20
  <1>5. CASE MarkMissing
      BY <1>0, <1>5, MissingSteps DEF BoschFrame, MeasureInv, CriticalSteps, AfterDs18b20
  <1>6. CASE UpdateBmx280 \/ UpdateBmx680
      <2>1. /\ BoschFrame
            /\ task \in AfterDs18b20 /\ task' \in AfterDs18b20
          BY <1>0, <1>6, BoschSteps DEF UpdateBmx280, UpdateBmx680, Bosch, AfterDs18b20
      <2> QED
          BY <2>1 DEF BoschFrame, MeasureInv, CriticalSteps, AfterDs18b20
  <1>7. CASE ExitCritical
      BY <1>7, ExitSteps DEF MeasureInv, AfterDs18b20
  <1> QED
      BY <1>1, <1>2, <1>3, <1>4, <1>5, <1>6, <1>7
      DEF Next, TemperatureTask, UpdateSnapshots, Measures

----------------------------------------------------------------------------
(* Room for the Bosch sensors.                                             *)

LEMMA RegisteredStay ==
    ASSUME [Next]_vars
    PROVE  boschRegistered' = boschRegistered
  BY DEF Next, Environment, Tick, Plug, Unplug, SearchTask, LockForSearch, SearchBus,
         UnlockAfterSearch, TemperatureTask, LockForMeasure, ConvertAndRead,
         UnlockAfterMeasure, MeasureBmx280, MeasureBmx680, MeasureBosch, StampRound,
         UpdateSnapshots, EnterCritical, RefreshDs18b20, RegisterDs18b20, IgnoreDs18b20,
         NextMeasurement, MarkMissing, UpdateBmx280, UpdateBmx680, UpdateBosch,
         ExitCritical, vars, roundVars

LEMMA NumberedStays ==
    ASSUME IInv, [Next]_vars
    PROVE  /\ Numbered => Numbered'
           /\ \A model : ModelSlots(model) \subseteq ModelSlots(model)'
  <1>1. UNCHANGED sensorSnapshots \/ ListGrows
      BY NextIInv
  <1>2. ASSUME NEW model PROVE ModelSlots(model) \subseteq ModelSlots(model)'
      BY <1>1 DEF ListGrows, SameSensor, ModelSlots, Slots
  <1>3. boschRegistered' = boschRegistered
      BY RegisteredStay
  <1>4. ASSUME Numbered, NEW model \in boschRegistered' PROVE ModelSlots(model)' # {}
      <2>1. ModelSlots(model) # {}
          BY <1>3, <1>4 DEF Numbered
      <2> QED
          BY <1>2, <2>1
  <1> QED
      BY <1>2, <1>4 DEF Numbered

(* The first snapshot of a sensor, and what a Bosch result makes of one. *)
LEMMA BoschUpdates ==
    ASSUME TypeOK, NEW s \in Snapshot, NEW model \in Bosch
    PROVE  Updates(s, WithBoschResult(s, model))
  <1>1. roundTick \in Ticks /\ boschResults \in [Bosch -> Readings \union {NoReading}]
      BY DEF TypeOK
  <1> QED
      BY <1>1, BoschResultUpdates

LEMMA NewBoschSlot ==
    ASSUME TypeOK, NEW model \in Bosch,
           NEW s, s = WithBoschResult(NewSnapshot(model, ZeroRom), model)
    PROVE  s.model = model /\ s.identity = ZeroRom /\ s \in Snapshot
  <1> DEFINE new == NewSnapshot(model, ZeroRom)
  <1>1. new \in Snapshot /\ new.model = model /\ new.identity = ZeroRom
      BY NewSnapshotType
  <1> HIDE DEF new
  <1>2. Updates(new, WithBoschResult(new, model))
      BY <1>1, BoschUpdates
  <1>3. s = WithBoschResult(new, model)
      BY DEF new
  <1> QED
      BY <1>1, <1>2, <1>3 DEF Updates, SameSensor

LEMMA BoschRoom ==
    ASSUME IInv, [Next]_vars, NEW model \in Bosch, NEW from, NEW to,
           UpdateBosch(model, from, to), NEW n \in Nat, n < MaxDevices,
           Len(sensorSnapshots) <= n \/ Numbered
    PROVE  \/ /\ Len(sensorSnapshots') <= n + 1
              /\ model \in boschRegistered => ModelSlots(model)' # {}
           \/ Numbered'
  <1>1. TypeOK /\ Len(sensorSnapshots) \in Nat /\ MaxDevices \in Nat
      BY MeasurementsType, MaxDs18b20Assumption DEF IInv, TypeInv, MaxDevices
  <1>2. CASE Numbered
      BY <1>2, NumberedStays
  <1>3. CASE Len(sensorSnapshots) <= n
      <2>1. CASE model \notin boschRegistered /\ UNCHANGED <<sensorSnapshots, dataAge>>
          BY <1>1, <1>3, <2>1
      <2>2. CASE /\ model \in boschRegistered
                 /\ \E i \in ModelSlots(model) :
                       Writes(i, WithBoschResult(sensorSnapshots[i], model))
          BY <1>1, <1>3, <2>2, NumberedStays DEF Writes
      <2>3. CASE /\ model \in boschRegistered /\ ModelSlots(model) = {}
                 /\ \E i : Adds(i, WithBoschResult(NewSnapshot(model, ZeroRom), model))
          <3> DEFINE s == WithBoschResult(NewSnapshot(model, ZeroRom), model)
          <3>1. PICK i : Adds(i, s)
              BY <2>3
          <3>2. s.model = model
              BY <1>1, NewBoschSlot
          <3> HIDE DEF s
          <3>3. i \in ModelSlots(model)'
              BY <3>1, <3>2 DEF Adds, ModelSlots, Slots
          <3> QED
              BY <1>1, <1>3, <3>1, <3>3 DEF Adds
      <2> QED
          BY <1>1, <1>3, <2>1, <2>2, <2>3, BoschSteps
  <1> QED
      BY <1>2, <1>3

LEMMA NextRoomInv ==
    ASSUME IInv, MeasureInv, RoomInv, [Next]_vars
    PROVE  RoomInv'
  <1> USE MaxDs18b20Assumption
  <1>0. /\ TypeOK /\ Len(measurements) \in Nat /\ cursor \in Nat \ {0}
        /\ Slots = 1..Len(sensorSnapshots) /\ Len(sensorSnapshots) \in Nat
      BY MeasurementsType DEF IInv, TypeInv
  <1>n. /\ Numbered => Numbered'
        /\ \A model : ModelSlots(model) \subseteq ModelSlots(model)'
      BY NumberedStays
  <1>1. CASE Environment \/ SearchTask \/ UNCHANGED vars
      <2>1. Quiet
          BY <1>1, QuietSteps
      <2>2. /\ Slots' = Slots
            /\ ModelSlots("BMx280")' = ModelSlots("BMx280")
          BY <2>1 DEF Quiet, Slots, ModelSlots
      <2> QED
          BY <1>n, <2>1, <2>2 DEF Quiet, RoomInv
  <1>2. CASE Measures
      <2>1. /\ Slots' = Slots
            /\ task \notin CriticalSteps /\ task' \notin CriticalSteps
          BY <1>2, MeasureSteps DEF Slots
      <2> QED
          BY <1>n, <2>1 DEF RoomInv, CriticalSteps
  <1>3. CASE EnterCritical
      <2>1. /\ task = "enter" /\ task' = "updateDS18B20" /\ cursor' = 1
            /\ Len(sensorSnapshots') = Len(sensorSnapshots)
          BY <1>3, EnterSteps
      <2>2. Slots = {} \/ Numbered
          BY <2>1 DEF RoomInv, CriticalSteps
      <2>3. Slots = {} => Len(sensorSnapshots) = 0
          BY <1>0
      <2> QED
          BY <1>n, <2>1, <2>2, <2>3 DEF RoomInv, CriticalSteps
  <1>4. CASE RefreshDs18b20 \/ RegisterDs18b20 \/ IgnoreDs18b20
      <2>1. MeasurementFrame
          BY <1>0, <1>4, MeasurementSteps
      <2>2. Len(sensorSnapshots') \in {Len(sensorSnapshots), Len(sensorSnapshots) + 1}
          BY <1>0, <1>4, MeasurementSteps DEF Writes, Adds
      <2> QED
          BY <1>0, <1>n, <2>1, <2>2 DEF MeasurementFrame, RoomInv, CriticalSteps
  <1>5. CASE MarkMissing
      <2>1. /\ task = "updateDS18B20" /\ task' = "updateBMx280"
            /\ cursor > Len(measurements)
            /\ Len(sensorSnapshots') = Len(sensorSnapshots)
          BY <1>0, <1>5, MissingSteps
      <2>2. cursor - 1 <= MaxDs18b20
          BY <1>0, <2>1 DEF MeasureInv
      <2> QED
          BY <1>0, <1>n, <2>1, <2>2 DEF RoomInv, CriticalSteps
  <1>6. CASE UpdateBmx280
      <2>1. /\ UpdateBosch("BMx280", "updateBMx280", "updateBME680") /\ "BMx280" \in Bosch
            /\ MaxDs18b20 \in Nat /\ MaxDs18b20 < MaxDevices
          BY <1>6 DEF UpdateBmx280, Bosch, MaxDevices
      <2>2. task = "updateBMx280" /\ task' = "updateBME680"
          BY <2>1 DEF UpdateBosch
      <2>3. boschRegistered' = boschRegistered
          BY RegisteredStay
      <2>4. \/ /\ Len(sensorSnapshots') <= MaxDs18b20 + 1
               /\ "BMx280" \in boschRegistered => ModelSlots("BMx280")' # {}
            \/ Numbered'
          BY <2>1, <2>2, BoschRoom DEF RoomInv
      <2> QED
          BY <2>2, <2>3, <2>4 DEF RoomInv, CriticalSteps
  <1>7. CASE UpdateBmx680
      <2>1. /\ UpdateBosch("BME680", "updateBME680", "exit") /\ "BME680" \in Bosch
            /\ MaxDs18b20 + 1 \in Nat /\ MaxDs18b20 + 1 < MaxDevices
          BY <1>7 DEF UpdateBmx680, Bosch, MaxDevices
      <2>2. task = "updateBME680" /\ task' = "exit"
          BY <2>1 DEF UpdateBosch
      <2>3. /\ boschRegistered' = boschRegistered
            /\ boschRegistered \subseteq {"BMx280", "BME680"}
          BY <1>0, RegisteredStay, FittedBoschAssumption DEF TypeOK, Bosch
      <2>4. \/ "BME680" \in boschRegistered => ModelSlots("BME680")' # {}
            \/ Numbered'
          BY <2>1, <2>2, BoschRoom DEF RoomInv
      <2>5. ("BMx280" \in boschRegistered => ModelSlots("BMx280") # {}) \/ Numbered
          BY <2>2 DEF RoomInv
      <2>6. Numbered'
          <3>1. CASE Numbered'
              BY <3>1
          <3>2. CASE /\ "BMx280" \in boschRegistered => ModelSlots("BMx280") # {}
                     /\ "BME680" \in boschRegistered => ModelSlots("BME680")' # {}
              <4>1. "BMx280" \in boschRegistered => ModelSlots("BMx280")' # {}
                  BY <1>n, <3>2
              <4>2. ASSUME NEW model \in boschRegistered' PROVE ModelSlots(model)' # {}
                  <5>1. CASE model = "BMx280"
                      BY <2>3, <4>1, <5>1
                  <5>2. CASE model = "BME680"
                      BY <2>3, <3>2, <5>2
                  <5> QED
                      BY <2>3, <5>1, <5>2
              <4> QED
                  BY <4>2 DEF Numbered
          <3> QED
              BY <1>n, <2>4, <2>5, <3>1, <3>2
      <2> QED
          BY <2>2, <2>6 DEF RoomInv, CriticalSteps
  <1>8. CASE ExitCritical
      BY <1>8, <1>n, ExitSteps DEF RoomInv, CriticalSteps
  <1> QED
      BY <1>1, <1>2, <1>3, <1>4, <1>5, <1>6, <1>7, <1>8
      DEF Next, TemperatureTask, UpdateSnapshots, Measures

----------------------------------------------------------------------------
(* Which slots a step touches.                                             *)

LEMMA MeasurementWrites ==
    ASSUME IInv, MeasureInv, NEW s \in Snapshot, cursor \in 1..Len(measurements),
           NEW t, t = WithMeasurement(s, measurements[cursor])
    PROVE  /\ t \in Snapshot
           /\ t.model = s.model /\ t.identity = s.identity
           /\ t.state # "MISSING"
  <1> DEFINE m == measurements[cursor]
  <1>1. m \in Measurement /\ roundTick \in Ticks /\ (m.status = "OK" => m.reading \in Readings)
      BY MeasurementsType DEF IInv, TypeInv, MeasureInv
  <1>2. t = WithMeasurement(s, m)
      OBVIOUS
  <1> HIDE DEF m
  <1>3. CASE m.status = "OK"
      BY <1>1, <1>2, <1>3, MeasurementAttempt DEF Succeeds, SameSensor
  <1>4. CASE m.status # "OK"
      <2>1. Fails(s, t, m.status) /\ m.status # "MISSING"
          BY <1>1, <1>2, <1>4, MeasurementAttempt
      <2> QED
          BY <2>1 DEF Fails, SameSensor, State
  <1> QED
      BY <1>3, <1>4

LEMMA NewDs18b20 ==
    ASSUME TypeOK, NEW m \in Measurement, NEW s, s = NewSnapshot("DS18B20", m.rom)
    PROVE  s \in Snapshot /\ s.model = "DS18B20" /\ s.identity = m.rom /\ m.rom \in Roms
  <1>1. m.rom \in Roms
      BY DEF Measurement
  <1> QED
      BY <1>1, NewSnapshotType

(* A Bosch update leaves the slots of the other models alone. *)
LEMMA BoschWrites ==
    ASSUME TypeOK, NEW model \in Bosch, NEW from, NEW to, UpdateBosch(model, from, to)
    PROVE  /\ \A j \in Slots :
                  /\ j \in Slots'
                  /\ sensorSnapshots'[j].model = sensorSnapshots[j].model
           /\ \A j \in Slots' : sensorSnapshots'[j].model # model =>
                  /\ j \in Slots
                  /\ sensorSnapshots'[j] = sensorSnapshots[j]
                  /\ dataAge'[j] = dataAge[j]
           /\ \A other : other # model => ModelSlots(other)' = ModelSlots(other)
  <1>1. CASE UNCHANGED <<sensorSnapshots, dataAge>>
      BY <1>1 DEF Slots, ModelSlots
  <1>2. CASE \E i \in ModelSlots(model) :
                Writes(i, WithBoschResult(sensorSnapshots[i], model))
      <2>1. PICK i \in ModelSlots(model) :
                Writes(i, WithBoschResult(sensorSnapshots[i], model))
          BY <1>2
      <2> DEFINE s == WithBoschResult(sensorSnapshots[i], model)
      <2>2. i \in Slots /\ sensorSnapshots[i].model = model
          BY DEF ModelSlots
      <2>3. s.model = model
          BY <2>2, SlotType, BoschUpdates DEF Updates, SameSensor
      <2>4. Writes(i, s)
          BY <2>1
      <2> HIDE DEF s
      <2>5. Slots' = Slots
          BY <2>4 DEF Writes, Slots
      <2>6. \A j \in Slots : j # i => dataAge'[j] = dataAge[j]
          BY <2>4 DEF Writes, AgeAfter
      <2> QED
          BY <2>2, <2>3, <2>4, <2>5, <2>6 DEF Writes, ModelSlots
  <1>3. CASE \E i : Adds(i, WithBoschResult(NewSnapshot(model, ZeroRom), model))
      <2>1. PICK i : Adds(i, WithBoschResult(NewSnapshot(model, ZeroRom), model))
          BY <1>3
      <2> DEFINE s == WithBoschResult(NewSnapshot(model, ZeroRom), model)
      <2>2. s.model = model
          BY NewBoschSlot
      <2>3. Adds(i, s)
          BY <2>1
      <2> HIDE DEF s
      <2>4. Slots' = Slots \union {i}
          BY <2>3 DEF Adds, Slots
      <2>5. \A j \in Slots : dataAge'[j] = dataAge[j]
          BY <2>3 DEF Adds, AgeAfter
      <2> QED
          BY <2>2, <2>3, <2>4, <2>5 DEF Adds, ModelSlots
  <1> QED
      BY <1>1, <1>2, <1>3, BoschSteps

----------------------------------------------------------------------------
(* Which sensors a round has seen.                                         *)

(* The next measurement, as a change of one slot: i is the slot of its rom,  *)
(* and 0 if the list is full.                                                *)
Looks(i, m) ==
    /\ m \in Measurement /\ m = measurements[cursor]
    /\ \A j \in Slots :
           /\ j \in Slots'
           /\ j # i => sensorSnapshots'[j] = sensorSnapshots[j] /\ dataAge'[j] = dataAge[j]
           /\ j # i /\ sensorSnapshots[j].model = "DS18B20" =>
                  sensorSnapshots[j].identity # m.rom
    /\ Slots' = Slots \union (IF i = 0 THEN {} ELSE {i})
    /\ ds18b20Seen' = ds18b20Seen \union (IF i = 0 THEN {} ELSE {i})
    /\ i # 0 =>
           /\ i \in 1..MaxDevices
           /\ sensorSnapshots'[i].model = "DS18B20"
           /\ sensorSnapshots'[i].identity = m.rom
           /\ sensorSnapshots'[i].state # "MISSING"
           /\ dataAge' = AgeAfter(i, sensorSnapshots'[i])
           /\ i \in Slots =>
                  /\ sensorSnapshots[i].model = "DS18B20"
                  /\ sensorSnapshots[i].identity = m.rom
                  /\ sensorSnapshots'[i] = WithMeasurement(sensorSnapshots[i], m)
           /\ i \notin Slots =>
                  sensorSnapshots'[i] = WithMeasurement(NewSnapshot("DS18B20", m.rom), m)

LEMMA MeasurementLooks ==
    ASSUME IInv, MeasureInv, RefreshDs18b20 \/ RegisterDs18b20 \/ IgnoreDs18b20
    PROVE  MeasurementFrame /\ \E i : Looks(i, measurements[cursor])
  <1> DEFINE m == measurements[cursor]
  <1>0. /\ TypeOK /\ Slots = 1..Len(sensorSnapshots) /\ Len(sensorSnapshots) \in Nat
        /\ Len(sensorSnapshots) <= MaxDevices /\ MaxDevices \in Nat
      BY MeasurementsType, MaxDs18b20Assumption DEF IInv, TypeInv, TypeOK, MaxDevices
  <1>1. MeasurementFrame /\ m \in Measurement /\ cursor \in 1..Len(measurements)
      BY <1>0, MeasurementSteps DEF MeasurementFrame
  <1>2. \A i, j \in Slots :
            /\ sensorSnapshots[i].model = "DS18B20" /\ sensorSnapshots[j].model = "DS18B20"
            /\ sensorSnapshots[i].identity = sensorSnapshots[j].identity
            => i = j
      BY DEF IInv, ListInv, OneSlotPerSensor
  <1> HIDE DEF m
  <1>3. CASE \E i \in Ds18b20Slots(m.rom) :
                /\ Writes(i, WithMeasurement(sensorSnapshots[i], m))
                /\ ds18b20Seen' = ds18b20Seen \union {i}
      <2>1. PICK i \in Ds18b20Slots(m.rom) :
                /\ Writes(i, WithMeasurement(sensorSnapshots[i], m))
                /\ ds18b20Seen' = ds18b20Seen \union {i}
          BY <1>3
      <2> DEFINE t == WithMeasurement(sensorSnapshots[i], m)
      <2>2. /\ i \in Slots /\ i # 0 /\ i \in 1..MaxDevices
            /\ sensorSnapshots[i].model = "DS18B20" /\ sensorSnapshots[i].identity = m.rom
          BY <1>0 DEF Ds18b20Slots
      <2>3. t.model = "DS18B20" /\ t.identity = m.rom /\ t.state # "MISSING"
          BY <1>0, <1>1, <2>2, SlotType, MeasurementWrites DEF m
      <2>4. t = WithMeasurement(sensorSnapshots[i], m) /\ Writes(i, t)
          BY <2>1
      <2> HIDE DEF t
      <2>5. Slots' = Slots
          BY <2>4 DEF Writes, Slots
      <2>6. \A j \in Slots : j # i => dataAge'[j] = dataAge[j]
          BY <2>4 DEF Writes, AgeAfter
      <2>7. sensorSnapshots'[i] = t /\ dataAge' = AgeAfter(i, t)
          BY <2>2, <2>4 DEF Writes
      <2>8. \A j \in Slots : j # i => sensorSnapshots'[j] = sensorSnapshots[j]
          BY <2>4 DEF Writes
      <2>9. \A j \in Slots : j # i /\ sensorSnapshots[j].model = "DS18B20" =>
                                sensorSnapshots[j].identity # m.rom
          BY <1>2, <2>2
      <2>10. Looks(i, m)
          BY <1>1, <2>1, <2>2, <2>3, <2>4, <2>5, <2>6, <2>7, <2>8, <2>9 DEF Looks, m
      <2> QED
          BY <1>1, <2>10 DEF m
  <1>4. CASE \E i :
                /\ Ds18b20Slots(m.rom) = {}
                /\ Adds(i, WithMeasurement(NewSnapshot("DS18B20", m.rom), m))
                /\ ds18b20Seen' = ds18b20Seen \union {i}
      <2>1. PICK i :
                /\ Ds18b20Slots(m.rom) = {}
                /\ Adds(i, WithMeasurement(NewSnapshot("DS18B20", m.rom), m))
                /\ ds18b20Seen' = ds18b20Seen \union {i}
          BY <1>4
      <2> DEFINE new == NewSnapshot("DS18B20", m.rom)
                 t == WithMeasurement(new, m)
      <2>2. new \in Snapshot /\ new.model = "DS18B20" /\ new.identity = m.rom
          BY <1>0, <1>1, NewDs18b20
      <2>3. t = WithMeasurement(new, m) /\ Adds(i, t)
          BY <2>1
      <2>4. t = WithMeasurement(NewSnapshot("DS18B20", m.rom), m)
          OBVIOUS
      <2> HIDE DEF new, t
      <2>5. t.model = "DS18B20" /\ t.identity = m.rom /\ t.state # "MISSING"
          BY <1>0, <1>1, <2>2, <2>3, MeasurementWrites DEF m
      <2>6. Slots' = Slots \union {i}
          BY <2>3 DEF Adds, Slots
      <2>7. i # 0 /\ i \in 1..MaxDevices /\ i \notin Slots
          BY <1>0, <2>3 DEF Adds
      <2>8. \A j \in Slots : dataAge'[j] = dataAge[j] /\ sensorSnapshots'[j] = sensorSnapshots[j]
          BY <2>3 DEF Adds, AgeAfter
      <2>9. \A j \in Slots : sensorSnapshots[j].model = "DS18B20" =>
                                sensorSnapshots[j].identity # m.rom
          BY <2>1 DEF Ds18b20Slots
      <2>10. sensorSnapshots'[i] = t /\ dataAge' = AgeAfter(i, t)
          BY <2>3 DEF Adds
      <2>11. Looks(i, m)
          BY <1>1, <2>1, <2>4, <2>5, <2>6, <2>7, <2>8, <2>9, <2>10 DEF Looks, m
      <2> QED
          BY <1>1, <2>11 DEF m
  <1>5. CASE /\ Ds18b20Slots(m.rom) = {}
             /\ UNCHANGED <<sensorSnapshots, ds18b20Seen, dataAge>>
      <2>1. Slots' = Slots /\ ds18b20Seen' = ds18b20Seen
          BY <1>5 DEF Slots
      <2>2. \A j \in Slots : sensorSnapshots[j].model = "DS18B20" =>
                                sensorSnapshots[j].identity # m.rom
          BY <1>5 DEF Ds18b20Slots
      <2>3. Looks(0, m)
          BY <1>1, <1>5, <2>1, <2>2 DEF Looks, m
      <2> QED
          BY <1>1, <2>3 DEF m
  <1> QED
      BY <1>0, <1>3, <1>4, <1>5, MeasurementSteps DEF m

LEMMA MissingFields ==
    ASSUME NEW s
    PROVE  /\ Missing(s).model = s.model /\ Missing(s).identity = s.identity
           /\ Missing(s).state = "MISSING" /\ ~Missing(s).dataValid
  BY DEF Missing, Attempted

LEMMA MeasuredGrows ==
    ASSUME NEW n \in Nat, NEW rom
    PROVE  Measured(rom, n + 1) <=> Measured(rom, n) \/ measurements[n + 1].rom = rom
  BY DEF Measured

LEMMA NextSeenInv ==
    ASSUME IInv, MeasureInv, SeenInv, [Next]_vars
    PROVE  SeenInv'
  <1>0. /\ TypeOK /\ Len(measurements) \in Nat /\ cursor \in Nat \ {0}
        /\ Slots = 1..Len(sensorSnapshots) /\ Len(sensorSnapshots) \in Nat
      BY MeasurementsType DEF IInv, TypeInv
  <1>1. CASE Environment \/ SearchTask \/ UNCHANGED vars
      BY <1>1, QuietSteps DEF Quiet, SeenInv, Slots, Measured
  <1>2. CASE Measures
      <2>1. /\ sensorSnapshots' = sensorSnapshots
            /\ task' # "updateDS18B20" /\ task' \notin AfterDs18b20
          BY <1>2, MeasureSteps DEF CriticalSteps, AfterDs18b20
      <2> QED
          BY <2>1 DEF SeenInv, Slots
  <1>3. CASE EnterCritical
      <2>1. /\ sensorSnapshots' = sensorSnapshots /\ measurements' = measurements
            /\ task' = "updateDS18B20" /\ cursor' = 1 /\ ds18b20Seen' = {}
          BY <1>3, EnterSteps
      <2>2. \A rom : ~Measured(rom, cursor - 1)'
          BY <2>1 DEF Measured
      <2>3. task' \notin AfterDs18b20
          BY <2>1 DEF AfterDs18b20
      <2> QED
          BY <2>1, <2>2, <2>3 DEF SeenInv, Slots
  <1>4. CASE RefreshDs18b20 \/ RegisterDs18b20 \/ IgnoreDs18b20
      <2> DEFINE m == measurements[cursor]
      <2>1. MeasurementFrame
          BY <1>4, MeasurementLooks
      <2>2. PICK i : Looks(i, m)
          BY <1>4, MeasurementLooks
      <2>3. task = "updateDS18B20" /\ task' = "updateDS18B20" /\ task' \notin AfterDs18b20
          BY <2>1 DEF MeasurementFrame, AfterDs18b20
      <2>4. \A rom : Measured(rom, cursor - 1)' <=> Measured(rom, cursor - 1) \/ m.rom = rom
          <3>1. cursor' = cursor + 1 /\ measurements' = measurements
              BY <2>1 DEF MeasurementFrame
          <3>2. cursor - 1 \in Nat /\ (cursor - 1) + 1 = cursor /\ cursor' - 1 = cursor
              BY <1>0, <3>1
          <3>3. \A rom : Measured(rom, cursor - 1)' <=> Measured(rom, cursor)
              BY <3>1, <3>2 DEF Measured
          <3> QED
              BY <3>2, <3>3, MeasuredGrows
      <2>5. m \in Measurement /\ m.rom \in Roms
          BY <2>2 DEF Looks, Measurement
      <2> HIDE DEF m
      <2>6. \A j \in Slots' : (j = i /\ i # 0) \/ (j \in Slots /\ j # i)
          <3>1. 0 \notin Slots /\ Slots' = Slots \union (IF i = 0 THEN {} ELSE {i})
              BY <1>0, <2>2 DEF Looks
          <3> QED
              BY <3>1
      <2>7. ASSUME NEW j \in Slots', sensorSnapshots'[j].model = "DS18B20"
            PROVE  /\ sensorSnapshots'[j].identity \in Roms
                   /\ j \in ds18b20Seen' <=>
                          Measured(sensorSnapshots[j].identity, cursor - 1)'
          <3>1. CASE j = i /\ i # 0
              BY <2>2, <2>4, <2>5, <3>1 DEF Looks
          <3>2. CASE j \in Slots /\ j # i
              <4>1. /\ sensorSnapshots'[j] = sensorSnapshots[j]
                    /\ sensorSnapshots[j].identity # m.rom
                    /\ j \in ds18b20Seen' <=> j \in ds18b20Seen
                  BY <2>2, <2>7, <3>2 DEF Looks
              <4>2. /\ sensorSnapshots[j].identity \in Roms
                    /\ j \in ds18b20Seen <=> Measured(sensorSnapshots[j].identity, cursor - 1)
                  BY <2>3, <2>7, <3>2, <4>1 DEF SeenInv
              <4> QED
                  BY <2>4, <4>1, <4>2
          <3> QED
              BY <2>6, <3>1, <3>2
      <2>8. ASSUME NEW j \in ds18b20Seen'
            PROVE  /\ j \in Slots'
                   /\ sensorSnapshots'[j].model = "DS18B20"
                   /\ sensorSnapshots'[j].state # "MISSING"
          <3>1. CASE j = i /\ i # 0
              BY <2>2, <3>1 DEF Looks
          <3>2. CASE j \in ds18b20Seen /\ ~(j = i /\ i # 0)
              <4>1. /\ j \in Slots
                    /\ sensorSnapshots[j].model = "DS18B20"
                    /\ sensorSnapshots[j].state # "MISSING"
                  BY <2>3, <3>2 DEF SeenInv
              <4>2. j # i
                  BY <1>0, <3>2, <4>1
              <4> QED
                  BY <2>2, <4>1, <4>2 DEF Looks
          <3> QED
              BY <2>2, <3>1, <3>2 DEF Looks
      <2> QED
          BY <2>3, <2>7, <2>8 DEF SeenInv
  <1>5. CASE MarkMissing
      <2>1. /\ task = "updateDS18B20" /\ task' = "updateBMx280"
            /\ cursor > Len(measurements)
            /\ Slots' = Slots /\ measurements' = measurements
            /\ \A i \in Slots :
                   sensorSnapshots'[i] =
                       IF sensorSnapshots[i].model = "DS18B20" /\ i \notin ds18b20Seen
                           THEN Missing(sensorSnapshots[i])
                           ELSE sensorSnapshots[i]
          BY <1>0, <1>5, MissingSteps DEF BoschFrame, Slots
      <2>2. cursor - 1 = Len(measurements)
          BY <1>0, <2>1 DEF MeasureInv
      <2>3. \A rom : Measured(rom, Len(measurements))' <=> Measured(rom, cursor - 1)
          BY <2>1, <2>2 DEF Measured
      <2>4. ASSUME NEW i \in Slots, sensorSnapshots'[i].model = "DS18B20"
            PROVE  /\ sensorSnapshots[i].model = "DS18B20"
                   /\ sensorSnapshots'[i].identity = sensorSnapshots[i].identity
                   /\ i \notin ds18b20Seen => sensorSnapshots'[i].state = "MISSING"
                   /\ i \in ds18b20Seen => sensorSnapshots'[i] = sensorSnapshots[i]
          <3>1. CASE sensorSnapshots[i].model = "DS18B20" /\ i \notin ds18b20Seen
              <4>1. sensorSnapshots'[i] = Missing(sensorSnapshots[i])
                  BY <2>1, <3>1
              <4> QED
                  BY <3>1, <4>1, MissingFields
          <3>2. CASE ~(sensorSnapshots[i].model = "DS18B20" /\ i \notin ds18b20Seen)
              <4>1. sensorSnapshots'[i] = sensorSnapshots[i]
                  BY <2>1, <3>2
              <4> QED
                  BY <2>4, <3>2, <4>1
          <3> QED
              BY <3>1, <3>2
      <2> QED
          BY <2>1, <2>3, <2>4 DEF SeenInv
  <1>6. CASE UpdateBmx280 \/ UpdateBmx680
      <2>1. PICK model \in Bosch, from \in AfterDs18b20, to \in AfterDs18b20 :
                UpdateBosch(model, from, to)
          BY <1>6 DEF UpdateBmx280, UpdateBmx680, Bosch, AfterDs18b20
      <2>2. BoschFrame /\ task = from /\ task' = to
          BY <1>0, <2>1, BoschSteps
      <2>3. "DS18B20" # model
          BY DEF Bosch
      <2>4. \A j \in Slots' : sensorSnapshots'[j].model = "DS18B20" =>
                j \in Slots /\ sensorSnapshots'[j] = sensorSnapshots[j]
          BY <1>0, <2>1, <2>3, BoschWrites
      <2>5. \A rom : Measured(rom, Len(measurements))' <=> Measured(rom, Len(measurements))
          BY <2>2 DEF BoschFrame, Measured
      <2>6. task \in AfterDs18b20 /\ task' # "updateDS18B20"
          BY <2>2 DEF AfterDs18b20
      <2> QED
          BY <2>4, <2>5, <2>6 DEF SeenInv
  <1>7. CASE ExitCritical
      <2>1. sensorSnapshots' = sensorSnapshots /\ task' = "delay"
          BY <1>7, ExitSteps
      <2> QED
          BY <2>1 DEF SeenInv, Slots, AfterDs18b20
  <1> QED
      BY <1>1, <1>2, <1>3, <1>4, <1>5, <1>6, <1>7
      DEF Next, TemperatureTask, UpdateSnapshots, Measures

----------------------------------------------------------------------------
(* The results of the Bosch sensors.                                       *)

(* What an update makes of a slot of its model. *)
BoschLooks(j, model) ==
    /\ j \in 1..MaxDevices
    /\ dataAge' = AgeAfter(j, sensorSnapshots'[j])
    /\ \E s \in Snapshot :
          /\ j \in Slots => s = sensorSnapshots[j]
          /\ j \notin Slots => s = NewSnapshot(model, ZeroRom)
          /\ boschStatus[model] = "SUCCESS" =>
                 Succeeds(s, sensorSnapshots'[j], boschResults[model])
          /\ boschStatus[model] = "ERROR" =>
                 Fails(s, sensorSnapshots'[j], "CONVERSION")
          /\ sensorSnapshots'[j].reading = boschResults[model]

LEMMA UpdateLooks ==
    ASSUME IInv, BoschInv, NEW model \in Bosch, NEW from, NEW to,
           UpdateBosch(model, from, to)
    PROVE  \A j \in ModelSlots(model)' : BoschLooks(j, model)
  <1>0. /\ TypeOK /\ Slots = 1..Len(sensorSnapshots) /\ Len(sensorSnapshots) \in Nat
        /\ Len(sensorSnapshots) <= MaxDevices /\ MaxDevices \in Nat
        /\ roundTick \in Ticks
        /\ boschStatus[model] \in {"SUCCESS", "ERROR"}
      BY MeasurementsType, MaxDs18b20Assumption DEF IInv, TypeInv, TypeOK, MaxDevices
  <1>1. boschStatus[model] = "SUCCESS" => boschResults[model] \in Readings
      BY DEF BoschInv
  <1>2. \A i \in ModelSlots(model) : sensorSnapshots[i].identity = ZeroRom
                                     /\ model \in boschRegistered
      BY DEF IInv, ListInv, SlotInv, ModelSlots
  <1>3. \A i, j \in ModelSlots(model) : i = j
      BY <1>2 DEF IInv, ListInv, OneSlotPerSensor, ModelSlots
  <1>4. ASSUME UNCHANGED sensorSnapshots, ModelSlots(model) = {}
        PROVE  ModelSlots(model)' = {}
      BY <1>4 DEF ModelSlots, Slots
  <1>5. CASE model \notin boschRegistered /\ UNCHANGED sensorSnapshots
      <2>1. ModelSlots(model) = {}
          BY <1>2, <1>5
      <2> QED
          BY <1>4, <1>5, <2>1
  <1>6. CASE \E i \in ModelSlots(model) :
                Writes(i, WithBoschResult(sensorSnapshots[i], model))
      <2>1. PICK i \in ModelSlots(model) :
                Writes(i, WithBoschResult(sensorSnapshots[i], model))
          BY <1>6
      <2> DEFINE s == sensorSnapshots[i]
                 t == WithBoschResult(s, model)
      <2>2. i \in Slots /\ s = sensorSnapshots[i] /\ s.model = model /\ s \in Snapshot
          BY <1>0, SlotType DEF ModelSlots
      <2>3. boschStatus[model] = "ERROR" => boschResults[model] = s.reading
          BY DEF BoschInv, Copied
      <2>4. Writes(i, t)
          BY <2>1
      <2>5. t = WithBoschResult(s, model)
          OBVIOUS
      <2> HIDE DEF s, t
      <2>6. /\ boschStatus[model] = "SUCCESS" => Succeeds(s, t, boschResults[model])
            /\ boschStatus[model] = "ERROR" => Fails(s, t, "CONVERSION")
            /\ t.reading = boschResults[model]
          BY <1>0, <1>1, <2>2, <2>3, <2>5, BoschAttempt
      <2>7. Slots' = Slots /\ sensorSnapshots'[i] = t /\ dataAge' = AgeAfter(i, t)
          BY <2>2, <2>4 DEF Writes, Slots
      <2>8. \A j \in ModelSlots(model)' : j = i
          BY <1>3, <2>2, <2>4, <2>7 DEF Writes, ModelSlots
      <2> QED
          BY <1>0, <2>2, <2>6, <2>7, <2>8 DEF BoschLooks
  <1>7. CASE /\ model \in boschRegistered /\ ModelSlots(model) = {}
             /\ \E i : Adds(i, WithBoschResult(NewSnapshot(model, ZeroRom), model))
      <2>1. PICK i : Adds(i, WithBoschResult(NewSnapshot(model, ZeroRom), model))
          BY <1>7
      <2> DEFINE s == NewSnapshot(model, ZeroRom)
                 t == WithBoschResult(s, model)
      <2>2. s = NewSnapshot(model, ZeroRom) /\ s \in Snapshot /\ s.reading = NoReading
          BY NewSnapshotType DEF NewSnapshot
      <2>3. boschStatus[model] = "ERROR" => boschResults[model] = NoReading
          BY <1>7 DEF BoschInv
      <2>4. Adds(i, t) /\ t = WithBoschResult(s, model)
          BY <2>1
      <2> HIDE DEF s, t
      <2>5. /\ boschStatus[model] = "SUCCESS" => Succeeds(s, t, boschResults[model])
            /\ boschStatus[model] = "ERROR" => Fails(s, t, "CONVERSION")
            /\ t.reading = boschResults[model]
          BY <1>0, <1>1, <2>2, <2>3, <2>4, BoschAttempt
      <2>6. /\ Slots' = Slots \union {i} /\ sensorSnapshots'[i] = t /\ i \notin Slots
            /\ dataAge' = AgeAfter(i, t) /\ i \in 1..MaxDevices
          BY <2>4 DEF Adds, Slots
      <2>7. \A j \in ModelSlots(model)' : j = i
          BY <1>7, <2>4, <2>6 DEF Adds, ModelSlots
      <2> QED
          BY <2>2, <2>5, <2>6, <2>7 DEF BoschLooks
  <1>8. CASE ModelSlots(model) = {} /\ UNCHANGED sensorSnapshots
      BY <1>4, <1>8
  <1> QED
      BY <1>0, <1>5, <1>6, <1>7, <1>8, BoschSteps

(* The parts of BoschInv that speak of one model. *)
ModelInv(model) ==
    /\ boschStatus[model] = "SUCCESS" =>
           model \in boschRegistered /\ boschResults[model] \in Readings
    /\ boschStatus[model] = "ERROR" => Copied(model)
    /\ boschStatus[model] = "ERROR" /\ ModelSlots(model) = {} =>
           boschResults[model] = NoReading
    /\ \A i \in ModelSlots(model) :
           sensorSnapshots[i].dataValid => boschResults[model] \in Readings

LEMMA BoschInvParts ==
    BoschInv <=>
        /\ \A model \in Bosch : ModelInv(model)
        /\ task \in {"delay", "convert", "measureBMx280"} => boschStatus["BMx280"] = "ERROR"
        /\ task \in {"delay", "convert", "measureBMx280", "measureBME680"} =>
               boschStatus["BME680"] = "ERROR"
        /\ task \in {"updateBME680", "exit"} => Copied("BMx280")
        /\ task = "exit" => Copied("BME680")
  BY DEF BoschInv, ModelInv, ModelSlots

(* A model whose slots and results stay as they are. *)
LEMMA ModelStays ==
    ASSUME NEW model, ModelInv(model),
           ModelSlots(model)' = ModelSlots(model),
           \A i \in ModelSlots(model) : sensorSnapshots'[i] = sensorSnapshots[i],
           boschStatus'[model] = boschStatus[model],
           boschResults'[model] = boschResults[model],
           boschRegistered' = boschRegistered
    PROVE  ModelInv(model)' /\ (Copied(model) => Copied(model)')
  BY DEF ModelInv, Copied

LEMMA UpdateBoschInv ==
    ASSUME IInv, BoschInv, NEW model \in Bosch, NEW from, NEW to,
           UpdateBosch(model, from, to)
    PROVE  /\ \A other \in Bosch : ModelInv(other)'
           /\ Copied(model)'
           /\ \A other \in Bosch : Copied(other) => Copied(other)'
  <1>1. /\ TypeOK /\ BoschFrame
        /\ \A other \in Bosch : ModelInv(other)
        /\ boschStatus[model] \in {"SUCCESS", "ERROR"}
      BY BoschSteps, BoschInvParts DEF IInv, TypeInv, TypeOK
  <1>2. \A j \in ModelSlots(model)' : BoschLooks(j, model)
      BY UpdateLooks
  <1>3. Copied(model)'
      BY <1>1, <1>2 DEF Copied, BoschLooks, BoschFrame
  <1>4. ASSUME NEW other \in Bosch, other # model
        PROVE  ModelInv(other)' /\ (Copied(other) => Copied(other)')
      <2>1. ModelSlots(other)' = ModelSlots(other)
          BY <1>1, <1>4, BoschWrites
      <2>2. \A i \in ModelSlots(other) : sensorSnapshots'[i] = sensorSnapshots[i]
          <3>1. \A i \in ModelSlots(other)' : i \in Slots' /\ sensorSnapshots'[i].model = other
              BY DEF ModelSlots
          <3> QED
              BY <1>1, <1>4, <2>1, <3>1, BoschWrites
      <2> QED
          BY <1>1, <2>1, <2>2, ModelStays DEF BoschFrame
  <1>5. ASSUME NEW j \in ModelSlots(model)', sensorSnapshots'[j].dataValid
        PROVE  boschResults[model] \in Readings
      <2>1. CASE boschStatus[model] = "SUCCESS"
          BY <1>1, <2>1 DEF ModelInv
      <2>2. CASE boschStatus[model] = "ERROR"
          <3>1. PICK s \in Snapshot :
                    /\ j \in Slots => s = sensorSnapshots[j]
                    /\ j \notin Slots => s = NewSnapshot(model, ZeroRom)
                    /\ Fails(s, sensorSnapshots'[j], "CONVERSION")
              BY <1>2, <2>2 DEF BoschLooks
          <3>2. s.dataValid
              BY <1>5, <3>1 DEF Fails
          <3>3. j \in Slots
              BY <3>1, <3>2 DEF NewSnapshot
          <3>4. sensorSnapshots'[j].model = model
              BY DEF ModelSlots
          <3>5. j \in ModelSlots(model)
              BY <1>1, <3>3, <3>4, BoschWrites DEF ModelSlots
          <3> QED
              BY <1>1, <3>1, <3>2, <3>3, <3>5 DEF ModelInv
      <2> QED
          BY <1>1, <2>1, <2>2
  <1>6. ModelSlots(model)' = {} => ModelSlots(model) = {}
      BY <1>1, BoschWrites DEF ModelSlots
  <1>7. ModelInv(model)'
      BY <1>1, <1>3, <1>5, <1>6 DEF ModelInv, BoschFrame
  <1> QED
      BY <1>3, <1>4, <1>7

LEMMA NextBoschInv ==
    ASSUME IInv, MeasureInv, RoomInv, BoschInv, [Next]_vars
    PROVE  BoschInv'
  <1>0. /\ TypeOK /\ boschStatus \in [Bosch -> {"SUCCESS", "ERROR"}]
        /\ boschResults \in [Bosch -> Readings \union {NoReading}]
        /\ boschRegistered' = boschRegistered
      BY RegisteredStay DEF IInv, TypeInv, TypeOK
  <1>i. /\ \A model \in Bosch : ModelInv(model)
        /\ task \in {"delay", "convert", "measureBMx280"} => boschStatus["BMx280"] = "ERROR"
        /\ task \in {"delay", "convert", "measureBMx280", "measureBME680"} =>
               boschStatus["BME680"] = "ERROR"
        /\ task \in {"updateBME680", "exit"} => Copied("BMx280")
        /\ task = "exit" => Copied("BME680")
      BY BoschInvParts
  <1>s. Bosch = {"BMx280", "BME680"} /\ "DS18B20" \notin Bosch /\ "BMx280" # "BME680"
      BY DEF Bosch
  <1>f. SUFFICES
            /\ \A model \in Bosch : ModelInv(model)'
            /\ task' \in {"delay", "convert", "measureBMx280"} =>
                   boschStatus'["BMx280"] = "ERROR"
            /\ task' \in {"delay", "convert", "measureBMx280", "measureBME680"} =>
                   boschStatus'["BME680"] = "ERROR"
            /\ task' \in {"updateBME680", "exit"} => Copied("BMx280")'
            /\ task' = "exit" => Copied("BME680")'
      BY DEF BoschInv, ModelInv, ModelSlots
  <1>g. ASSUME UNCHANGED <<boschStatus, boschResults>>,
               \A model \in Bosch :
                   /\ ModelSlots(model)' = ModelSlots(model)
                   /\ \A i \in ModelSlots(model) : sensorSnapshots'[i] = sensorSnapshots[i]
        PROVE  \A model \in Bosch : ModelInv(model)' /\ (Copied(model) => Copied(model)')
      BY <1>0, <1>i, <1>g, ModelStays
  <1>1. CASE Environment \/ SearchTask \/ UNCHANGED vars
      <2>1. Quiet
          BY <1>1, QuietSteps
      <2>2. /\ UNCHANGED <<boschStatus, boschResults, task, sensorSnapshots>>
            /\ \A model \in Bosch : ModelSlots(model)' = ModelSlots(model)
          BY <2>1 DEF Quiet, ModelSlots, Slots
      <2> QED
          BY <1>g, <1>i, <1>s, <2>2
  <1>2. CASE LockForMeasure \/ ConvertAndRead \/ UnlockAfterMeasure \/ StampRound
             \/ EnterCritical
      <2>1. UNCHANGED <<boschStatus, boschResults, sensorSnapshots>>
          BY <1>2 DEF LockForMeasure, ConvertAndRead, UnlockAfterMeasure, StampRound,
                      EnterCritical, roundVars, listVars
      <2>2. /\ task' \notin {"updateBME680", "exit", "measureBME680"}
            /\ task' \in {"delay", "convert", "measureBMx280"} =>
                   task \in {"delay", "convert", "measureBMx280"}
          BY <1>2 DEF LockForMeasure, ConvertAndRead, UnlockAfterMeasure, StampRound,
                      EnterCritical
      <2>3. \A model \in Bosch : ModelSlots(model)' = ModelSlots(model)
          BY <2>1 DEF ModelSlots, Slots
      <2> QED
          BY <1>g, <1>i, <2>1, <2>2, <2>3
  <1>m. ASSUME NEW model \in Bosch, NEW from, NEW to, MeasureBosch(model, from, to),
               boschStatus[model] = "ERROR"
        PROVE  /\ \A other \in Bosch : ModelInv(other)'
               /\ \A other \in Bosch : other # model => boschStatus'[other] = boschStatus[other]
      <2>1. /\ UNCHANGED sensorSnapshots
            /\ \A other : ModelSlots(other)' = ModelSlots(other)
          BY <1>m DEF MeasureBosch, listVars, ModelSlots, Slots
      <2>2. CASE /\ model \in boschRegistered
                 /\ \E value \in Readings :
                       boschResults' = [boschResults EXCEPT ![model] = value]
                 /\ boschStatus' = [boschStatus EXCEPT ![model] = "SUCCESS"]
          <3>1. /\ boschResults'[model] \in Readings
                /\ boschStatus'[model] = "SUCCESS"
                /\ \A other \in Bosch : other # model =>
                       /\ boschResults'[other] = boschResults[other]
                       /\ boschStatus'[other] = boschStatus[other]
              BY <1>0, <2>2
          <3>2. ModelInv(model)'
              BY <1>0, <2>2, <3>1 DEF ModelInv
          <3>3. \A other \in Bosch : other # model => ModelInv(other)'
              BY <1>0, <1>i, <2>1, <3>1, ModelStays
          <3> QED
              BY <3>1, <3>2, <3>3
      <2>3. CASE /\ boschStatus' = [boschStatus EXCEPT ![model] = "ERROR"]
                 /\ boschResults' = boschResults
          <3>1. boschStatus' = boschStatus
              BY <1>0, <1>m, <2>3
          <3> QED
              BY <1>g, <2>1, <2>3, <3>1
      <2> QED
          BY <1>0, <1>m, <2>2, <2>3, BoschMeasures
  <1>3. CASE MeasureBmx280
      <2>1. /\ MeasureBosch("BMx280", "measureBMx280", "measureBME680")
            /\ task = "measureBMx280" /\ task' = "measureBME680"
          BY <1>3 DEF MeasureBmx280, MeasureBosch
      <2> QED
          BY <1>i, <1>m, <1>s, <2>1
  <1>4. CASE MeasureBmx680
      <2>1. /\ MeasureBosch("BME680", "measureBME680", "stamp")
            /\ task = "measureBME680" /\ task' = "stamp"
          BY <1>4 DEF MeasureBmx680, MeasureBosch
      <2> QED
          BY <1>i, <1>m, <1>s, <2>1
  <1>5. CASE RefreshDs18b20 \/ RegisterDs18b20 \/ IgnoreDs18b20
      <2>1. MeasurementFrame
          BY <1>5, MeasurementLooks
      <2>2. PICK i : Looks(i, measurements[cursor])
          BY <1>5, MeasurementLooks
      <2>3. ASSUME NEW model \in Bosch
            PROVE  /\ ModelSlots(model)' = ModelSlots(model)
                   /\ \A j \in ModelSlots(model) : sensorSnapshots'[j] = sensorSnapshots[j]
          <3>0. 0 \notin Slots
              BY MeasurementsType, <1>0
          <3>1. \A j \in Slots : sensorSnapshots[j].model = model => j # i
              <4>1. i # 0 /\ i \in Slots => sensorSnapshots[i].model = "DS18B20"
                  BY <2>2 DEF Looks
              <4> QED
                  BY <1>s, <3>0, <4>1
          <3>2. \A j \in Slots' : sensorSnapshots'[j].model = model => j # i \/ i = 0
              <4>1. i # 0 => sensorSnapshots'[i].model = "DS18B20"
                  BY <2>2 DEF Looks
              <4> QED
                  BY <1>s, <4>1
          <3> QED
              BY <2>2, <3>0, <3>1, <3>2 DEF Looks, ModelSlots
      <2>4. UNCHANGED <<boschStatus, boschResults>> /\ task' = "updateDS18B20"
          BY <2>1 DEF MeasurementFrame
      <2> QED
          BY <1>g, <2>3, <2>4
  <1>6. CASE MarkMissing
      <2>1. /\ task' = "updateBMx280" /\ BoschFrame /\ Slots' = Slots
            /\ \A i \in Slots :
                   sensorSnapshots'[i] =
                       IF sensorSnapshots[i].model = "DS18B20" /\ i \notin ds18b20Seen
                           THEN Missing(sensorSnapshots[i])
                           ELSE sensorSnapshots[i]
          BY <1>0, <1>6, MissingSteps DEF Slots
      <2>2. ASSUME NEW i \in Slots
            PROVE  /\ sensorSnapshots'[i].model = sensorSnapshots[i].model
                   /\ sensorSnapshots[i].model # "DS18B20" =>
                          sensorSnapshots'[i] = sensorSnapshots[i]
          BY <2>1, MissingFields
      <2>3. \A model \in Bosch :
                /\ ModelSlots(model)' = ModelSlots(model)
                /\ \A i \in ModelSlots(model) : sensorSnapshots'[i] = sensorSnapshots[i]
          BY <1>s, <2>1, <2>2 DEF ModelSlots
      <2> QED
          BY <1>g, <2>1, <2>3 DEF BoschFrame
  <1>7. CASE UpdateBmx280
      <2>1. UpdateBosch("BMx280", "updateBMx280", "updateBME680") /\ task' = "updateBME680"
          BY <1>7 DEF UpdateBmx280, UpdateBosch
      <2> QED
          BY <1>s, <2>1, UpdateBoschInv
  <1>8. CASE UpdateBmx680
      <2>1. /\ UpdateBosch("BME680", "updateBME680", "exit")
            /\ task = "updateBME680" /\ task' = "exit"
          BY <1>8 DEF UpdateBmx680, UpdateBosch
      <2> QED
          BY <1>i, <1>s, <2>1, UpdateBoschInv
  <1>9. CASE ExitCritical
      <2>1. /\ task = "exit" /\ task' = "delay"
            /\ boschStatus' = [model \in Bosch |-> "ERROR"]
            /\ UNCHANGED <<boschResults, sensorSnapshots>>
          BY <1>9, ExitSteps
      <2>2. \A model : ModelSlots(model)' = ModelSlots(model)
          BY <2>1 DEF ModelSlots, Slots
      <2>3. ASSUME NEW model \in Bosch PROVE ModelInv(model)'
          <3>1. Copied(model)
              BY <1>i, <1>s, <2>1
          <3>2. ModelSlots(model) = {} => boschResults[model] = NoReading
              <4>1. model \in boschRegistered => ModelSlots(model) # {}
                  BY <2>1 DEF RoomInv, Numbered
              <4> QED
                  BY <1>0, <1>i, <4>1 DEF ModelInv
          <3> QED
              BY <1>i, <2>1, <2>2, <3>1, <3>2 DEF ModelInv, Copied
      <2> QED
          BY <1>s, <2>1, <2>3
  <1> QED
      BY <1>1, <1>2, <1>3, <1>4, <1>5, <1>6, <1>7, <1>8, <1>9
      DEF Next, TemperatureTask, UpdateSnapshots

----------------------------------------------------------------------------
(* The data of a DS18B20.                                                  *)

MeasurementOutcome(i, m) ==
    \E s \in Snapshot :
        /\ i \in Slots => s = sensorSnapshots[i]
        /\ i \notin Slots => s = NewSnapshot("DS18B20", m.rom)
        /\ m.status = "OK" =>
               m.reading \in Readings /\ Succeeds(s, sensorSnapshots'[i], m.reading)
        /\ m.status # "OK" =>
               /\ Fails(s, sensorSnapshots'[i], m.status)
               /\ m.status \in Errors \ {"MISSING"}

LEMMA LooksOutcome ==
    ASSUME IInv, MeasureInv, MeasurementFrame, NEW i, NEW m, Looks(i, m), i # 0
    PROVE  MeasurementOutcome(i, m)
  <1>0. TypeOK /\ cursor \in 1..Len(measurements) /\ roundTick \in Ticks
      BY MeasurementsType DEF IInv, TypeInv, MeasurementFrame
  <1>1. m \in Measurement /\ m = measurements[cursor]
      BY DEF Looks
  <1>2. m.status = "OK" => m.reading \in Readings
      BY <1>0, <1>1 DEF MeasureInv
  <1>3. m.status # "OK" => m.status \in Errors \ {"MISSING"}
      BY <1>1, FaultsAssumption DEF Measurement, ReadStatus, Errors
  <1> DEFINE s == IF i \in Slots THEN sensorSnapshots[i] ELSE NewSnapshot("DS18B20", m.rom)
  <1>4. s \in Snapshot
      BY <1>0, <1>1, NewDs18b20, SlotType
  <1>5. sensorSnapshots'[i] = WithMeasurement(s, m)
      BY DEF Looks
  <1>6. /\ i \in Slots => s = sensorSnapshots[i]
        /\ i \notin Slots => s = NewSnapshot("DS18B20", m.rom)
      OBVIOUS
  <1> HIDE DEF s
  <1>7. /\ m.status = "OK" => Succeeds(s, sensorSnapshots'[i], m.reading)
        /\ m.status # "OK" => Fails(s, sensorSnapshots'[i], m.status)
      BY <1>0, <1>1, <1>2, <1>4, <1>5, MeasurementAttempt
  <1> QED
      BY <1>2, <1>3, <1>4, <1>6, <1>7 DEF MeasurementOutcome

(* The two parts of DataInv. *)
DeliveredInv ==
    \A k \in 1..Len(measurements) : LET m == measurements[k] IN
        m.status = "OK" /\ ~Success(m.rom, k + 1, Len(measurements)) =>
            m.reading = delivered[m.rom]

OwnData(s) ==
    s.dataValid /\ s.model = "DS18B20" =>
        /\ s.reading \in Readings
        /\ ~Success(s.identity, cursor, Len(measurements)) =>
               s.reading = delivered[s.identity]

LEMMA DataInvParts ==
    DataInv <=> DeliveredInv /\ \A i \in Slots : OwnData(sensorSnapshots[i])
  BY DEF DataInv, DeliveredInv, OwnData

LEMMA ConvertData ==
    ASSUME IInv, MeasureInv, SeenInv, DataInv, ConvertAndRead
    PROVE  DataInv'
  <1> DEFINE n == Len(measurements)
  <1>0. /\ TypeOK /\ n \in Nat /\ cursor = 1
        /\ measurements \in Seq(Measurement)
        /\ delivered \in [Roms \union {ZeroRom} -> Readings \union {NoReading}]
        /\ \A k \in 1..n : measurements[k] \in Measurement
      BY MeasurementsType
      DEF IInv, TypeInv, TypeOK, MeasureInv, ConvertAndRead, CriticalSteps
  <1>1. PICK m \in Measurement :
            /\ measurements' = Append(measurements, m)
            /\ \/ /\ m.status = "OK" /\ m.reading \in Readings
                  /\ delivered' = [delivered EXCEPT ![m.rom] = m.reading]
               \/ /\ m.status # "OK"
                  /\ delivered' = delivered
      BY ConvertAdds DEF IInv
  <1>2. /\ Len(measurements') = n + 1
        /\ \A k \in 1..n : measurements'[k] = measurements[k]
        /\ measurements'[n + 1] = m
      BY <1>0, <1>1
  <1>3. m.rom \in Roms
      BY DEF Measurement
  <1>4. UNCHANGED <<sensorSnapshots, cursor>>
      BY DEF ConvertAndRead, listVars
  <1> HIDE DEF n
  <1>5. ASSUME NEW rom \in Roms, NEW first \in 1..(n + 1),
               ~(\E k \in first..(n + 1) : measurements'[k].rom = rom
                                           /\ measurements'[k].status = "OK")
        PROVE  ~Success(rom, first, n) /\ delivered'[rom] = delivered[rom]
      <2>1. ~Success(rom, first, n)
          BY <1>0, <1>2, <1>5 DEF Success
      <2>2. n + 1 \in first..(n + 1)
          BY <1>0
      <2>3. ~(m.rom = rom /\ m.status = "OK")
          BY <1>2, <1>5, <2>2
      <2>4. m.status # "OK" \/ m.rom # rom
          BY <2>3
      <2>5. delivered'[rom] = delivered[rom]
          BY <1>0, <1>1, <1>3, <2>4
      <2> QED
          BY <2>1, <2>5
  <1>6. DeliveredInv'
      <2> SUFFICES ASSUME NEW k \in 1..(n + 1), measurements'[k].status = "OK",
                          ~(\E l \in (k + 1)..(n + 1) :
                               measurements'[l].rom = measurements'[k].rom
                               /\ measurements'[l].status = "OK")
                   PROVE  measurements'[k].reading = delivered'[measurements'[k].rom]
          BY <1>2 DEF DeliveredInv, Success
      <2>1. CASE k = n + 1
          BY <1>0, <1>1, <1>2, <1>3, <2>1
      <2>2. CASE k # n + 1
          <3>1. k \in 1..n /\ k + 1 \in 1..(n + 1)
              BY <1>0, <2>2
          <3>2. measurements[k].rom \in Roms
              BY <1>0, <3>1 DEF Measurement
          <3>3. /\ ~Success(measurements[k].rom, k + 1, n)
                /\ delivered'[measurements[k].rom] = delivered[measurements[k].rom]
              <4> DEFINE rom == measurements[k].rom
                     first == k + 1
              <4>1. measurements'[k].rom = rom /\ rom \in Roms /\ first \in 1..(n + 1)
                  BY <1>2, <3>1, <3>2
              <4>2. ~(\E l \in first..(n + 1) : measurements'[l].rom = rom
                                                 /\ measurements'[l].status = "OK")
                  BY <4>1
              <4> HIDE DEF rom, first
              <4>3. ~Success(rom, first, n) /\ delivered'[rom] = delivered[rom]
                  BY <1>5, <4>1, <4>2
              <4> QED
                  BY <4>3 DEF rom, first
          <3> QED
              BY <1>2, <3>1, <3>3 DEF DataInv, n
      <2> QED
          BY <2>1, <2>2
  <1>7. ASSUME NEW i \in Slots' PROVE OwnData(sensorSnapshots[i])'
      <2> DEFINE s == sensorSnapshots[i]
      <2>1. i \in Slots /\ s = sensorSnapshots[i] /\ sensorSnapshots'[i] = s
          BY <1>4 DEF Slots
      <2> HIDE DEF s
      <2>2. SUFFICES ASSUME s.dataValid, s.model = "DS18B20"
                     PROVE  /\ s.reading \in Readings
                            /\ ~(\E k \in 1..(n + 1) : measurements'[k].rom = s.identity
                                                       /\ measurements'[k].status = "OK")
                               => s.reading = delivered'[s.identity]
          BY <1>0, <1>2, <1>4, <2>1 DEF OwnData, Success
      <2>3. /\ s.reading \in Readings
            /\ ~Success(s.identity, 1, n) => s.reading = delivered[s.identity]
          BY <1>0, <2>1, <2>2 DEF DataInv, n
      <2>4. 1 \in 1..(n + 1)
          BY <1>0
      <2>5. s.identity \in Roms
          BY <2>1, <2>2 DEF SeenInv
      <2> QED
          BY <1>5, <2>3, <2>4, <2>5
  <1> QED
      BY <1>6, <1>7, DataInvParts DEF DataInv, DeliveredInv, OwnData

LEMMA LooksData ==
    ASSUME IInv, MeasureInv, SeenInv, DataInv,
           RefreshDs18b20 \/ RegisterDs18b20 \/ IgnoreDs18b20
    PROVE  DataInv'
  <1> DEFINE n == Len(measurements)
             m == measurements[cursor]
  <1>0. /\ TypeOK /\ n \in Nat /\ cursor \in Nat \ {0}
        /\ Slots = 1..Len(sensorSnapshots) /\ Len(sensorSnapshots) \in Nat
      BY MeasurementsType DEF IInv, TypeInv
  <1>1. /\ MeasurementFrame
        /\ cursor \in 1..n /\ cursor' = cursor + 1
        /\ UNCHANGED <<measurements, delivered>>
      BY MeasurementLooks DEF MeasurementFrame
  <1>2. PICK i : Looks(i, m)
      BY MeasurementLooks
  <1>3. /\ DeliveredInv /\ \A j \in Slots : OwnData(sensorSnapshots[j])
      BY DataInvParts
  <1>4. DeliveredInv'
      BY <1>1, <1>3 DEF DeliveredInv, Success
  <1>5. m.status = "OK" /\ ~Success(m.rom, cursor + 1, n) => m.reading = delivered[m.rom]
      BY <1>1, <1>3 DEF DeliveredInv
  <1>6. ASSUME NEW rom, ~Success(rom, cursor + 1, n), m.rom # rom \/ m.status # "OK"
        PROVE  ~Success(rom, cursor, n)
      <2>1. \A k \in cursor..n : k = cursor \/ k \in (cursor + 1)..n
          BY <1>0
      <2> QED
          BY <1>6, <2>1 DEF Success
  <1>7. \A rom : Success(rom, cursor, n)' <=> Success(rom, cursor + 1, n)
      BY <1>1 DEF Success
  <1> HIDE DEF n, m
  <1>8. ASSUME NEW j \in Slots', sensorSnapshots'[j].dataValid,
               sensorSnapshots'[j].model = "DS18B20",
               NEW t, t = sensorSnapshots'[j]
        PROVE  /\ t.reading \in Readings
               /\ ~Success(t.identity, cursor + 1, n) => t.reading = delivered[t.identity]
      <2>1. CASE j = i /\ i # 0
          <3>1. t.identity = m.rom
              BY <1>2, <1>8, <2>1 DEF Looks
          <3>2. PICK s \in Snapshot :
                    /\ i \in Slots => s = sensorSnapshots[i]
                    /\ i \notin Slots => s = NewSnapshot("DS18B20", m.rom)
                    /\ m.status = "OK" => m.reading \in Readings /\ Succeeds(s, t, m.reading)
                    /\ m.status # "OK" => Fails(s, t, m.status)
              BY <1>1, <1>2, <1>8, <2>1, LooksOutcome DEF MeasurementOutcome
          <3>3. CASE m.status = "OK"
              BY <1>5, <3>1, <3>2, <3>3 DEF Succeeds
          <3>4. CASE m.status # "OK"
              <4>1. s.dataValid /\ t.reading = s.reading /\ SameSensor(s, t)
                  BY <1>8, <3>2, <3>4 DEF Fails
              <4>2. i \in Slots /\ s = sensorSnapshots[i]
                  BY <3>2, <4>1 DEF NewSnapshot
              <4>3. /\ s.reading \in Readings
                    /\ ~Success(m.rom, cursor, n) => s.reading = delivered[m.rom]
                  BY <1>3, <1>8, <3>1, <4>1, <4>2 DEF OwnData, SameSensor, n
              <4> QED
                  BY <1>6, <3>1, <3>4, <4>1, <4>3
          <3> QED
              BY <3>3, <3>4
      <2>2. CASE ~(j = i /\ i # 0)
          <3>1. j \in Slots /\ j # i
              <4>1. 0 \notin Slots /\ Slots' = Slots \union (IF i = 0 THEN {} ELSE {i})
                  BY <1>0, <1>2 DEF Looks
              <4> QED
                  BY <2>2, <4>1
          <3>2. t = sensorSnapshots[j] /\ t.identity # m.rom
              BY <1>2, <1>8, <3>1 DEF Looks
          <3>3. /\ t.reading \in Readings
                /\ ~Success(t.identity, cursor, n) => t.reading = delivered[t.identity]
              BY <1>3, <1>8, <3>1, <3>2 DEF OwnData, n
          <3> QED
              BY <1>6, <3>2, <3>3
      <2> QED
          BY <2>1, <2>2
  <1>9. \A j \in Slots' : OwnData(sensorSnapshots[j])'
      BY <1>1, <1>7, <1>8 DEF OwnData, n
  <1> QED
      BY <1>4, <1>9 DEF DataInv, DeliveredInv, OwnData

LEMMA NextDataInv ==
    ASSUME IInv, MeasureInv, SeenInv, DataInv, [Next]_vars
    PROVE  DataInv'
  <1>0. /\ TypeOK /\ Len(measurements) \in Nat /\ cursor \in Nat \ {0}
      BY MeasurementsType DEF IInv, TypeInv
  <1>i. DeliveredInv /\ \A i \in Slots : OwnData(sensorSnapshots[i])
      BY DataInvParts
  <1>g. ASSUME UNCHANGED <<measurements, delivered, cursor>>,
               \A i \in Slots' :
                   sensorSnapshots'[i].dataValid /\ sensorSnapshots'[i].model = "DS18B20" =>
                       i \in Slots /\ sensorSnapshots'[i] = sensorSnapshots[i]
        PROVE  DataInv'
      <2>1. DeliveredInv'
          BY <1>g, <1>i DEF DeliveredInv, Success
      <2>2. \A i \in Slots' : OwnData(sensorSnapshots[i])'
          BY <1>g, <1>i DEF OwnData, Success
      <2> QED
          BY <2>1, <2>2 DEF DataInv, DeliveredInv, OwnData
  <1>1. CASE Environment \/ SearchTask \/ UNCHANGED vars
      BY <1>1, <1>g, QuietSteps DEF Quiet, Slots
  <1>2. CASE LockForMeasure
      <2>1. /\ measurements' = <<>> /\ UNCHANGED <<sensorSnapshots, cursor, delivered>>
            /\ measurements = <<>>
          BY <1>2 DEF LockForMeasure, listVars, MeasureInv
      <2> QED
          BY <1>g, <2>1 DEF Slots
  <1>3. CASE ConvertAndRead
      BY <1>3, ConvertData
  <1>4. CASE UnlockAfterMeasure \/ MeasureBmx280 \/ MeasureBmx680 \/ StampRound
      <2>1. UNCHANGED <<measurements, delivered, cursor, sensorSnapshots>>
          BY <1>4 DEF UnlockAfterMeasure, MeasureBmx280, MeasureBmx680, MeasureBosch,
                      StampRound, roundVars, listVars
      <2> QED
          BY <1>g, <2>1 DEF Slots
  <1>5. CASE EnterCritical
      <2>1. /\ UNCHANGED <<measurements, delivered, sensorSnapshots>> /\ cursor' = 1
            /\ task = "enter"
          BY <1>5, EnterSteps
      <2>2. cursor = 1
          BY <2>1 DEF MeasureInv, CriticalSteps
      <2> QED
          BY <1>g, <2>1, <2>2 DEF Slots
  <1>6. CASE RefreshDs18b20 \/ RegisterDs18b20 \/ IgnoreDs18b20
      BY <1>6, LooksData
  <1>7. CASE MarkMissing
      <2>1. /\ BoschFrame /\ Slots' = Slots
            /\ \A i \in Slots :
                   sensorSnapshots'[i] =
                       IF sensorSnapshots[i].model = "DS18B20" /\ i \notin ds18b20Seen
                           THEN Missing(sensorSnapshots[i])
                           ELSE sensorSnapshots[i]
          BY <1>0, <1>7, MissingSteps DEF Slots
      <2>2. \A i \in Slots : sensorSnapshots'[i].dataValid =>
                                 sensorSnapshots'[i] = sensorSnapshots[i]
          BY <2>1, MissingFields
      <2> QED
          BY <1>g, <2>1, <2>2 DEF BoschFrame
  <1>8. CASE UpdateBmx280 \/ UpdateBmx680
      <2>1. PICK model \in Bosch, from \in AfterDs18b20, to \in AfterDs18b20 :
                UpdateBosch(model, from, to)
          BY <1>8 DEF UpdateBmx280, UpdateBmx680, Bosch, AfterDs18b20
      <2>2. BoschFrame
          BY <1>0, <2>1, BoschSteps
      <2>3. "DS18B20" # model
          BY DEF Bosch
      <2>4. \A j \in Slots' : sensorSnapshots'[j].model = "DS18B20" =>
                j \in Slots /\ sensorSnapshots'[j] = sensorSnapshots[j]
          BY <1>0, <2>1, <2>3, BoschWrites
      <2> QED
          BY <1>g, <2>2, <2>4 DEF BoschFrame
  <1>9. CASE ExitCritical
      <2>1. /\ measurements' = <<>> /\ cursor' = 1
            /\ UNCHANGED <<sensorSnapshots, delivered>>
            /\ task \in AfterDs18b20
          BY <1>9, ExitSteps DEF AfterDs18b20
      <2>2. cursor = Len(measurements) + 1
          BY <2>1 DEF MeasureInv
      <2>3. \A rom : ~Success(rom, cursor, Len(measurements))
          BY <1>0, <2>2 DEF Success
      <2>4. DeliveredInv'
          BY <2>1 DEF DeliveredInv
      <2>5. \A i \in Slots' : OwnData(sensorSnapshots[i])'
          BY <1>i, <2>1, <2>3 DEF OwnData, Slots
      <2> QED
          BY <2>4, <2>5 DEF DataInv, DeliveredInv, OwnData
  <1> QED
      BY <1>1, <1>2, <1>3, <1>4, <1>5, <1>6, <1>7, <1>8, <1>9
      DEF Next, TemperatureTask, UpdateSnapshots

----------------------------------------------------------------------------
(* What a round makes of a slot.                                           *)

LEMMA FirstAttempt ==
    ASSUME NEW s, NEW t, NEW n \in Nat \ {0},
           \/ \E value \in Readings : Succeeds(s, t, value)
           \/ \E error \in Errors \ {"MISSING"} : Fails(s, t, error)
    PROVE  AttemptedUpTo(s, t, n)
  <1>1. 1 \in 1..n
      OBVIOUS
  <1>2. ASSUME NEW value \in Readings, Succeeds(s, t, value) PROVE AttemptedUpTo(s, t, n)
      BY <1>2 DEF Succeeds, AttemptedUpTo
  <1>3. ASSUME NEW error \in Errors \ {"MISSING"}, Fails(s, t, error)
        PROVE  AttemptedUpTo(s, t, n)
      BY <1>1, <1>3 DEF Fails, AttemptedUpTo
  <1> QED
      BY <1>2, <1>3

LEMMA MoreAttempts ==
    ASSUME NEW s, NEW t, NEW n \in Nat, NEW m \in Nat, n <= m, AttemptedUpTo(s, t, n)
    PROVE  AttemptedUpTo(s, t, m)
  <1>1. /\ \A k \in 1..n : k \in 1..m
        /\ \A k \in 1..(n - 1) : k \in 1..(m - 1)
      OBVIOUS
  <1> QED
      BY <1>1 DEF AttemptedUpTo

LEMMA NextAttempt ==
    ASSUME NEW b \in Snapshot, NEW s \in Snapshot, SameSensor(b, s), roundTick \in Ticks,
           NEW t, NEW n \in Nat \ {0}, AttemptedUpTo(b, s, n),
           \/ \E value \in Readings : Succeeds(s, t, value)
           \/ \E error \in Errors \ {"MISSING"} : Fails(s, t, error)
    PROVE  AttemptedUpTo(b, t, n + 1)
  <1>1. ASSUME NEW value \in Readings, Succeeds(s, t, value)
        PROVE  AttemptedUpTo(b, t, n + 1)
      <2>1. t = Abstract!AfterSuccess(s, value, roundTick) /\ t.reading = value
          BY <1>1 DEF Succeeds
      <2>2. t = Abstract!AfterSuccess(b, value, roundTick)
          BY <2>1, SuccessForgets
      <2> QED
          BY <2>1, <2>2 DEF AttemptedUpTo
  <1>2. ASSUME NEW error \in Errors \ {"MISSING"}, Fails(s, t, error)
        PROVE  AttemptedUpTo(b, t, n + 1)
      <2>1. /\ t = Abstract!AfterFailures(s, 1, error, roundTick)
            /\ t.lastError = error /\ t.reading = s.reading
          BY <1>2 DEF Fails
      <2>2. s.lastError \in Errors
          BY DEF Snapshot
      <2>3. CASE /\ s = Abstract!AfterSuccess(b, s.reading, roundTick)
                 /\ s.reading \in Readings
          <3>1. 1 \in 1..((n + 1) - 1)
              OBVIOUS
          <3>2. t = Abstract!AfterFailures(Abstract!AfterSuccess(b, t.reading, roundTick),
                                           1, t.lastError, roundTick)
              BY <2>1, <2>3
          <3> QED
              BY <2>1, <2>3, <3>1, <3>2 DEF AttemptedUpTo
      <2>4. CASE \E k \in 1..n :
                    /\ s = Abstract!AfterFailures(b, k, s.lastError, roundTick)
                    /\ s.lastError # "MISSING"
          <3>1. PICK k \in 1..n :
                    /\ s = Abstract!AfterFailures(b, k, s.lastError, roundTick)
                    /\ s.lastError # "MISSING"
              BY <2>4
          <3>2. k \in Nat \ {0} /\ k + 1 \in 1..(n + 1)
              OBVIOUS
          <3>3. t = Abstract!AfterFailures(b, k + 1, error, roundTick)
              BY <2>1, <2>2, <3>1, <3>2, FailuresAddUp
          <3> QED
              BY <2>1, <3>2, <3>3 DEF AttemptedUpTo
      <2>5. CASE \E k \in 1..(n - 1) :
                    /\ s = Abstract!AfterFailures(
                               Abstract!AfterSuccess(b, s.reading, roundTick),
                               k, s.lastError, roundTick)
                    /\ s.reading \in Readings
                    /\ s.lastError # "MISSING"
          <3> DEFINE r == Abstract!AfterSuccess(b, s.reading, roundTick)
          <3>1. PICK k \in 1..(n - 1) :
                    /\ s = Abstract!AfterFailures(r, k, s.lastError, roundTick)
                    /\ s.reading \in Readings
                    /\ s.lastError # "MISSING"
              BY <2>5
          <3>2. k \in Nat \ {0} /\ k + 1 \in 1..((n + 1) - 1)
              OBVIOUS
          <3>3. r \in Snapshot
              BY <3>1, AfterSuccessFields
          <3>4. r = Abstract!AfterSuccess(b, t.reading, roundTick)
              BY <2>1
          <3> HIDE DEF r
          <3>5. t = Abstract!AfterFailures(r, k + 1, error, roundTick)
              BY <2>1, <2>2, <3>1, <3>2, <3>3, FailuresAddUp
          <3> QED
              BY <2>1, <3>1, <3>2, <3>4, <3>5 DEF AttemptedUpTo
      <2> QED
          BY <2>3, <2>4, <2>5 DEF AttemptedUpTo
  <1> QED
      BY <1>1, <1>2

LEMMA AttemptsEvolve ==
    ASSUME NEW s, NEW t, NEW n \in Nat, n <= MaxDs18b20, AttemptedUpTo(s, t, n)
    PROVE  Abstract!Evolves(s, t, roundTick)
  <1>1. AttemptedUpTo(s, t, MaxDs18b20)
      BY MoreAttempts, MaxDs18b20Assumption
  <1> QED
      BY <1>1 DEF AttemptedUpTo, Abstract!Evolves

(* The base of a slot does not change while a round is published. *)
LEMMA BaseStays ==
    ASSUME TypeOK, EvolveInv, UNCHANGED published,
           NEW i \in Slots, SameSensor(sensorSnapshots[i], sensorSnapshots'[i])
    PROVE  Base(i)' = Base(i) /\ Base(i) \in Snapshot /\ SameSensor(Base(i), sensorSnapshots[i])
  <1>1. Base(i)' = Base(i)
      BY DEF Base, SameSensor
  <1>2. sensorSnapshots[i] \in Snapshot
      BY SlotType
  <1>3. CASE i \in DOMAIN published
      <2>1. published[i] \in Snapshot
          <3>1. published \in Seq(Snapshot)
              BY DEF TypeOK
          <3> QED
              BY <1>3, <3>1, ElementOfSeq, LenProperties
      <2> QED
          BY <1>1, <1>3, <2>1 DEF Base, EvolveInv
  <1>4. CASE i \notin DOMAIN published
      <2>1. /\ sensorSnapshots[i].model \in {"DS18B20"} \union Bosch
            /\ sensorSnapshots[i].identity \in Roms \union {ZeroRom}
          BY <1>2 DEF Snapshot
      <2> QED
          BY <1>1, <1>4, <2>1, NewSnapshotType DEF Base, SameSensor
  <1> QED
      BY <1>3, <1>4

(* And that of a new one is a new snapshot. *)
LEMMA BaseOfNew ==
    ASSUME EvolveInv, UNCHANGED published, NEW i, i \notin Slots
    PROVE  Base(i)' = NewSnapshot(sensorSnapshots'[i].model, sensorSnapshots'[i].identity)
  BY DEF Base, EvolveInv

LEMMA LooksEvolve ==
    ASSUME IInv, MeasureInv, SeenInv, EvolveInv,
           RefreshDs18b20 \/ RegisterDs18b20 \/ IgnoreDs18b20
    PROVE  \A j \in Slots' : IF j \in ds18b20Seen'
                                THEN AttemptedUpTo(Base(j)', sensorSnapshots'[j], cursor)
                                ELSE Untouched(j)'
  <1> DEFINE m == measurements[cursor]
  <1>0. /\ TypeOK /\ cursor \in Nat \ {0} /\ roundTick \in Ticks
        /\ Slots = 1..Len(sensorSnapshots) /\ Len(sensorSnapshots) \in Nat
      BY MeasurementsType DEF IInv, TypeInv
  <1>1. /\ MeasurementFrame
        /\ cursor' = cursor + 1
        /\ UNCHANGED <<measurements, published, roundTick>>
        /\ task = "updateDS18B20"
      BY MeasurementLooks DEF MeasurementFrame
  <1>2. PICK i : Looks(i, m)
      BY MeasurementLooks
  <1> HIDE DEF m
  <1>3. SUFFICES ASSUME NEW j \in Slots'
                 PROVE  IF j \in ds18b20Seen'
                            THEN AttemptedUpTo(Base(j)', sensorSnapshots'[j], cursor)
                            ELSE Untouched(j)'
      OBVIOUS
  <1>4. CASE ~(j = i /\ i # 0)
      <2>1. j \in Slots /\ j # i
          <3>1. 0 \notin Slots /\ Slots' = Slots \union (IF i = 0 THEN {} ELSE {i})
              BY <1>0, <1>2 DEF Looks
          <3> QED
              BY <1>4, <3>1
      <2>2. sensorSnapshots'[j] = sensorSnapshots[j]
            /\ (j \in ds18b20Seen' <=> j \in ds18b20Seen)
          BY <1>2, <2>1 DEF Looks
      <2>3. Base(j)' = Base(j)
          BY <1>0, <1>1, <2>1, <2>2, BaseStays DEF SameSensor
      <2>4. IF j \in ds18b20Seen
                THEN AttemptedUpTo(Base(j), sensorSnapshots[j], cursor - 1)
                ELSE Untouched(j)
          BY <1>1, <2>1 DEF EvolveInv
      <2>5. CASE j \in ds18b20Seen
          <3>1. cursor - 1 \in Nat /\ cursor - 1 <= cursor
              BY <1>0
          <3>2. AttemptedUpTo(Base(j), sensorSnapshots[j], cursor)
              BY <1>0, <2>4, <2>5, <3>1, MoreAttempts
          <3> QED
              BY <2>2, <2>3, <2>5, <3>2
      <2>6. CASE j \notin ds18b20Seen
          BY <1>1, <2>2, <2>4, <2>6 DEF Untouched
      <2> QED
          BY <2>5, <2>6
  <1>5. CASE j = i /\ i # 0
      <2> DEFINE t == sensorSnapshots'[i]
                 b == Base(i)'
      <2>1. /\ i \in ds18b20Seen'
            /\ t.model = "DS18B20" /\ t.identity = m.rom
          BY <1>2, <1>5 DEF Looks
      <2>2. PICK s \in Snapshot :
                /\ i \in Slots => s = sensorSnapshots[i]
                /\ i \notin Slots => s = NewSnapshot("DS18B20", m.rom)
                /\ m.status = "OK" => m.reading \in Readings /\ Succeeds(s, t, m.reading)
                /\ m.status # "OK" => /\ Fails(s, t, m.status)
                                      /\ m.status \in Errors \ {"MISSING"}
          BY <1>1, <1>2, <1>5, LooksOutcome DEF MeasurementOutcome
      <2> HIDE DEF t, b
      <2>3. \/ \E value \in Readings : Succeeds(s, t, value)
            \/ \E error \in Errors \ {"MISSING"} : Fails(s, t, error)
          BY <2>2
      <2>4. CASE i \notin Slots
          <3>1. b = s
              BY <1>1, <2>1, <2>2, <2>4, BaseOfNew DEF b, t
          <3> QED
              BY <1>0, <1>5, <2>1, <2>3, <3>1, FirstAttempt DEF b, t
      <2>5. CASE i \in Slots
          <3>1. s = sensorSnapshots[i] /\ s.model = "DS18B20" /\ s.identity = m.rom
              BY <1>2, <1>5, <2>2, <2>5 DEF Looks
          <3>2. SameSensor(sensorSnapshots[i], sensorSnapshots'[i])
              BY <2>1, <3>1 DEF SameSensor, t
          <3>3. b = Base(i) /\ b \in Snapshot /\ SameSensor(b, s)
              BY <1>0, <1>1, <2>5, <3>1, <3>2, BaseStays DEF b
          <3>4. IF i \in ds18b20Seen THEN AttemptedUpTo(b, s, cursor - 1)
                                     ELSE Untouched(i)
              BY <1>1, <2>5, <3>1, <3>3 DEF EvolveInv
          <3>5. CASE i \in ds18b20Seen
              <4>1. Measured(s.identity, cursor - 1)
                  BY <1>1, <2>5, <3>1, <3>5 DEF SeenInv
              <4>2. cursor - 1 \in Nat \ {0} /\ (cursor - 1) + 1 = cursor
                  BY <1>0, <4>1 DEF Measured
              <4>3. AttemptedUpTo(b, t, (cursor - 1) + 1)
                  BY <1>0, <2>3, <3>3, <3>4, <3>5, <4>2, NextAttempt
              <4> QED
                  BY <1>5, <2>1, <4>2, <4>3 DEF b, t
          <3>6. CASE i \notin ds18b20Seen
              <4>1. b = s
                  BY <3>1, <3>3, <3>4, <3>6 DEF Untouched, Base
              <4> QED
                  BY <1>0, <1>5, <2>1, <2>3, <4>1, FirstAttempt DEF b, t
          <3> QED
              BY <3>5, <3>6
      <2> QED
          BY <2>4, <2>5
  <1> QED
      BY <1>4, <1>5

LEMMA MissingEvolve ==
    ASSUME IInv, MeasureInv, SeenInv, EvolveInv, MarkMissing
    PROVE  /\ ModelEvolved("DS18B20")'
           /\ ModelUntouched("BMx280")' /\ ModelUntouched("BME680")'
  <1>0. /\ TypeOK /\ cursor \in Nat \ {0} /\ roundTick \in Ticks
        /\ Len(measurements) \in Nat
      BY MeasurementsType DEF IInv, TypeInv
  <1>1. /\ task = "updateDS18B20"
        /\ cursor > Len(measurements)
        /\ UNCHANGED <<published, roundTick>>
        /\ Slots' = Slots
        /\ \A i \in Slots :
               sensorSnapshots'[i] =
                   IF sensorSnapshots[i].model = "DS18B20" /\ i \notin ds18b20Seen
                       THEN Missing(sensorSnapshots[i])
                       ELSE sensorSnapshots[i]
      BY <1>0, MissingSteps DEF BoschFrame, Slots
  <1>2. cursor - 1 \in Nat /\ cursor - 1 <= MaxDs18b20
      BY <1>0, <1>1, MaxDs18b20Assumption DEF MeasureInv
  <1>3. ASSUME NEW i \in Slots
        PROVE  /\ sensorSnapshots'[i].model = sensorSnapshots[i].model
               /\ Base(i)' = Base(i)
      <2>1. /\ sensorSnapshots'[i].model = sensorSnapshots[i].model
            /\ sensorSnapshots'[i].identity = sensorSnapshots[i].identity
          BY <1>1, MissingFields
      <2> QED
          BY <1>0, <1>1, <2>1, BaseStays DEF SameSensor
  <1>4. ASSUME NEW i \in Slots, sensorSnapshots[i].model = "DS18B20"
        PROVE  Abstract!Evolves(Base(i)', sensorSnapshots'[i], roundTick')
      <2> DEFINE s == sensorSnapshots[i]
                 t == sensorSnapshots'[i]
      <2>1. IF i \in ds18b20Seen THEN AttemptedUpTo(Base(i), s, cursor - 1)
                                 ELSE Untouched(i)
          BY <1>1 DEF EvolveInv
      <2>2. CASE i \in ds18b20Seen
          <3>1. t = s
              BY <1>1, <2>2
          <3>2. Abstract!Evolves(Base(i), s, roundTick)
              BY <1>2, <2>1, <2>2, AttemptsEvolve
          <3> QED
              BY <1>1, <1>3, <3>1, <3>2
      <2>3. CASE i \notin ds18b20Seen
          <3>1. Base(i) = s
              BY <2>1, <2>3 DEF Untouched, Base
          <3>2. t = Missing(s)
              BY <1>1, <1>4, <2>3
          <3>3. s \in Snapshot /\ "MISSING" \in Errors
              BY <1>0, SlotType DEF Errors
          <3>4. s.state # "INITIALIZING"
              BY DEF IInv, ListInv, SlotInv, ConsistentSnapshot
          <3> HIDE DEF s, t
          <3>5. t = Abstract!AfterFailures(s, 1, "MISSING", roundTick)
              BY <1>0, <3>2, <3>3, OneFailure DEF Fails
          <3>6. Abstract!Evolves(s, t, roundTick)
              BY <3>4, <3>5 DEF Abstract!Evolves
          <3> QED
              BY <1>1, <1>3, <3>1, <3>6 DEF t
      <2> QED
          BY <2>2, <2>3
  <1>5. ASSUME NEW i \in Slots, sensorSnapshots[i].model # "DS18B20"
        PROVE  Untouched(i)'
      <2>1. i \notin ds18b20Seen
          BY <1>1, <1>5 DEF SeenInv
      <2>2. Untouched(i)
          BY <1>1, <2>1 DEF EvolveInv
      <2>3. sensorSnapshots'[i] = sensorSnapshots[i]
          BY <1>1, <1>5
      <2> QED
          BY <1>1, <2>2, <2>3 DEF Untouched
  <1>6. ModelEvolved("DS18B20")'
      BY <1>1, <1>3, <1>4 DEF ModelEvolved, Evolved, ModelSlots
  <1> QED
      BY <1>1, <1>3, <1>5, <1>6 DEF ModelUntouched, ModelSlots

LEMMA BoschEvolve ==
    ASSUME IInv, BoschInv, EvolveInv, NEW model \in Bosch, NEW from, NEW to,
           UpdateBosch(model, from, to), ModelUntouched(model)
    PROVE  /\ ModelEvolved(model)'
           /\ \A other : other # model =>
                  /\ ModelEvolved(other) => ModelEvolved(other)'
                  /\ ModelUntouched(other) => ModelUntouched(other)'
  <1>0. /\ TypeOK /\ roundTick \in Ticks
        /\ boschStatus[model] \in {"SUCCESS", "ERROR"}
        /\ UNCHANGED <<published, roundTick, boschStatus, boschResults>>
      BY MeasurementsType, BoschSteps DEF IInv, TypeInv, TypeOK, BoschFrame
  <1>1. boschStatus[model] = "SUCCESS" => boschResults[model] \in Readings
      BY DEF BoschInv
  <1>2. ASSUME NEW j \in ModelSlots(model)'
        PROVE  Abstract!Evolves(Base(j)', sensorSnapshots'[j], roundTick')
      <2> DEFINE t == sensorSnapshots'[j]
                 b == Base(j)'
      <2>1. PICK s \in Snapshot :
                /\ j \in Slots => s = sensorSnapshots[j]
                /\ j \notin Slots => s = NewSnapshot(model, ZeroRom)
                /\ boschStatus[model] = "SUCCESS" => Succeeds(s, t, boschResults[model])
                /\ boschStatus[model] = "ERROR" => Fails(s, t, "CONVERSION")
          BY UpdateLooks DEF BoschLooks
      <2>2. t.model = model
          BY DEF ModelSlots
      <2>3. SameSensor(s, t)
          BY <1>0, <2>1 DEF Fails, Succeeds
      <2>4. b = s
          <3>1. CASE j \in Slots
              <4>1. j \in ModelSlots(model)
                  BY <2>1, <2>2, <2>3, <3>1 DEF ModelSlots, SameSensor
              <4>2. Untouched(j)
                  BY <4>1 DEF ModelUntouched
              <4>3. b = Base(j)
                  BY <1>0, <2>1, <2>3, <3>1, BaseStays
              <4> QED
                  BY <2>1, <3>1, <4>2, <4>3 DEF Untouched, Base
          <3>2. CASE j \notin Slots
              <4>1. b = NewSnapshot(t.model, t.identity)
                  BY <1>0, <3>2, BaseOfNew
              <4>2. s.model = model /\ s.identity = ZeroRom
                  BY <2>1, <3>2 DEF NewSnapshot
              <4> QED
                  BY <2>1, <2>3, <3>2, <4>1, <4>2 DEF SameSensor
          <3> QED
              BY <3>1, <3>2
      <2> HIDE DEF t, b
      <2>5. "CONVERSION" \in Errors \ {"MISSING"}
          BY DEF Errors
      <2>6. \/ \E value \in Readings : Succeeds(b, t, value)
            \/ \E error \in Errors \ {"MISSING"} : Fails(b, t, error)
          BY <1>0, <1>1, <2>1, <2>4, <2>5
      <2>7. AttemptedUpTo(b, t, 1)
          BY <2>6, FirstAttempt
      <2>8. Abstract!Evolves(b, t, roundTick)
          BY <2>7, AttemptsEvolve, MaxDs18b20Assumption
      <2> QED
          BY <1>0, <2>8 DEF t, b
  <1>3. ASSUME NEW other, other # model
        PROVE  /\ ModelEvolved(other) => ModelEvolved(other)'
               /\ ModelUntouched(other) => ModelUntouched(other)'
      <2>1. ModelSlots(other)' = ModelSlots(other)
          BY <1>0, <1>3, BoschWrites
      <2>2. ASSUME NEW j \in ModelSlots(other)
            PROVE  sensorSnapshots'[j] = sensorSnapshots[j] /\ Base(j)' = Base(j)
          <3>1. j \in Slots /\ j \in Slots' /\ sensorSnapshots'[j].model = other
              BY <2>1, <2>2 DEF ModelSlots
          <3>2. sensorSnapshots'[j] = sensorSnapshots[j]
              BY <1>0, <1>3, <3>1, BoschWrites
          <3> QED
              BY <1>0, <3>1, <3>2, BaseStays DEF SameSensor
      <2>3. ModelEvolved(other) => ModelEvolved(other)'
          BY <1>0, <2>1, <2>2 DEF ModelEvolved, Evolved
      <2>4. ModelUntouched(other) => ModelUntouched(other)'
          BY <1>0, <2>1, <2>2 DEF ModelUntouched, Untouched
      <2> QED
          BY <2>3, <2>4
  <1> QED
      BY <1>2, <1>3 DEF ModelEvolved, Evolved

LEMMA NextEvolveInv ==
    ASSUME IInv, MeasureInv, SeenInv, BoschInv, EvolveInv, [Next]_vars
    PROVE  EvolveInv'
  <1>0. /\ TypeOK /\ TypeOK'
        /\ critical <=> task \in CriticalSteps
        /\ critical' <=> task' \in CriticalSteps
      BY NextIInv DEF IInv, TypeInv, LockInv
  <1>1. CASE Environment \/ SearchTask \/ UNCHANGED vars
      <2>1. Quiet
          BY <1>1, QuietSteps
      <2>2. /\ Slots' = Slots
            /\ \A i : Base(i)' = Base(i) /\ (Untouched(i) => Untouched(i)')
            /\ \A model : ModelSlots(model)' = ModelSlots(model)
          BY <2>1 DEF Quiet, Slots, Base, Untouched, ModelSlots
      <2>3. \A model : /\ ModelEvolved(model) => ModelEvolved(model)'
                       /\ ModelUntouched(model) => ModelUntouched(model)'
          BY <2>1, <2>2 DEF Quiet, ModelEvolved, Evolved, ModelUntouched
      <2>4. ASSUME task = "updateDS18B20", NEW i \in Slots
            PROVE  IF i \in ds18b20Seen
                      THEN AttemptedUpTo(Base(i), sensorSnapshots[i], cursor - 1)'
                      ELSE Untouched(i)'
          <3>1. IF i \in ds18b20Seen
                   THEN AttemptedUpTo(Base(i), sensorSnapshots[i], cursor - 1)
                   ELSE Untouched(i)
              BY <2>4 DEF EvolveInv
          <3> QED
              BY <2>1, <2>2, <3>1 DEF Quiet, AttemptedUpTo
      <2> QED
          BY <2>1, <2>2, <2>3, <2>4 DEF Quiet, EvolveInv
  <1>2. CASE Measures \/ EnterCritical
      <2>1. /\ UNCHANGED <<sensorSnapshots, published>>
            /\ task \notin CriticalSteps
            /\ \/ task' \notin CriticalSteps
               \/ task' = "updateDS18B20" /\ ds18b20Seen' = {}
          BY <1>2, MeasureSteps, EnterSteps DEF CriticalSteps
      <2>2. published' = sensorSnapshots'
          BY <1>0, <2>1 DEF EvolveInv
      <2>3. \A i \in Slots' : Untouched(i)'
          BY <2>2 DEF Slots, Untouched
      <2>4. task' \notin AfterDs18b20
          BY <2>1 DEF CriticalSteps, AfterDs18b20
      <2>5. DOMAIN published' = Slots'
          BY <2>2 DEF Slots
      <2>6. \A i \in DOMAIN published' : SameSensor(published'[i], sensorSnapshots'[i])
          BY <2>2 DEF SameSensor
      <2> QED
          BY <2>1, <2>2, <2>3, <2>4, <2>5, <2>6 DEF EvolveInv, AfterDs18b20, CriticalSteps
  <1>g. ASSUME UNCHANGED published, task \in CriticalSteps, task' \in CriticalSteps
        PROVE  /\ ~critical' => published' = sensorSnapshots'
               /\ DOMAIN published' \subseteq Slots'
               /\ \A i \in DOMAIN published' : SameSensor(published'[i], sensorSnapshots'[i])
      <2>1. UNCHANGED sensorSnapshots \/ ListGrows
          BY NextIInv
      <2>2. ASSUME NEW i \in Slots
            PROVE  i \in Slots' /\ SameSensor(sensorSnapshots[i], sensorSnapshots'[i])
          BY <2>1 DEF ListGrows, Slots, SameSensor
      <2> QED
          BY <1>0, <1>g, <2>2 DEF EvolveInv, SameSensor
  <1>3. CASE RefreshDs18b20 \/ RegisterDs18b20 \/ IgnoreDs18b20
      <2>1. MeasurementFrame
          BY <1>3, MeasurementLooks
      <2>2. /\ task = "updateDS18B20" /\ task' = "updateDS18B20"
            /\ cursor' = cursor + 1 /\ cursor \in Nat
            /\ UNCHANGED <<published, roundTick>>
          BY <1>0, <2>1 DEF MeasurementFrame, TypeOK
      <2>3. \A j \in Slots' : IF j \in ds18b20Seen'
                                 THEN AttemptedUpTo(Base(j)', sensorSnapshots'[j], cursor)
                                 ELSE Untouched(j)'
          BY <1>3, LooksEvolve
      <2>4. cursor' - 1 = cursor
          BY <2>2
      <2>5. \A j \in Slots' : AttemptedUpTo(Base(j)', sensorSnapshots'[j], cursor)
                                => AttemptedUpTo(Base(j), sensorSnapshots[j], cursor - 1)'
          BY <2>2, <2>4 DEF AttemptedUpTo
      <2>6. task \in CriticalSteps /\ task' \in CriticalSteps /\ task' \notin AfterDs18b20
          BY <2>2 DEF CriticalSteps, AfterDs18b20
      <2> QED
          BY <1>g, <2>2, <2>3, <2>5, <2>6 DEF EvolveInv, AfterDs18b20
  <1>4. CASE MarkMissing
      <2>1. /\ task = "updateDS18B20" /\ task' = "updateBMx280"
            /\ UNCHANGED published
          BY <1>0, <1>4, MissingSteps DEF BoschFrame
      <2>2. task \in CriticalSteps /\ task' \in CriticalSteps
          BY <2>1 DEF CriticalSteps
      <2>3. /\ ModelEvolved("DS18B20")'
            /\ ModelUntouched("BMx280")' /\ ModelUntouched("BME680")'
          BY <1>4, MissingEvolve
      <2> QED
          BY <1>g, <2>1, <2>2, <2>3 DEF EvolveInv
  <1>5. CASE UpdateBmx280
      <2>1. UpdateBosch("BMx280", "updateBMx280", "updateBME680") /\ "BMx280" \in Bosch
          BY <1>5 DEF UpdateBmx280, Bosch
      <2>2. task = "updateBMx280" /\ task' = "updateBME680" /\ UNCHANGED published
          BY <1>0, <2>1, BoschSteps DEF BoschFrame
      <2>3. task \in CriticalSteps /\ task' \in CriticalSteps /\ task \in AfterDs18b20
          BY <2>2 DEF CriticalSteps, AfterDs18b20
      <2>4. ModelUntouched("BMx280") /\ ModelUntouched("BME680") /\ ModelEvolved("DS18B20")
          BY <2>2, <2>3 DEF EvolveInv
      <2>5. ModelEvolved("BMx280")' /\ ModelUntouched("BME680")' /\ ModelEvolved("DS18B20")'
          BY <2>1, <2>4, BoschEvolve
      <2> QED
          BY <1>g, <2>2, <2>3, <2>5 DEF EvolveInv
  <1>6. CASE UpdateBmx680
      <2>1. UpdateBosch("BME680", "updateBME680", "exit") /\ "BME680" \in Bosch
          BY <1>6 DEF UpdateBmx680, Bosch
      <2>2. task = "updateBME680" /\ task' = "exit" /\ UNCHANGED published
          BY <1>0, <2>1, BoschSteps DEF BoschFrame
      <2>3. task \in CriticalSteps /\ task' \in CriticalSteps /\ task \in AfterDs18b20
          BY <2>2 DEF CriticalSteps, AfterDs18b20
      <2>4. ModelEvolved("BMx280") /\ ModelUntouched("BME680") /\ ModelEvolved("DS18B20")
          BY <2>2, <2>3 DEF EvolveInv
      <2>5. ModelEvolved("BMx280")' /\ ModelEvolved("BME680")' /\ ModelEvolved("DS18B20")'
          BY <2>1, <2>4, BoschEvolve
      <2> QED
          BY <1>g, <2>2, <2>3, <2>5 DEF EvolveInv
  <1>7. CASE ExitCritical
      <2>1. published' = sensorSnapshots' /\ task' = "delay"
          BY <1>7, ExitSteps
      <2>2. DOMAIN published' = Slots'
          BY <2>1 DEF Slots
      <2>3. \A i \in DOMAIN published' : SameSensor(published'[i], sensorSnapshots'[i])
          BY <2>1 DEF SameSensor
      <2>4. task' \notin AfterDs18b20
          BY <2>1 DEF AfterDs18b20
      <2> QED
          BY <2>1, <2>2, <2>3, <2>4 DEF EvolveInv, AfterDs18b20
  <1> QED
      BY <1>1, <1>2, <1>3, <1>4, <1>5, <1>6, <1>7
      DEF Next, TemperatureTask, UpdateSnapshots, Measures

----------------------------------------------------------------------------
(* The age of the data.                                                    *)

LEMMA TickAdds ==
    ASSUME NEW a \in Ticks, NEW b \in Ticks, TickDifference(a, b) + 1 < TickModulus,
           NEW c, c = IF a = TickModulus - 1 THEN 0 ELSE a + 1
    PROVE  TickDifference(c, b) = TickDifference(a, b) + 1
  BY TickAssumption DEF TickDifference, Ticks

LEMMA RoundsAddUp ==
    ASSUME NEW f \in Nat
    PROVE  /\ MaxRound * f \in Nat /\ MaxRound * (f + 1) \in Nat
           /\ MaxRound * (f + 1) = MaxRound * f + MaxRound
           /\ MaxRound * f <= MaxRound * (f + 1)
           /\ f < FailureThreshold => MaxRound * (f + 1) + MaxRound < TickModulus
  <1>1. MaxRound \in Nat /\ FailureThreshold \in Nat
        /\ MaxRound * (FailureThreshold + 1) < TickModulus
      BY TickAssumption, FailureAssumption
  <1>2. MaxRound * f \in Nat /\ MaxRound * (f + 1) = MaxRound * f + MaxRound
      BY <1>1
  <1>3. ASSUME f < FailureThreshold
        PROVE  MaxRound * (f + 1) + MaxRound < TickModulus
      <2>1. PICK d \in Nat : FailureThreshold = f + 1 + d
          <3>1. FailureThreshold - (f + 1) \in Nat
              BY <1>1, <1>3
          <3> QED
              BY <1>1, <3>1
      <2>2. MaxRound * d \in Nat
          BY <1>1, <2>1
      <2>3. MaxRound * (FailureThreshold + 1)
                = MaxRound * (f + 1) + MaxRound * d + MaxRound
          BY <1>1, <2>1
      <2> QED
          BY <1>1, <1>2, <2>2, <2>3, TickAssumption
  <1> QED
      BY <1>1, <1>2, <1>3

LEMMA ValidFailures ==
    ASSUME IInv, NEW i \in Slots, sensorSnapshots[i].dataValid
    PROVE  /\ sensorSnapshots[i].consecutiveFailures \in Nat
           /\ sensorSnapshots[i].consecutiveFailures < FailureThreshold
           /\ sensorSnapshots[i].state \in {"AVAILABLE", "DEGRADED"}
           /\ sensorSnapshots[i].lastSuccess \in Ticks
           /\ i \in 1..MaxDevices /\ dataAge[i] \in Nat
  <1> DEFINE s == sensorSnapshots[i]
  <1>1. TypeOK /\ s \in Snapshot /\ ConsistentSnapshot(s)
      BY SlotType DEF IInv, TypeInv, ListInv, SlotInv
  <1>2. s.consecutiveFailures \in Nat /\ s.lastSuccess \in Ticks /\ s.state \in States
      BY <1>1, FailureAssumption DEF Snapshot
  <1>3. s.state \in {"AVAILABLE", "DEGRADED"}
      BY <1>1, <1>2 DEF ConsistentSnapshot, States
  <1>4. s.consecutiveFailures < FailureThreshold
      BY <1>1, <1>2, <1>3, FailureAssumption DEF ConsistentSnapshot
  <1>5. i \in 1..MaxDevices
      BY <1>1, LenProperties, MaxDs18b20Assumption DEF TypeOK, Slots, MaxDevices
  <1>6. dataAge[i] \in Nat
      BY <1>1, <1>5 DEF TypeOK
  <1> QED
      BY <1>2, <1>3, <1>4, <1>5, <1>6

(* What AgeInv says of a slot. *)
Aged(s, age, settled) ==
    s.dataValid =>
        /\ TickDifference(now, s.lastSuccess) = age
        /\ age <= MaxRound * (s.consecutiveFailures + 1) + roundAge
        /\ settled => age <= MaxRound * s.consecutiveFailures + roundAge

LEMMA AgeInvParts ==
    AgeInv <=>
        /\ task \in CriticalSteps \union {"enter"} =>
               TickDifference(now, roundTick) = roundAge
        /\ \A i \in Slots : Aged(sensorSnapshots[i], dataAge[i], Settled(i))
  BY DEF AgeInv, Aged

LEMMA AttemptAged ==
    ASSUME IInv, AgeInv, task \in CriticalSteps, NEW i \in 1..MaxDevices,
           NEW s \in Snapshot, i \in Slots => s = sensorSnapshots[i],
           i \notin Slots => ~s.dataValid,
           NEW t, dataAge' = AgeAfter(i, t),
           \/ \E value \in Readings : Succeeds(s, t, value)
           \/ \E error \in Errors : Fails(s, t, error)
    PROVE  Aged(t, dataAge'[i], TRUE)
  <1>0. /\ dataAge \in [1..MaxDevices -> Nat] /\ roundAge \in Nat
        /\ TickDifference(now, roundTick) = roundAge
      BY TickAssumption DEF IInv, TypeInv, TypeOK, AgeInv
  <1>1. ASSUME NEW value \in Readings, Succeeds(s, t, value)
        PROVE  Aged(t, dataAge'[i], TRUE)
      <2>1. t.lastSuccess = roundTick /\ t.consecutiveFailures = 0
          BY <1>1 DEF Succeeds
      <2>2. dataAge'[i] = roundAge
          BY <1>0, <2>1 DEF AgeAfter
      <2>3. MaxRound * 0 = 0 /\ MaxRound * (0 + 1) = MaxRound /\ MaxRound \in Nat
          BY TickAssumption
      <2> QED
          BY <1>0, <2>1, <2>2, <2>3 DEF Aged
  <1>2. ASSUME NEW error \in Errors, Fails(s, t, error), t.dataValid
        PROVE  Aged(t, dataAge'[i], TRUE)
      <2>1. /\ t.lastSuccess = s.lastSuccess /\ t.consecutiveFailures # 0
            /\ t.consecutiveFailures = s.consecutiveFailures + 1
            /\ s.dataValid
          BY <1>2 DEF Fails
      <2>2. i \in Slots /\ s = sensorSnapshots[i]
          BY <2>1
      <2>3. dataAge'[i] = dataAge[i]
          BY <1>0, <2>1 DEF AgeAfter
      <2>4. /\ TickDifference(now, s.lastSuccess) = dataAge[i]
            /\ dataAge[i] <= MaxRound * (s.consecutiveFailures + 1) + roundAge
          BY <2>1, <2>2 DEF AgeInv
      <2>5. t.consecutiveFailures \in Nat /\ dataAge[i] \in Nat
          BY <2>1, <2>2, ValidFailures
      <2>6. /\ MaxRound * t.consecutiveFailures \in Nat
            /\ MaxRound * (t.consecutiveFailures + 1) \in Nat
            /\ MaxRound * t.consecutiveFailures <= MaxRound * (t.consecutiveFailures + 1)
          BY <2>5, RoundsAddUp
      <2>7. dataAge[i] <= MaxRound * t.consecutiveFailures + roundAge
          BY <2>1, <2>4
      <2>8. dataAge[i] <= MaxRound * (t.consecutiveFailures + 1) + roundAge
          BY <1>0, <2>5, <2>6, <2>7
      <2> QED
          BY <2>1, <2>3, <2>4, <2>7, <2>8 DEF Aged
  <1> QED
      BY <1>1, <1>2 DEF Aged

LEMMA TickAges ==
    ASSUME IInv, AgeInv, Tick
    PROVE  AgeInv'
  <1>1. /\ now \in Ticks /\ roundAge \in Nat /\ roundAge < MaxRound /\ roundTick \in Ticks
        /\ roundAge' = roundAge + 1
        /\ now' = IF now = TickModulus - 1 THEN 0 ELSE now + 1
        /\ UNCHANGED <<sensorSnapshots, task, roundTick, ds18b20Seen>>
        /\ TypeOK
      BY TickAssumption DEF IInv, TypeInv, TypeOK, Tick, listVars
  <1>2. ASSUME task \in CriticalSteps \union {"enter"}
        PROVE  TickDifference(now', roundTick) = roundAge'
      <2>1. TickDifference(now, roundTick) = roundAge
          BY <1>2 DEF AgeInv
      <2>2. MaxRound * (0 + 1) + MaxRound < TickModulus /\ MaxRound * (0 + 1) = MaxRound
          BY RoundsAddUp, FailureAssumption, TickAssumption
      <2>3. roundAge + 1 < TickModulus
          BY <1>1, <2>2, TickAssumption
      <2> QED
          BY <1>1, <2>1, <2>3, TickAdds
  <1>3. ASSUME NEW i \in Slots
        PROVE  Aged(sensorSnapshots[i], dataAge[i], Settled(i))'
      <2> DEFINE s == sensorSnapshots[i]
                 f == s.consecutiveFailures
      <2>1. s' = s /\ (Settled(i)' <=> Settled(i))
          BY <1>1 DEF Settled
      <2>2. ASSUME s.dataValid PROVE Aged(sensorSnapshots[i], dataAge[i], Settled(i))'
          <3>1. /\ f \in Nat /\ f < FailureThreshold /\ s.lastSuccess \in Ticks
                /\ i \in 1..MaxDevices /\ dataAge[i] \in Nat
              BY <2>2, ValidFailures
          <3>2. dataAge'[i] = dataAge[i] + 1
              BY <1>3, <2>2, <3>1 DEF Tick
          <3>3. /\ TickDifference(now, s.lastSuccess) = dataAge[i]
                /\ dataAge[i] <= MaxRound * (f + 1) + roundAge
                /\ Settled(i) => dataAge[i] <= MaxRound * f + roundAge
              BY <2>2 DEF AgeInv
          <3>4. /\ MaxRound * f \in Nat /\ MaxRound * (f + 1) \in Nat
                /\ MaxRound * (f + 1) + MaxRound < TickModulus
              BY <3>1, RoundsAddUp
          <3> HIDE DEF s, f
          <3>5. dataAge[i] + 1 < TickModulus
              BY <1>1, <3>1, <3>3, <3>4, TickAssumption
          <3>6. TickDifference(now', s.lastSuccess) = dataAge'[i]
              BY <1>1, <3>1, <3>2, <3>3, <3>5, TickAdds
          <3>7. /\ dataAge'[i] <= MaxRound * (f + 1) + roundAge'
                /\ Settled(i) => dataAge'[i] <= MaxRound * f + roundAge'
              BY <1>1, <3>1, <3>2, <3>3, <3>4
          <3> QED
              BY <2>1, <3>6, <3>7 DEF Aged, s, f
      <2> QED
          BY <2>1, <2>2 DEF Aged
  <1>4. Slots' = Slots
      BY <1>1 DEF Slots
  <1> QED
      BY <1>1, <1>2, <1>3, <1>4 DEF AgeInv, Aged

LEMMA AgedWeakens ==
    ASSUME NEW s, NEW age, Aged(s, age, TRUE), NEW settled
    PROVE  Aged(s, age, settled)
  BY DEF Aged

LEMMA NextAgeInv ==
    ASSUME IInv, MeasureInv, SeenInv, BoschInv, AgeInv, [Next]_vars
    PROVE  AgeInv'
  <1>0. TypeOK /\ Slots = 1..Len(sensorSnapshots) /\ Len(sensorSnapshots) \in Nat
      BY MeasurementsType DEF IInv, TypeInv
  <1>i. /\ task \in CriticalSteps \union {"enter"} =>
               TickDifference(now, roundTick) = roundAge
        /\ \A i \in Slots : Aged(sensorSnapshots[i], dataAge[i], Settled(i))
      BY AgeInvParts
  <1>f. SUFFICES
            /\ task' \in CriticalSteps \union {"enter"} =>
                   TickDifference(now', roundTick') = roundAge'
            /\ \A i \in Slots' : Aged(sensorSnapshots[i], dataAge[i], Settled(i))'
      BY DEF AgeInv, Aged
  <1>g. ASSUME UNCHANGED <<now, roundAge>>, NEW i \in Slots,
               sensorSnapshots'[i] = sensorSnapshots[i], dataAge'[i] = dataAge[i],
               Settled(i)' => Settled(i)
        PROVE  Aged(sensorSnapshots[i], dataAge[i], Settled(i))'
      BY <1>i, <1>g DEF Aged
  <1>1. CASE Tick
      BY <1>1, TickAges DEF AgeInv, Aged
  <1>2. CASE (Environment \/ SearchTask \/ UNCHANGED vars) /\ ~Tick
      <2>1. UNCHANGED <<now, roundAge, dataAge, task, roundTick, sensorSnapshots,
                        ds18b20Seen>>
          BY <1>2 DEF Environment, Plug, Unplug, SearchTask, LockForSearch, SearchBus,
                      UnlockAfterSearch, vars, busVars, listVars, timeVars
      <2>2. Slots' = Slots /\ \A i : Settled(i)' <=> Settled(i)
          BY <2>1 DEF Slots, Settled
      <2> QED
          BY <1>g, <1>i, <2>1, <2>2
  <1>3. CASE Measures /\ ~StampRound
      <2>1. /\ UNCHANGED <<now, roundAge, dataAge, roundTick, sensorSnapshots>>
            /\ task \notin CriticalSteps \union {"enter"}
            /\ task' \notin CriticalSteps \union {"enter"}
          BY <1>3 DEF Measures, LockForMeasure, ConvertAndRead, UnlockAfterMeasure,
                      MeasureBmx280, MeasureBmx680, MeasureBosch, listVars, timeVars,
                      CriticalSteps
      <2>2. Slots' = Slots /\ \A i : Settled(i)
          BY <2>1 DEF Slots, Settled
      <2> QED
          BY <1>g, <2>1, <2>2
  <1>4. CASE StampRound
      <2>1. /\ task = "stamp" /\ task' = "enter" /\ roundTick' = now /\ roundAge' = 0
            /\ UNCHANGED <<now, dataAge, sensorSnapshots>>
          BY <1>4 DEF StampRound
      <2>2. TickDifference(now, now) = 0
          <3>1. now \in Nat
              BY <1>0, TickAssumption DEF TypeOK, Ticks
          <3> QED
              BY <3>1 DEF TickDifference
      <2>3. Slots' = Slots
          BY <2>1 DEF Slots
      <2>4. ASSUME NEW i \in Slots PROVE Aged(sensorSnapshots[i], dataAge[i], Settled(i))'
          <3> DEFINE s == sensorSnapshots[i]
                     f == s.consecutiveFailures
          <3>1. ASSUME s.dataValid PROVE Aged(sensorSnapshots[i], dataAge[i], Settled(i))'
              <4>1. Settled(i) /\ ~Settled(i)'
                  BY <2>1 DEF Settled, CriticalSteps, AfterDs18b20
              <4>2. f \in Nat /\ dataAge[i] \in Nat
                  BY <3>1, ValidFailures
              <4>3. /\ TickDifference(now, s.lastSuccess) = dataAge[i]
                    /\ dataAge[i] <= MaxRound * f + roundAge
                  BY <1>i, <3>1, <4>1 DEF Aged
              <4>4. roundAge \in Nat /\ roundAge <= MaxRound /\ MaxRound \in Nat
                  BY <1>0, TickAssumption DEF TypeOK
              <4>5. /\ MaxRound * f \in Nat
                    /\ MaxRound * (f + 1) = MaxRound * f + MaxRound
                  BY <4>2, RoundsAddUp
              <4> HIDE DEF f
              <4>6. dataAge[i] <= MaxRound * (f + 1) + 0
                  BY <4>2, <4>3, <4>4, <4>5
              <4> QED
                  BY <2>1, <4>1, <4>3, <4>6 DEF Aged, f
          <3> QED
              BY <2>1, <3>1 DEF Aged
      <2> QED
          BY <2>1, <2>2, <2>3, <2>4
  <1>5. CASE EnterCritical
      <2>1. /\ task = "enter" /\ task' = "updateDS18B20" /\ ds18b20Seen' = {}
            /\ UNCHANGED <<now, roundAge, dataAge, roundTick, sensorSnapshots>>
          BY <1>5, EnterSteps
      <2>2. Slots' = Slots /\ \A i : ~Settled(i)'
          BY <2>1 DEF Slots, Settled, CriticalSteps, AfterDs18b20
      <2> QED
          BY <1>g, <1>i, <2>1, <2>2
  <1>6. CASE RefreshDs18b20 \/ RegisterDs18b20 \/ IgnoreDs18b20
      <2> DEFINE m == measurements[cursor]
      <2>1. /\ MeasurementFrame
            /\ UNCHANGED <<now, roundAge, roundTick, task>>
            /\ task = "updateDS18B20" /\ task \in CriticalSteps
          BY <1>6, MeasurementLooks DEF MeasurementFrame, CriticalSteps
      <2>2. PICK i : Looks(i, m)
          BY <1>6, MeasurementLooks
      <2> HIDE DEF m
      <2>3. ASSUME NEW j \in Slots', ~(j = i /\ i # 0)
            PROVE  Aged(sensorSnapshots[j], dataAge[j], Settled(j))'
          <3>1. j \in Slots /\ j # i
              <4>1. 0 \notin Slots /\ Slots' = Slots \union (IF i = 0 THEN {} ELSE {i})
                  BY <1>0, <2>2 DEF Looks
              <4> QED
                  BY <2>3, <4>1
          <3>2. /\ sensorSnapshots'[j] = sensorSnapshots[j] /\ dataAge'[j] = dataAge[j]
                /\ j \in ds18b20Seen' <=> j \in ds18b20Seen
              BY <2>2, <3>1 DEF Looks
          <3>3. Settled(j)' => Settled(j)
              BY <2>1, <3>2 DEF Settled
          <3> QED
              BY <1>g, <2>1, <3>1, <3>2, <3>3
      <2>4. ASSUME i # 0 PROVE Aged(sensorSnapshots[i], dataAge[i], Settled(i))'
          <3> DEFINE t == sensorSnapshots'[i]
          <3>1. i \in 1..MaxDevices /\ dataAge' = AgeAfter(i, t)
              BY <2>2, <2>4 DEF Looks
          <3>2. PICK s \in Snapshot :
                    /\ i \in Slots => s = sensorSnapshots[i]
                    /\ i \notin Slots => s = NewSnapshot("DS18B20", m.rom)
                    /\ m.status = "OK" => m.reading \in Readings /\ Succeeds(s, t, m.reading)
                    /\ m.status # "OK" => Fails(s, t, m.status) /\ m.status \in Errors
              BY <2>1, <2>2, <2>4, LooksOutcome DEF MeasurementOutcome
          <3>3. i \notin Slots => ~s.dataValid
              BY <3>2 DEF NewSnapshot
          <3> HIDE DEF t
          <3>4. \/ \E value \in Readings : Succeeds(s, t, value)
                \/ \E error \in Errors : Fails(s, t, error)
              BY <3>2
          <3>5. Aged(t, dataAge'[i], TRUE)
              BY <2>1, <3>1, <3>2, <3>3, <3>4, AttemptAged
          <3> QED
              BY <2>1, <3>5 DEF Aged, t
      <2> QED
          BY <1>i, <2>1, <2>3, <2>4
  <1>7. CASE MarkMissing
      <2>1. /\ task = "updateDS18B20" /\ task' = "updateBMx280"
            /\ UNCHANGED <<now, roundAge, dataAge, roundTick, ds18b20Seen>> /\ Slots' = Slots
            /\ \A i \in Slots :
                   sensorSnapshots'[i] =
                       IF sensorSnapshots[i].model = "DS18B20" /\ i \notin ds18b20Seen
                           THEN Missing(sensorSnapshots[i])
                           ELSE sensorSnapshots[i]
          BY <1>0, <1>7, MissingSteps DEF BoschFrame, Slots
      <2>2. ASSUME NEW i \in Slots PROVE Aged(sensorSnapshots[i], dataAge[i], Settled(i))'
          <3>1. CASE sensorSnapshots[i].model = "DS18B20" /\ i \notin ds18b20Seen
              <4>1. ~sensorSnapshots'[i].dataValid
                  BY <2>1, <3>1, MissingFields
              <4> QED
                  BY <4>1 DEF Aged
          <3>2. CASE ~(sensorSnapshots[i].model = "DS18B20" /\ i \notin ds18b20Seen)
              <4>1. sensorSnapshots'[i] = sensorSnapshots[i]
                  BY <2>1, <3>2
              <4>2. Settled(i)' => Settled(i)
                  BY <2>1, <3>2, <4>1 DEF Settled, CriticalSteps, AfterDs18b20
              <4> QED
                  BY <1>g, <2>1, <4>1, <4>2
          <3> QED
              BY <3>1, <3>2
      <2> QED
          BY <1>i, <2>1, <2>2 DEF CriticalSteps
  <1>b. ASSUME NEW model \in Bosch, NEW from \in CriticalSteps, NEW to \in CriticalSteps,
               UpdateBosch(model, from, to),
               \A j \in Slots : sensorSnapshots'[j] = sensorSnapshots[j]
                                /\ sensorSnapshots[j].model # model
                                /\ Settled(j)' => Settled(j)
        PROVE  AgeInv'
      <2>1. /\ UNCHANGED <<now, roundAge, roundTick>>
            /\ task \in CriticalSteps
          BY <1>0, <1>b, BoschSteps DEF BoschFrame
      <2>2. ASSUME NEW j \in Slots', sensorSnapshots'[j].model = model
            PROVE  Aged(sensorSnapshots[j], dataAge[j], Settled(j))'
          <3> DEFINE t == sensorSnapshots'[j]
          <3>1. BoschLooks(j, model)
              BY <1>b, <2>2, UpdateLooks DEF ModelSlots
          <3>2. PICK s \in Snapshot :
                    /\ j \in Slots => s = sensorSnapshots[j]
                    /\ j \notin Slots => s = NewSnapshot(model, ZeroRom)
                    /\ boschStatus[model] = "SUCCESS" => Succeeds(s, t, boschResults[model])
                    /\ boschStatus[model] = "ERROR" => Fails(s, t, "CONVERSION")
              BY <3>1 DEF BoschLooks
          <3>3. j \notin Slots => ~s.dataValid
              BY <3>2 DEF NewSnapshot
          <3>4. /\ boschStatus[model] \in {"SUCCESS", "ERROR"}
                /\ boschStatus[model] = "SUCCESS" => boschResults[model] \in Readings
                /\ "CONVERSION" \in Errors
              BY <1>0 DEF TypeOK, BoschInv, Errors
          <3>5. j \in 1..MaxDevices /\ dataAge' = AgeAfter(j, t)
              BY <3>1 DEF BoschLooks
          <3> HIDE DEF t
          <3>6. \/ \E value \in Readings : Succeeds(s, t, value)
                \/ \E error \in Errors : Fails(s, t, error)
              BY <3>2, <3>4
          <3>7. Aged(t, dataAge'[j], TRUE)
              BY <2>1, <3>2, <3>3, <3>5, <3>6, AttemptAged
          <3> QED
              BY <2>1, <3>7 DEF Aged, t
      <2>3. ASSUME NEW j \in Slots', sensorSnapshots'[j].model # model
            PROVE  Aged(sensorSnapshots[j], dataAge[j], Settled(j))'
          <3>1. /\ j \in Slots /\ sensorSnapshots'[j] = sensorSnapshots[j]
                /\ dataAge'[j] = dataAge[j]
              BY <1>0, <1>b, <2>3, BoschWrites
          <3> QED
              BY <1>b, <1>g, <2>1, <2>3, <3>1
      <2> QED
          BY <1>i, <2>1, <2>2, <2>3 DEF AgeInv, Aged
  <1>8. CASE UpdateBmx280
      <2>1. /\ UpdateBosch("BMx280", "updateBMx280", "updateBME680")
            /\ "BMx280" \in Bosch
            /\ "updateBMx280" \in CriticalSteps /\ "updateBME680" \in CriticalSteps
            /\ task = "updateBMx280" /\ task' = "updateBME680"
          BY <1>8 DEF UpdateBmx280, UpdateBosch, Bosch, CriticalSteps
      <2>2. ASSUME NEW j \in Slots, sensorSnapshots'[j] = sensorSnapshots[j],
                   sensorSnapshots[j].model # "BMx280", Settled(j)'
            PROVE  Settled(j)
          BY <2>1, <2>2 DEF Settled, CriticalSteps, AfterDs18b20
      <2>3. AgeInv'
          BY <1>b, <2>1, <2>2
      <2> QED
          BY <2>3 DEF AgeInv, Aged
  <1>9. CASE UpdateBmx680
      <2>1. /\ UpdateBosch("BME680", "updateBME680", "exit")
            /\ "BME680" \in Bosch
            /\ "updateBME680" \in CriticalSteps /\ "exit" \in CriticalSteps
            /\ task = "updateBME680" /\ task' = "exit"
          BY <1>9 DEF UpdateBmx680, UpdateBosch, Bosch, CriticalSteps
      <2>2. ASSUME NEW j \in Slots, sensorSnapshots'[j] = sensorSnapshots[j],
                   sensorSnapshots[j].model # "BME680", Settled(j)'
            PROVE  Settled(j)
          <3>1. sensorSnapshots[j].model \in {"DS18B20", "BMx280"}
              BY <1>0, <2>2, SlotType DEF Snapshot, Bosch
          <3> QED
              BY <2>1, <3>1 DEF Settled, AfterDs18b20
      <2>3. AgeInv'
          BY <1>b, <2>1, <2>2
      <2> QED
          BY <2>3 DEF AgeInv, Aged
  <1>10. CASE ExitCritical
      <2>1. /\ task = "exit" /\ task' = "delay"
            /\ UNCHANGED <<sensorSnapshots, now, roundAge, dataAge>>
          BY <1>10, ExitSteps
      <2>2. Slots' = Slots /\ (\A i : Settled(i)) /\ task' \notin CriticalSteps \union {"enter"}
          BY <2>1 DEF Slots, Settled, CriticalSteps
      <2> QED
          BY <1>g, <2>1, <2>2
  <1> QED
      BY <1>1, <1>2, <1>3, <1>4, <1>5, <1>6, <1>7, <1>8, <1>9, <1>10
      DEF Next, TemperatureTask, UpdateSnapshots, Measures

----------------------------------------------------------------------------
(* The invariant, and what the readers may rely on.                        *)

ReaderInv ==
    MeasureInv /\ RoomInv /\ SeenInv /\ BoschInv /\ DataInv /\ EvolveInv /\ AgeInv

LEMMA InitReaderInv == Init => ReaderInv
  <1> SUFFICES ASSUME Init PROVE ReaderInv
      OBVIOUS
  <1>1. /\ task = "delay" /\ measurements = <<>> /\ cursor = 1 /\ ds18b20Seen = {}
        /\ sensorSnapshots = <<>> /\ published = <<>>
        /\ boschResults = [model \in Bosch |-> NoReading]
        /\ boschStatus = [model \in Bosch |-> "ERROR"]
      BY DEF Init
  <1>2. /\ Slots = {} /\ Len(measurements) = 0
        /\ \A model : ModelSlots(model) = {}
        /\ task \notin CriticalSteps \union AfterDs18b20
      BY <1>1 DEF Slots, ModelSlots, CriticalSteps, AfterDs18b20
  <1>3. MeasureInv
      BY <1>1, <1>2, MaxDs18b20Assumption DEF MeasureInv
  <1>4. RoomInv /\ SeenInv /\ EvolveInv
      BY <1>1, <1>2 DEF RoomInv, SeenInv, EvolveInv, CriticalSteps, AfterDs18b20
  <1>5. BoschInv
      BY <1>1, <1>2 DEF BoschInv, Copied, Bosch
  <1>6. DataInv /\ AgeInv
      BY <1>1, <1>2 DEF DataInv, AgeInv
  <1> QED
      BY <1>3, <1>4, <1>5, <1>6 DEF ReaderInv

(* What the readers rely on rests on one invariant: how far the round has    *)
(* come with each slot, what its measurements were, and how old its data is  *)
(* (temperature_service.c:224-348).                                          *)
THEOREM ReaderInvariant == Spec => [](IInv /\ ReaderInv)
  <1>1. Init => IInv /\ ReaderInv
      BY InitTypeInv, InitListInv, InitReaderInv DEF IInv
  <1>2. IInv /\ ReaderInv /\ [Next]_vars => IInv' /\ ReaderInv'
      <2> SUFFICES ASSUME IInv, ReaderInv, [Next]_vars PROVE IInv' /\ ReaderInv'
          OBVIOUS
      <2>1. MeasureInv /\ RoomInv /\ SeenInv /\ BoschInv /\ DataInv /\ EvolveInv /\ AgeInv
          BY DEF ReaderInv
      <2>2. IInv' /\ MeasureInv'
          BY <2>1, NextIInv, NextMeasureInv DEF IInv
      <2>3. RoomInv' /\ SeenInv' /\ BoschInv'
          BY <2>1, NextRoomInv, NextSeenInv, NextBoschInv
      <2>4. DataInv' /\ EvolveInv' /\ AgeInv'
          BY <2>1, NextDataInv, NextEvolveInv, NextAgeInv
      <2> QED
          BY <2>2, <2>3, <2>4 DEF ReaderInv
  <1> QED
      BY <1>1, <1>2, PTL DEF Spec

(* Every Bosch sensor that was initialised has a number after the first      *)
(* round, however many DS18B20s are on the bus: they can never fill the last *)
(* two slots (temperature_service.h:20-21, temperature_service.c:235-253).   *)
THEOREM BoschHaveNumbers == Spec => []BoschSensorsHaveNumbers
  <1>1. IInv /\ ReaderInv => BoschSensorsHaveNumbers
      BY DEF IInv, TypeInv, LockInv, ReaderInv, RoomInv, Numbered,
             BoschSensorsHaveNumbers
  <1> QED
      BY <1>1, ReaderInvariant, PTL

(* Valid data is the reading its own sensor delivered last, never the zero   *)
(* of a failed transaction, whatever rows the search repeats                 *)
(* (temperature_service.c:255-284, 307-346).                                 *)
THEOREM ValidDataIsOwn == Spec => []ValidDataIsFromItsSensor
  <1>1. ASSUME IInv, ReaderInv PROVE ValidDataIsFromItsSensor
      <2>1. SUFFICES ASSUME task = "exit", NEW i \in Slots, sensorSnapshots[i].dataValid
                     PROVE  LET s == sensorSnapshots[i] IN
                            /\ s.reading # NoReading
                            /\ s.reading = IF s.model = "DS18B20"
                                              THEN delivered[s.identity]
                                              ELSE boschResults[s.model]
          BY DEF ValidDataIsFromItsSensor
      <2> DEFINE s == sensorSnapshots[i]
      <2>2. MeasureInv /\ BoschInv /\ DataInv
          BY <1>1 DEF ReaderInv
      <2>3. /\ s.model \in {"DS18B20"} \union Bosch /\ Bosch = {"BMx280", "BME680"}
            /\ Len(measurements) \in Nat /\ cursor = Len(measurements) + 1
          BY <1>1, <2>1, <2>2, SlotType, MeasurementsType
          DEF IInv, TypeInv, MeasureInv, AfterDs18b20, Snapshot, Bosch
      <2>4. CASE s.model = "DS18B20"
          <3>1. ~Success(s.identity, cursor, Len(measurements))
              BY <2>3 DEF Success
          <3>2. s.reading \in Readings /\ s.reading = delivered[s.identity]
              BY <2>1, <2>2, <2>4, <3>1 DEF DataInv
          <3> QED
              BY <2>4, <3>2, NoReadingAssumption
      <2>5. CASE s.model \in Bosch
          <3>1. boschResults[s.model] \in Readings
              BY <2>1, <2>2, <2>5 DEF BoschInv
          <3>2. s.model # "DS18B20" /\ i \in ModelSlots(s.model)
              BY <2>5 DEF Bosch, ModelSlots
          <3>3. Copied(s.model)
              BY <2>1, <2>2, <2>3, <2>5 DEF BoschInv
          <3> QED
              BY <3>1, <3>2, <3>3, NoReadingAssumption DEF Copied
      <2> QED
          BY <2>3, <2>4, <2>5
  <1> QED
      BY <1>1, ReaderInvariant, PTL

(* A round measures devices of the table it began with. *)
DiscoveredInv ==
    /\ task = "convert" => discovered = Found
    /\ \A k \in 1..Len(measurements) : measurements[k].rom \in discovered

LEMMA NextDiscoveredInv ==
    ASSUME IInv, DiscoveredInv, [Next]_vars
    PROVE  DiscoveredInv'
  <1>0. TypeInv /\ TypeOK /\ LockInv
      BY DEF IInv, TypeInv
  <1>1. CASE LockForMeasure
      <2>1. measurements' = <<>> /\ discovered' = Found /\ UNCHANGED busVars
          BY <1>1 DEF LockForMeasure
      <2>2. Found' = Found
          BY <2>1 DEF Found, busVars, searchVars
      <2> QED
          BY <2>1, <2>2 DEF DiscoveredInv
  <1>2. CASE ConvertAndRead
      <2> DEFINE next == Len(measurements) + 1
                 rom == oneWireDevices[next]
      <2>1. /\ task = "convert" /\ UNCHANGED <<busVars, discovered>>
            /\ Len(measurements) \in Nat /\ next <= readCount
            /\ readCount <= oneWireDeviceCount
            /\ readCount \in Nat /\ oneWireDeviceCount \in Nat
          BY <1>0, <1>2, LenProperties, MaxDs18b20Assumption, BusCapacityAssumption
          DEF ConvertAndRead, TypeInv, RoundInv, TypeOK, SearchTypeOK
      <2>2. Found' = Found /\ discovered = Found
          BY <2>1 DEF DiscoveredInv, Found, busVars, searchVars
      <2>3. rom \in Found
          BY <2>1 DEF Found
      <2>4. /\ Len(measurements') = next
            /\ \A k \in 1..Len(measurements) : measurements'[k] = measurements[k]
            /\ measurements'[next].rom = rom
          <3>1. PICK m \in Measurement :
                    measurements' = Append(measurements, m) /\ m.rom = rom
              BY <1>0, <1>2, ConvertAdds
          <3> QED
              BY <1>0, <3>1, MeasurementsType, AppendProps
      <2> QED
          BY <2>1, <2>2, <2>3, <2>4 DEF DiscoveredInv
  <1>3. CASE SearchTask
      <2>1. UNCHANGED <<task, measurements, discovered>>
          BY <1>3 DEF SearchTask, LockForSearch, SearchBus, UnlockAfterSearch, roundVars
      <2>2. ASSUME task = "convert" PROVE Found' = Found
          BY <1>0, <1>3, <2>2
          DEF LockInv, SearchTask, LockForSearch, SearchBus, UnlockAfterSearch, Found,
              busVars, searchVars
      <2> QED
          BY <2>1, <2>2 DEF DiscoveredInv
  <1>4. CASE ExitCritical
      BY <1>4 DEF ExitCritical, DiscoveredInv
  <1>5. CASE \/ Environment \/ (UpdateSnapshots /\ ~ExitCritical) \/ UNCHANGED vars
             \/ UnlockAfterMeasure \/ MeasureBmx280 \/ MeasureBmx680 \/ StampRound
      <2>1. /\ UNCHANGED <<measurements, discovered, oneWireDevices,
                           oneWireDeviceCount>>
            /\ task' = "convert" => task = "convert"
          BY <1>5
          DEF Environment, Tick, Plug, Unplug, UpdateSnapshots, EnterCritical,
              RefreshDs18b20, RegisterDs18b20, IgnoreDs18b20, NextMeasurement, MarkMissing,
              UpdateBmx280, UpdateBmx680, UpdateBosch, UnlockAfterMeasure, MeasureBmx280,
              MeasureBmx680, MeasureBosch, StampRound, vars, roundVars, busVars, searchVars
      <2>2. Found' = Found
          BY <2>1 DEF Found
      <2> QED
          BY <2>1, <2>2 DEF DiscoveredInv
  <1> QED
      BY <1>1, <1>2, <1>3, <1>4, <1>5 DEF Next, TemperatureTask

(* A round calls every DS18B20 missing that was not in the table it read,    *)
(* and none that it has measured; what it leaves open is the sensor in a row *)
(* it did not get to (temperature_service.c:286-304, ds18b20.c:50-71).       *)
THEOREM MissingAsTheRoundFound == Spec => []MissingFollowsTheRound
  <1>1. Spec => []DiscoveredInv
      <2>1. Init => DiscoveredInv
          BY DEF Init, DiscoveredInv
      <2> QED
          BY <2>1, NextDiscoveredInv, RegistryInvariant, PTL DEF Spec
  <1>2. ASSUME IInv, ReaderInv, DiscoveredInv PROVE MissingFollowsTheRound
      <2>1. DOMAIN measurements = 1..Len(measurements)
          BY <1>2, MeasurementsType DEF IInv, TypeInv
      <2>2. SUFFICES ASSUME task = "exit", NEW i \in Slots,
                            sensorSnapshots[i].model = "DS18B20"
                     PROVE  LET s == sensorSnapshots[i] IN
                            /\ s.identity \notin discovered => s.state = "MISSING"
                            /\ (\E k \in DOMAIN measurements :
                                    measurements[k].rom = s.identity)
                               => s.state # "MISSING"
          BY DEF MissingFollowsTheRound
      <2>3. sensorSnapshots[i].state = "MISSING" <=>
                ~Measured(sensorSnapshots[i].identity, Len(measurements))
          BY <1>2, <2>2 DEF ReaderInv, SeenInv, AfterDs18b20
      <2>4. Measured(sensorSnapshots[i].identity, Len(measurements))
                => sensorSnapshots[i].identity \in discovered
          BY <1>2 DEF DiscoveredInv, Measured
      <2> QED
          BY <2>1, <2>3, <2>4 DEF Measured
  <1> QED
      BY <1>1, <1>2, ReaderInvariant, PTL

(* Data a reader is given as valid is no older than the stale period unless  *)
(* it was measured at tick zero: the tick counter does not wrap around       *)
(* between its success and the reader, because every round that does not     *)
(* renew it counts as a failure (temperature_service.c:379-406).             *)
THEOREM ValidDataIsNotOld == Spec => []ValidDataIsFresh
  <1>1. ASSUME IInv, ReaderInv PROVE ValidDataIsFresh
      <2>1. SUFFICES ASSUME NEW i \in Slots, GetSnapshot(i).dataValid,
                            sensorSnapshots[i].lastSuccess # 0
                     PROVE  dataAge[i] <= StalePeriod
          BY DEF ValidDataIsFresh
      <2> DEFINE s == sensorSnapshots[i]
                 stale == /\ s.lastSuccess # 0
                          /\ s.state \in {"AVAILABLE", "DEGRADED"}
                          /\ TickDifference(now, s.lastSuccess) > StalePeriod
      <2>2. s \in Snapshot
          BY <1>1, SlotType DEF IInv, TypeInv
      <2>3. ~stale /\ s.dataValid
          <3>1. ASSUME stale PROVE FALSE
              <4>1. GetSnapshot(i) = [s EXCEPT !.state = "STALE", !.dataValid = FALSE]
                  BY <3>1 DEF GetSnapshot, ApplyAge
              <4>2. ~GetSnapshot(i).dataValid
                  BY <2>2, <4>1 DEF Snapshot
              <4> QED
                  BY <2>1, <4>2
          <3>2. ~stale
              BY <3>1
          <3>3. GetSnapshot(i) = s
              BY <3>2 DEF GetSnapshot, ApplyAge
          <3> QED
              BY <2>1, <3>2, <3>3
      <2>4. s.state \in {"AVAILABLE", "DEGRADED"} /\ dataAge[i] \in Nat
          BY <1>1, <2>3, ValidFailures
      <2>5. TickDifference(now, s.lastSuccess) = dataAge[i]
          BY <1>1, <2>3 DEF ReaderInv, AgeInv
      <2> QED
          BY <2>1, <2>3, <2>4, <2>5, TickAssumption
  <1> QED
      BY <1>1, ReaderInvariant, PTL

----------------------------------------------------------------------------
(* Readers see whole rounds.                                               *)

LEMMA SeenIsPublished ==
    ASSUME EvolveInv
    PROVE  Seen = published
  BY DEF EvolveInv, Seen

LEMMA UnknownIsNew ==
    ASSUME NEW s, NEW t, t = NewSnapshot(s.model, s.identity)
    PROVE  Abstract!Unknown(Abstract!Sensor(s)) = t
  BY DEF Abstract!Unknown, Abstract!Sensor, NewSnapshot

LEMMA OnlyExitPublishes ==
    ASSUME [Next]_vars, ~ExitCritical
    PROVE  published' = published
  BY DEF Next, Environment, Tick, Plug, Unplug, SearchTask, LockForSearch, SearchBus,
         UnlockAfterSearch, TemperatureTask, LockForMeasure, ConvertAndRead,
         UnlockAfterMeasure, MeasureBmx280, MeasureBmx680, MeasureBosch, StampRound,
         UpdateSnapshots, EnterCritical, RefreshDs18b20, RegisterDs18b20, IgnoreDs18b20,
         NextMeasurement, MarkMissing, UpdateBmx280, UpdateBmx680, UpdateBosch, vars

LEMMA ExitPublishes ==
    ASSUME IInv, ReaderInv, ExitCritical, Seen = published, Seen' = sensorSnapshots
    PROVE  Abstract!Publish
  <1>0. /\ TypeOK /\ EvolveInv /\ SeenInv /\ task = "exit" /\ roundTick \in Ticks
        /\ Slots = 1..Len(sensorSnapshots) /\ Len(sensorSnapshots) \in Nat
        /\ MaxDevices \in Nat /\ Len(sensorSnapshots) <= MaxDevices
        /\ published \in Seq(Snapshot)
      BY MeasurementsType, ExitSteps, MaxDs18b20Assumption
      DEF IInv, TypeInv, TypeOK, ReaderInv, MaxDevices
  <1>1. /\ Len(published) \in Nat /\ DOMAIN published = 1..Len(published)
        /\ \A i \in 1..Len(published) : i \in Slots
      BY <1>0, LenProperties DEF EvolveInv
  <1>2. Len(sensorSnapshots) \in Len(published)..MaxDevices
      <2>1. Len(published) <= Len(sensorSnapshots)
          <3>1. CASE Len(published) = 0
              BY <1>0, <3>1
          <3>2. CASE Len(published) # 0
              <4>1. Len(published) \in 1..Len(published)
                  BY <1>1, <3>2
              <4>2. Len(published) \in 1..Len(sensorSnapshots)
                  BY <1>0, <1>1, <4>1
              <4> QED
                  BY <1>0, <1>1, <4>2
          <3> QED
              BY <3>1, <3>2
      <2> QED
          BY <1>0, <1>1, <2>1
  <1>3. ASSUME NEW i \in Slots PROVE Evolved(i)
      <2>1. /\ sensorSnapshots[i].model \in {"DS18B20"} \union Bosch
            /\ Bosch = {"BMx280", "BME680"}
          BY <1>0, SlotType DEF Snapshot, Bosch
      <2>2. ModelEvolved("DS18B20") /\ ModelEvolved("BMx280") /\ ModelEvolved("BME680")
          BY <1>0 DEF EvolveInv, AfterDs18b20
      <2> QED
          BY <2>1, <2>2 DEF ModelEvolved, ModelSlots
  <1>4. ASSUME NEW i \in 1..Len(sensorSnapshots), i <= Len(published)
        PROVE  Abstract!Evolves(published[i], sensorSnapshots[i], roundTick)
      <2>1. i \in DOMAIN published /\ i \in Slots
          BY <1>0, <1>1, <1>4
      <2> QED
          BY <1>3, <2>1 DEF Evolved, Base
  <1>5. ASSUME NEW i \in 1..Len(sensorSnapshots), ~(i <= Len(published))
        PROVE  LET s == sensorSnapshots[i] IN
               /\ Abstract!Sensor(s) \in [model : {"DS18B20"}, identity : Roms]
                                         \union [model : Bosch, identity : {ZeroRom}]
               /\ \A j \in 1..(i - 1) : Abstract!Sensor(sensorSnapshots[j]) # Abstract!Sensor(s)
               /\ Abstract!Evolves(Abstract!Unknown(Abstract!Sensor(s)), s, roundTick)
      <2> DEFINE s == sensorSnapshots[i]
      <2>1. i \notin DOMAIN published /\ i \in Slots
          BY <1>0, <1>1, <1>5
      <2>2. /\ s.model \in {"DS18B20"} \union Bosch
            /\ s.model = "DS18B20" => s.identity \in Roms
            /\ s.model \in Bosch => s.identity = ZeroRom
          BY <1>0, <2>1, SlotType DEF Snapshot, SeenInv, IInv, ListInv, SlotInv
      <2>3. Abstract!Sensor(s) \in [model : {"DS18B20"}, identity : Roms]
                                   \union [model : Bosch, identity : {ZeroRom}]
          BY <2>2 DEF Abstract!Sensor
      <2>4. ASSUME NEW j \in 1..(i - 1)
            PROVE  Abstract!Sensor(sensorSnapshots[j]) # Abstract!Sensor(s)
          <3>1. j \in Slots /\ j # i
              BY <1>0, <1>5
          <3> QED
              BY <2>1, <3>1 DEF Abstract!Sensor, IInv, ListInv, OneSlotPerSensor
      <2>5. Base(i) = NewSnapshot(s.model, s.identity)
          BY <2>1 DEF Base
      <2>6. Abstract!Unknown(Abstract!Sensor(s)) = Base(i)
          BY <2>5, UnknownIsNew
      <2>7. Abstract!Evolves(Base(i), s, roundTick)
          BY <1>3, <2>1 DEF Evolved
      <2> QED
          BY <2>3, <2>4, <2>6, <2>7
  <1> QED
      BY <1>0, <1>2, <1>4, <1>5 DEF Abstract!Publish

(* What readers see changes by whole rounds only: every published list       *)
(* follows from the one before it by one attempt, or several, at each        *)
(* numbered sensor at one tick, and new sensors take the next numbers        *)
(* (temperature_service.c:224-348, 379-406).                                 *)
THEOREM ReadersSeeWholeRounds == Spec => PublishesWholeRounds
  <1>1. Init => Abstract!Init
      BY DEF Init, Abstract!Init, Seen
  <1>2. ASSUME IInv, ReaderInv, IInv', ReaderInv', [Next]_vars
        PROVE  Abstract!Publish \/ Seen' = Seen
      <2>1. Seen = published /\ Seen' = published'
          <3>1. EvolveInv /\ EvolveInv'
              BY <1>2 DEF ReaderInv
          <3> QED
              BY <3>1 DEF EvolveInv, Seen
      <2>2. CASE ExitCritical
          <3>1. published' = sensorSnapshots
              BY <2>2, ExitSteps
          <3> QED
              BY <1>2, <2>1, <2>2, <3>1, ExitPublishes
      <2>3. CASE ~ExitCritical
          BY <1>2, <2>1, <2>3, OnlyExitPublishes
      <2> QED
          BY <2>2, <2>3
  <1>3. IInv /\ ReaderInv /\ IInv' /\ ReaderInv' /\ [Next]_vars => [Abstract!Publish]_Seen
      BY <1>2
  <1> QED
      BY <1>1, <1>3, ReaderInvariant, PTL DEF Spec, PublishesWholeRounds, Abstract!Spec
=============================================================================
