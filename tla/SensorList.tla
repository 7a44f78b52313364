------------------------------ MODULE SensorList ------------------------------
(***************************************************************************)
(* What the Temperature service promises to the readers of its sensor      *)
(* list: rounds replace the list one at a time and as a whole, every       *)
(* sensor that has a number is attempted by each of them, and what a       *)
(* reader finds in a slot follows from the outcomes of those attempts      *)
(* alone.  How a round is measured, where its rows come from, and in which *)
(* order the slots are written, is not part of the promise.                *)
(***************************************************************************)
EXTENDS Naturals, Sequences

CONSTANTS
    Sensors,    \* the physical sensors: records of a model and an identity
    Values,     \* readings a successful attempt may deliver
    NoValue,    \* the reading of a sensor that never succeeded
    Capacity,   \* numbers there are
    Attempts,   \* most attempts one round may make at one sensor
    Threshold,  \* failures in a row that make a sensor unavailable
    Limit,      \* where failures are no longer counted
    Times       \* tick counts

VARIABLE list

Sensor(s) == [model |-> s.model, identity |-> s.identity]

(* A sensor nothing is known of. *)
Unknown(sensor) ==
    [model |-> sensor.model, identity |-> sensor.identity, dataValid |-> FALSE,
     reading |-> NoValue, state |-> "INITIALIZING", lastError |-> "NOT_READY",
     consecutiveFailures |-> 0, lastAttempt |-> 0, lastSuccess |-> 0]

AfterSuccess(s, value, time) ==
    [s EXCEPT !.dataValid = TRUE, !.reading = value, !.state = "AVAILABLE",
              !.lastError = "NONE", !.consecutiveFailures = 0,
              !.lastAttempt = time, !.lastSuccess = time]

Counted(n) == IF n < Limit THEN n ELSE Limit

(* After n failures: the reading is the old one, valid as long as it was and *)
(* the sensor is neither missing nor unavailable.                            *)
AfterFailures(s, n, error, time) ==
    LET failures == Counted(s.consecutiveFailures + n)
        state == IF error = "MISSING" THEN "MISSING"
                 ELSE IF failures >= Threshold THEN "UNAVAILABLE"
                 ELSE "DEGRADED"
    IN  [s EXCEPT !.dataValid = @ /\ state = "DEGRADED", !.state = state,
                  !.lastError = error, !.consecutiveFailures = failures,
                  !.lastAttempt = time]

(* t is what a round at the given time may make of s.  A round may attempt a *)
(* sensor more than once; a missing one it attempts once.                    *)
Evolves(s, t, time) ==
    \/ t = AfterSuccess(s, t.reading, time) /\ t.reading \in Values
    \/ \E n \in 1..Attempts :
          t = AfterFailures(s, n, t.lastError, time) /\ t.lastError # "MISSING"
    \/ t = AfterFailures(s, 1, "MISSING", time) /\ s.state # "INITIALIZING"
    \/ \E n \in 1..(Attempts - 1) :
          /\ t = AfterFailures(AfterSuccess(s, t.reading, time), n, t.lastError,
                               time)
          /\ t.reading \in Values
          /\ t.lastError # "MISSING"

Init == list = <<>>

Publish ==
    /\ Len(list') \in Len(list)..Capacity
    /\ \E time \in Times :
          \A i \in 1..Len(list') :
             IF i <= Len(list)
               THEN Evolves(list[i], list'[i], time)
               ELSE /\ Sensor(list'[i]) \in Sensors
                    /\ \A j \in 1..(i - 1) : Sensor(list'[j]) # Sensor(list'[i])
                    /\ Evolves(Unknown(Sensor(list'[i])), list'[i], time)

Spec == Init /\ [][Publish]_list
=============================================================================
