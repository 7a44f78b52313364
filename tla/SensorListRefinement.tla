------------------------- MODULE SensorListRefinement -------------------------
(***************************************************************************)
(* SensorRegistry implements SensorList.  What a reader can see outside a  *)
(* critical section is the list; inside one nobody reads, and the list is  *)
(* still the one the last round left.                                      *)
(***************************************************************************)
EXTENDS SensorRegistry

Seen == IF critical THEN published ELSE sensorSnapshots

Abstract == INSTANCE SensorList WITH
    list <- Seen,
    Sensors <- [model : {"DS18B20"}, identity : Roms]
               \union [model : Bosch, identity : {ZeroRom}],
    Values <- Readings,
    NoValue <- NoReading,
    Capacity <- MaxDevices,
    Attempts <- MaxDs18b20,
    Threshold <- FailureThreshold,
    Limit <- FailureLimit,
    Times <- Ticks

(* Readers see rounds, never parts of one: between two published lists lies  *)
(* one whole round, in which every numbered sensor was attempted at the same *)
(* tick and its slot holds what its attempts came to; a failure never        *)
(* changes a reading, new sensors take the next numbers, and no number is    *)
(* ever given up (temperature_service.c:224-348, 379-406).                   *)
PublishesWholeRounds == Abstract!Spec
=============================================================================
