----------------------------- MODULE OneWireTask -----------------------------
(***************************************************************************)
(* oneWireBusConfigurationTask of Periph/Src/onewire.c beside the          *)
(* Temperature task: the search of the bus (module OneWireSearch) is made  *)
(* of waits that use, and stop, the cycle counter by which the Temperature *)
(* task may be waiting for a Bosch sensor (module DelayCounter).           *)
(*                                                                         *)
(* The presence pulse and every bit is awaited with interrupts disabled,   *)
(* and the search decides after the last of a pass's waits; between two of *)
(* them it may be preempted.                                               *)
(***************************************************************************)
EXTENDS OneWireSearch, DelayCounter

taskVars == <<attached, searchVars, vars>>

(* A reset, or a pass over the ROM bits, with the last of its waits. *)
SearchPass ==
    /\ OneWireDelay
    /\ SearchFindsNoPresence \/ SearchBegins \/ EnumerateDevice
    /\ UNCHANGED attached

(* One of the waits before it. *)
BusWait ==
    /\ search # "done"
    /\ OneWireDelay
    /\ UNCHANGED <<attached, searchVars>>

(* The loop is left: no fork, or no row, remains. *)
SearchReturns == SearchEnds /\ UNCHANGED <<attached, vars>>

SearchesOn == SearchPass \/ SearchReturns

(* The Temperature task's wait, and time. *)
TemperatureDelay == Delay_Microseconds /\ UNCHANGED <<attached, searchVars>>

TimePasses == Cycle /\ UNCHANGED <<attached, searchVars>>

TaskInit == SearchOnlyInit /\ Init

TaskNext == SearchesOn \/ BusWait \/ TemperatureDelay \/ TimePasses

TaskSpec == TaskInit /\ [][TaskNext]_taskVars

(* Two tasks of one priority take turns: a pass has finitely many waits, and *)
(* neither the counter nor the waiting task is held up for good.             *)
FairTaskSpec ==
    /\ TaskSpec
    /\ WF_searchVars(SearchesOn)
    /\ WF_vars(TemperatureDelay)
    /\ WF_vars(TimePasses)
=============================================================================
