---------------------------- MODULE DelayCounter -----------------------------
(***************************************************************************)
(* The busy waits of Core/Src/common.c.  All of them share the cycle       *)
(* counter of the core: a wait clears it, starts it, and stops it at its   *)
(* end.  The Temperature task waits a millisecond at a time for its Bosch  *)
(* sensors and may be preempted at any instruction; when the task that     *)
(* preempted it blocks, the one-wire configuration task, which has the     *)
(* same priority, may be the next to run.  It waits for the bits of the    *)
(* bus with interrupts disabled, so that its waits are single steps.       *)
(*                                                                         *)
(* The counter counts modulo Modulus, 2^32 in the code.                    *)
(***************************************************************************)
EXTENDS Integers

CONSTANTS
    Ticks,     \* cycles of the Temperature task's wait
    BitTicks,  \* cycles of a one-wire wait
    Modulus    \* values of DWT->CYCCNT

ASSUME DelayAssumption ==
    /\ Ticks \in Nat /\ BitTicks \in Nat /\ Modulus \in Nat
    /\ 0 < BitTicks /\ BitTicks < Ticks /\ 2 * Ticks < Modulus

VARIABLES
    counter,   \* DWT->CYCCNT
    enabled,   \* CYCCNTENA of DWT->CTRL
    delay,     \* what the Temperature task's Delay_Microseconds does next
    start,     \* its start
    elapsed,   \* history: cycles since its counter was started, up to Ticks
    disturbed  \* history: a one-wire wait has stopped its counter

vars == <<counter, enabled, delay, start, elapsed, disturbed>>

Least(a, b) == IF a < b THEN a ELSE b

----------------------------------------------------------------------------
(* Time, which is counted on while the task is preempted.  The bound says    *)
(* that a wait is not preempted for a whole turn of the counter, a minute.   *)
Cycle ==
    /\ delay = "wait" /\ enabled => (counter - start) % Modulus < Modulus - 1
    /\ counter' = IF enabled THEN (counter + 1) % Modulus ELSE counter
    /\ elapsed' = IF delay \in {"read", "wait"} THEN Least(elapsed + 1, Ticks)
                                                ELSE elapsed
    /\ UNCHANGED <<enabled, delay, start, disturbed>>

(* The task calls Delay_Milliseconds; the counter is cleared. *)
ClearCounter ==
    /\ delay = "none"
    /\ counter' = 0
    /\ delay' = "start"
    /\ elapsed' = 0
    /\ disturbed' = FALSE
    /\ UNCHANGED <<enabled, start>>

(* Mutation: the counter is left as it is found. *)
StartCounter_Never ==
    /\ delay = "start"
    /\ delay' = "read"
    /\ UNCHANGED <<counter, enabled, start, elapsed, disturbed>>

StartCounter ==
    /\ delay = "start"
    /\ enabled' = TRUE
    /\ delay' = "read"
    /\ UNCHANGED <<counter, start, elapsed, disturbed>>

ReadStart ==
    /\ delay = "read"
    /\ start' = counter
    /\ delay' = "wait"
    /\ UNCHANGED <<counter, enabled, elapsed, disturbed>>

(* Mutation: the wait is over when the counter has reached its end, whatever *)
(* its start.                                                                *)
IsOver_Absolute == counter >= Ticks

IsOver == (counter - start) % Modulus >= Ticks

EndWait ==
    /\ delay = "wait"
    /\ IsOver
    /\ delay' = "stop"
    /\ UNCHANGED <<counter, enabled, start, elapsed, disturbed>>

StopCounter ==
    /\ delay = "stop"
    /\ enabled' = FALSE
    /\ delay' = "none"
    /\ start' = 0
    /\ UNCHANGED <<counter, elapsed, disturbed>>

(* Mutation: the one-wire task leaves the counter running. *)
OneWireDelay_LeavesRunning ==
    /\ counter' = BitTicks
    /\ enabled' = TRUE
    /\ elapsed' = IF delay \in {"read", "wait"}
                    THEN Least(elapsed + BitTicks, Ticks) ELSE elapsed
    /\ disturbed' = (disturbed \/ delay \in {"read", "wait"})
    /\ UNCHANGED <<delay, start>>

(* A whole wait of the one-wire task. *)
OneWireDelay ==
    /\ counter' = BitTicks
    /\ enabled' = FALSE
    /\ elapsed' = IF delay \in {"read", "wait"}
                    THEN Least(elapsed + BitTicks, Ticks) ELSE elapsed
    /\ disturbed' = (disturbed \/ delay \in {"read", "wait"})
    /\ UNCHANGED <<delay, start>>

Delay_Microseconds ==
    ClearCounter \/ StartCounter \/ ReadStart \/ EndWait \/ StopCounter

Init ==
    /\ counter = 0
    /\ enabled = FALSE
    /\ delay = "none"
    /\ start = 0
    /\ elapsed = 0
    /\ disturbed = FALSE

Next == Cycle \/ Delay_Microseconds \/ OneWireDelay

Spec == Init /\ [][Next]_vars

(* Time passes, and the tasks that preempt this one block again.             *)
FairSpec == Spec /\ WF_vars(Cycle) /\ WF_vars(Delay_Microseconds)
----------------------------------------------------------------------------
(* A wait no one-wire wait falls into takes its time at least, wherever it   *)
(* was preempted and wherever the counter stood when it was started          *)
(* (common.c:145-151).                                                       *)
UndisturbedDelayIsLongEnough ==
    delay = "stop" /\ ~disturbed => elapsed >= Ticks

(* A wait that a one-wire wait falls into is lost.  The counter stands still *)
(* and nothing starts it again, so that the Temperature task never gets past *)
(* it; only a start that was read so late that the cleared counter has       *)
(* fallen behind it ends the wait, by the wrap of the difference             *)
(* (common.c:147-150, bmx280.c:197, bmx680.c:104).                           *)
DisturbedDelayIsLost ==
    [][delay = "wait" /\ delay' # "wait" /\ disturbed => counter < start]_vars

(* Every other wait ends.                                                    *)
UndisturbedDelayEnds == delay = "wait" ~> (delay # "wait" \/ disturbed)
=============================================================================
