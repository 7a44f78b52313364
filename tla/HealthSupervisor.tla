-------------------------- MODULE HealthSupervisor --------------------------
(***************************************************************************)
(* Srv/Src/health_service.c with the tasks it supervises and the           *)
(* independent watchdog: every component reports progress once per round   *)
(* of its own, the Health task compares the reports of a window with the   *)
(* registered components, latches a failure when one is missing and        *)
(* reloads the watchdog while nothing is latched; the watchdog restarts    *)
(* the device.                                                             *)
(*                                                                         *)
(* Time passes in Tick, which waits for whatever is due now.  The tick     *)
(* counts the code subtracts (now - lastCheck, now - lastFeed) are kept as *)
(* the differences; the first stops when a failure is latched, for nothing *)
(* reads it from then on.                                                  *)
(***************************************************************************)
EXTENDS Integers

CONSTANTS
    Components,       \* the registered components
    Periodic,         \* those that wait with vTaskDelayUntil, not vTaskDelay
    Period,           \* ticks of the wait of each component
    MaxWork,          \* ticks a round takes at most before it reports
    CheckPeriod,      \* HEALTH_CHECK_PERIOD_MS
    FeedPeriod,       \* HEALTH_WATCHDOG_FEED_MS
    PollPeriod,       \* vTaskDelay of the Health task
    MaxPrint,         \* ticks the report of a self-check takes to print
    WatchdogTimeout   \* ticks from a reload to the reset

ASSUME ComponentsAssumption ==
    /\ Periodic \subseteq Components
    /\ Period \in [Components -> Nat \ {0}]
    /\ MaxWork \in [Components -> Nat]
    /\ \A c \in Components : MaxWork[c] <= Period[c]
ASSUME HealthAssumption ==
    /\ CheckPeriod \in Nat \ {0}
    /\ FeedPeriod \in Nat \ {0}
    /\ PollPeriod \in Nat \ {0}
    /\ MaxPrint \in Nat
    /\ PollPeriod + MaxPrint < CheckPeriod
    /\ WatchdogTimeout \in Nat
    /\ FeedPeriod + PollPeriod + MaxPrint < WatchdogTimeout

VARIABLES
    reportedComponents,  \* components that have reported in this window
    emergencyLatched,
    sinceCheck,          \* now - lastCheck
    sinceFeed,           \* now - lastFeed
    healthStep,          \* "poll", or "feed" after the self-check
    checkFailed,         \* the self-check of this iteration missed a component
    sinceNow,            \* ticks since this iteration read the tick count
    untilPoll,           \* ticks until the Health task runs again
    dog,                 \* ticks since the watchdog was reloaded
    untilWake,           \* ticks until a component's next round may begin
    working,             \* components that are in a round
    workLeft,            \* ticks until the round reports
    hung,                \* components that make no progress any more
    halted,              \* the stack overflow hook has stopped the processor
    hungFor,             \* history: ticks since a component hung
    latchedFor           \* history: ticks since the failure was latched

iterationVars == <<healthStep, checkFailed, sinceNow, untilPoll>>
healthVars == <<reportedComponents, emergencyLatched, sinceCheck, sinceFeed,
                dog, iterationVars>>
taskVars == <<untilWake, working, workLeft>>
faultVars == <<hung, halted>>
historyVars == <<hungFor, latchedFor>>
vars == <<healthVars, taskVars, faultVars, historyVars>>

----------------------------------------------------------------------------
(* What the start-up code leaves: every component registered, none has       *)
(* reported, and every task is ready to run.                                 *)
Init ==
    /\ reportedComponents = {}
    /\ emergencyLatched = FALSE
    /\ sinceCheck = 0
    /\ sinceFeed = 0
    /\ healthStep = "poll"
    /\ checkFailed = FALSE
    /\ sinceNow = 0
    /\ untilPoll = 0
    /\ dog = 0
    /\ untilWake = [c \in Components |-> 0]
    /\ working = {}
    /\ workLeft = [c \in Components |-> 0]
    /\ hung = {}
    /\ halted = FALSE
    /\ hungFor = [c \in Components |-> 0]
    /\ latchedFor = 0

----------------------------------------------------------------------------
(* The component tasks.                                                    *)

Runs(c) == c \notin hung /\ ~halted

BeginRound(c) ==
    /\ Runs(c)
    /\ c \notin working
    /\ untilWake[c] = 0
    /\ working' = working \union {c}
    /\ \E work \in 0..MaxWork[c] : workLeft' = [workLeft EXCEPT ![c] = work]
    /\ untilWake' = [untilWake EXCEPT ![c] = Period[c]]
    /\ UNCHANGED <<healthVars, faultVars, historyVars>>

(* HealthService_Report at the end of the round.  vTaskDelayUntil counts the *)
(* wait from the wake-up, vTaskDelay from here.                              *)
Report(c) ==
    /\ Runs(c)
    /\ c \in working
    /\ workLeft[c] = 0
    /\ reportedComponents' = reportedComponents \union {c}
    /\ working' = working \ {c}
    /\ untilWake' = IF c \in Periodic
                        THEN untilWake
                        ELSE [untilWake EXCEPT ![c] = Period[c]]
    /\ UNCHANGED <<emergencyLatched, sinceCheck, sinceFeed, dog, iterationVars,
                   workLeft, faultVars, historyVars>>

(* A component stops for good: it waits for an event that never comes. *)
Hang(c) ==
    /\ Runs(c)
    /\ hung' = hung \union {c}
    /\ UNCHANGED <<healthVars, taskVars, halted, historyVars>>

(* vApplicationStackOverflowHook latches the failure and stops the processor *)
(* with interrupts disabled.                                                 *)
StackOverflow ==
    /\ ~halted
    /\ halted' = TRUE
    /\ emergencyLatched' = TRUE
    /\ UNCHANGED <<reportedComponents, sinceCheck, sinceFeed, dog, iterationVars,
                   taskVars, hung, historyVars>>

----------------------------------------------------------------------------
(* The Health task.                                                        *)

(* Mutation: the self-check is a poll late. *)
CheckIsDue_Late == ~emergencyLatched /\ sinceCheck > CheckPeriod

CheckIsDue == ~emergencyLatched /\ sinceCheck >= CheckPeriod

(* Mutation: the window is not restarted by the self-check. *)
SelfCheck_WindowKept ==
    /\ ~halted
    /\ healthStep = "poll"
    /\ untilPoll = 0
    /\ checkFailed' = (CheckIsDue /\ ~(Components \subseteq reportedComponents))
    /\ reportedComponents' = IF CheckIsDue THEN {} ELSE reportedComponents
    /\ sinceNow' = 0
    /\ healthStep' = "feed"
    /\ UNCHANGED <<sinceCheck, untilPoll, emergencyLatched, sinceFeed, dog,
                   taskVars, faultVars, historyVars>>

(* Mutation: the reports of the last window count in the next one. *)
SelfCheck_ReportsKept ==
    /\ ~halted
    /\ healthStep = "poll"
    /\ untilPoll = 0
    /\ checkFailed' = (CheckIsDue /\ ~(Components \subseteq reportedComponents))
    /\ sinceCheck' = IF CheckIsDue THEN 0 ELSE sinceCheck
    /\ sinceNow' = 0
    /\ healthStep' = "feed"
    /\ UNCHANGED <<reportedComponents, untilPoll, emergencyLatched, sinceFeed,
                   dog, taskVars, faultVars, historyVars>>

(* An iteration of healthService_Task up to the end of the self-check, which *)
(* is printed before a failure is latched.                                   *)
SelfCheck ==
    /\ ~halted
    /\ healthStep = "poll"
    /\ untilPoll = 0
    /\ IF CheckIsDue
         THEN /\ checkFailed' = ~(Components \subseteq reportedComponents)
              /\ reportedComponents' = {}
              /\ sinceCheck' = 0
              /\ \E print \in 0..MaxPrint : untilPoll' = print
         ELSE UNCHANGED <<checkFailed, reportedComponents, sinceCheck, untilPoll>>
    /\ sinceNow' = 0
    /\ healthStep' = "feed"
    /\ UNCHANGED <<emergencyLatched, sinceFeed, dog, taskVars, faultVars,
                   historyVars>>

(* Mutations of the reload: it comes with the self-check only, or it does    *)
(* not look at the latch.                                                    *)
FeedWhen(condition) ==
    /\ ~halted
    /\ healthStep = "feed"
    /\ untilPoll = 0
    /\ emergencyLatched' = (emergencyLatched \/ checkFailed)
    /\ dog' = IF condition THEN 0 ELSE dog
    /\ sinceFeed' = IF condition THEN sinceNow ELSE sinceFeed
    /\ untilPoll' = PollPeriod
    /\ checkFailed' = FALSE
    /\ sinceNow' = 0
    /\ healthStep' = "poll"
    /\ UNCHANGED <<reportedComponents, sinceCheck, taskVars, faultVars,
                   historyVars>>

FeedWatchdog_AtCheck ==
    FeedWhen(~emergencyLatched /\ ~checkFailed /\ sinceFeed - sinceNow >= CheckPeriod)

FeedWatchdog_Always == FeedWhen(sinceFeed - sinceNow >= FeedPeriod)

(* The rest of the iteration: latch a failed check, reload the watchdog when *)
(* that is due at the tick the iteration began with and nothing is latched,  *)
(* and wait.                                                                 *)
FeedWatchdog ==
    /\ ~halted
    /\ healthStep = "feed"
    /\ untilPoll = 0
    /\ emergencyLatched' = (emergencyLatched \/ checkFailed)
    /\ IF ~emergencyLatched' /\ sinceFeed - sinceNow >= FeedPeriod
         THEN dog' = 0 /\ sinceFeed' = sinceNow
         ELSE UNCHANGED <<dog, sinceFeed>>
    /\ untilPoll' = PollPeriod
    /\ checkFailed' = FALSE
    /\ sinceNow' = 0
    /\ healthStep' = "poll"
    /\ UNCHANGED <<reportedComponents, sinceCheck, taskVars, faultVars,
                   historyVars>>

(* The independent watchdog restarts the device. *)
WatchdogReset ==
    /\ dog = WatchdogTimeout
    /\ reportedComponents' = {}
    /\ emergencyLatched' = FALSE
    /\ sinceCheck' = 0
    /\ sinceFeed' = 0
    /\ healthStep' = "poll"
    /\ checkFailed' = FALSE
    /\ sinceNow' = 0
    /\ untilPoll' = 0
    /\ dog' = 0
    /\ untilWake' = [c \in Components |-> 0]
    /\ working' = {}
    /\ workLeft' = [c \in Components |-> 0]
    /\ hung' = {}
    /\ halted' = FALSE
    /\ hungFor' = [c \in Components |-> 0]
    /\ latchedFor' = 0

----------------------------------------------------------------------------
(* The component has to act before time passes. *)
IsDue(c) ==
    /\ Runs(c)
    /\ IF c \in working THEN workLeft[c] = 0 ELSE untilWake[c] = 0

Less(n) == IF n > 0 THEN n - 1 ELSE 0

Tick ==
    /\ dog < WatchdogTimeout
    /\ halted \/ untilPoll > 0
    /\ \A c \in Components : ~IsDue(c)
    /\ dog' = dog + 1
    /\ untilPoll' = IF halted THEN untilPoll ELSE untilPoll - 1
    /\ sinceNow' = IF healthStep = "feed" /\ ~halted
                     THEN sinceNow + 1 ELSE sinceNow
    /\ untilWake' = [c \in Components |->
                        IF Runs(c) THEN Less(untilWake[c]) ELSE untilWake[c]]
    /\ workLeft' = [c \in Components |->
                        IF Runs(c) THEN Less(workLeft[c]) ELSE workLeft[c]]
    /\ sinceCheck' = IF emergencyLatched THEN sinceCheck ELSE sinceCheck + 1
    /\ sinceFeed' = sinceFeed + 1
    /\ hungFor' = [c \in Components |->
                        IF c \in hung THEN hungFor[c] + 1 ELSE 0]
    /\ latchedFor' = IF emergencyLatched THEN latchedFor + 1 ELSE 0
    /\ UNCHANGED <<reportedComponents, emergencyLatched, healthStep, checkFailed,
                   working, faultVars>>

Next ==
    \/ \E c \in Components : BeginRound(c) \/ Report(c) \/ Hang(c)
    \/ StackOverflow
    \/ SelfCheck
    \/ FeedWatchdog
    \/ WatchdogReset
    \/ Tick

Spec == Init /\ [][Next]_vars

----------------------------------------------------------------------------
(* The longest window between two self-checks. *)
LongestWindow == CheckPeriod + PollPeriod - 1

TypeOK ==
    /\ reportedComponents \in SUBSET Components
    /\ emergencyLatched \in BOOLEAN
    /\ sinceCheck \in 0..LongestWindow
    /\ sinceFeed \in 0..(WatchdogTimeout + MaxPrint)
    /\ healthStep \in {"poll", "feed"}
    /\ checkFailed \in BOOLEAN
    /\ sinceNow \in 0..MaxPrint
    /\ untilPoll \in 0..(PollPeriod + MaxPrint)
    /\ dog \in 0..WatchdogTimeout
    /\ untilWake \in [Components -> Nat]
    /\ \A c \in Components : untilWake[c] <= Period[c]
    /\ working \in SUBSET Components
    /\ workLeft \in [Components -> Nat]
    /\ \A c \in Components : workLeft[c] <= MaxWork[c]
    /\ hung \in SUBSET Components
    /\ halted \in BOOLEAN
    /\ hungFor \in [Components -> Nat]
    /\ latchedFor \in Nat

(* A device all of whose components make progress never latches a failure:   *)
(* what health_service.h:36-49 asks of registered components is to report    *)
(* forward progress in each self-check round.                                *)
NoFalseAlarm == emergencyLatched => hung # {} \/ halted

(* The watchdog runs out only after a failure was latched: as long as        *)
(* nothing is latched the polling, self-check and printing of the Health     *)
(* task leave it time to reload (health_service.c:111-117).                  *)
WatchdogIsFed == dog = WatchdogTimeout => emergencyLatched

(* A latched failure restarts the device before the watchdog could have run  *)
(* twice: nothing reloads it once a failure is latched, and a latched        *)
(* failure is not forgotten (health_service.h:47-52).                        *)
LatchedFailureResets == latchedFor <= WatchdogTimeout

(* A component that hangs restarts the device within two self-check windows  *)
(* and one watchdog timeout, however its last report falls into a window.    *)
HungComponentResets ==
    \A c \in Components :
        hungFor[c] <= 2 * LongestWindow + WatchdogTimeout
=============================================================================
