----------------------- MODULE HealthSupervisorProofs -----------------------
(***************************************************************************)
(* The safety properties of HealthSupervisor, proved for every choice of   *)
(* components, periods and watchdog timeout that its assumptions allow.    *)
(*                                                                         *)
(* The properties bound how long something has lasted, and none of them is *)
(* inductive: the bound on one clock comes from the clocks it was started  *)
(* with.  IInv states these relations, one named part per concern.         *)
(***************************************************************************)
EXTENDS HealthSupervisor, TLAPS

(* Where an iteration of the Health task is, and the clocks it has read. *)
IterationInv ==
    /\ healthStep = "poll" => sinceNow = 0 /\ ~checkFailed
    /\ healthStep = "feed" => sinceNow + untilPoll <= MaxPrint
    /\ sinceNow <= dog
    /\ dog <= sinceFeed
    /\ sinceFeed <= dog + MaxPrint

(* The next self-check comes in time; after one, its window is as old as the *)
(* iteration.                                                                *)
WindowInv ==
    ~emergencyLatched =>
        /\ ~halted
        /\ healthStep = "poll" => sinceCheck + untilPoll <= LongestWindow
        /\ healthStep = "feed" =>
               /\ sinceCheck + untilPoll <= CheckPeriod - 1
               /\ sinceNow + untilPoll > 0 => sinceCheck = sinceNow

(* The next reload comes in time, and an iteration that will print a         *)
(* self-check did not inherit the delay of another.                          *)
FeedInv ==
    ~emergencyLatched =>
        /\ sinceFeed + untilPoll <= FeedPeriod - 1 + PollPeriod + MaxPrint
        /\ healthStep = "poll" /\ sinceCheck + untilPoll >= CheckPeriod =>
               sinceFeed + untilPoll <= FeedPeriod - 1 + PollPeriod

LatchInv ==
    /\ latchedFor <= dog
    /\ ~emergencyLatched => latchedFor = 0

(* How long a component can have hung, by what the Health task knows of it. *)
HangBound(c) ==
    /\ c \notin hung => hungFor[c] = 0
    /\ emergencyLatched => hungFor[c] <= 2 * LongestWindow + dog
    /\ ~emergencyLatched /\ checkFailed =>
           hungFor[c] <= 2 * LongestWindow + sinceNow
    /\ ~emergencyLatched /\ ~checkFailed =>
           hungFor[c] <= LongestWindow + sinceCheck
    /\ ~emergencyLatched /\ ~checkFailed /\ c \in reportedComponents =>
           hungFor[c] <= sinceCheck

HangInv == \A c \in Components : HangBound(c)

IInv == TypeOK /\ IterationInv /\ WindowInv /\ FeedInv /\ LatchInv /\ HangInv

(* What the false alarm needs beyond IInv: every component comes round       *)
(* before the window closes.                                                 *)
ReportsFitWindow ==
    \A c \in Components : Period[c] + MaxWork[c] < CheckPeriod

Remaining(c) ==
    IF c \in working THEN workLeft[c] ELSE untilWake[c] + MaxWork[c]

AlarmInv ==
    hung = {} /\ ~halted =>
        /\ ~emergencyLatched
        /\ ~checkFailed
        /\ \A c \in Components \ reportedComponents :
               sinceCheck + Remaining(c) <= Period[c] + MaxWork[c]

----------------------------------------------------------------------------
LEMMA InitIInv == Init => IInv
  <1> SUFFICES ASSUME Init PROVE IInv
      OBVIOUS
  <1>1. /\ emergencyLatched \in BOOLEAN
        /\ checkFailed \in BOOLEAN
        /\ halted \in BOOLEAN
      BY Zenon DEF Init
  <1>2. \A c \in Components : untilWake[c] = 0 /\ workLeft[c] = 0 /\ hungFor[c] = 0
      BY Zenon DEF Init
  <1>3. TypeOK
      <2>1. /\ untilWake \in [Components -> Nat]
            /\ workLeft \in [Components -> Nat]
            /\ hungFor \in [Components -> Nat]
          BY DEF Init
      <2>2. ASSUME NEW c \in Components
            PROVE  untilWake[c] <= Period[c] /\ workLeft[c] <= MaxWork[c]
          <3>1. Period[c] \in Nat /\ MaxWork[c] \in Nat
              BY ComponentsAssumption
          <3> QED
              BY <1>2, <3>1
      <2>3. /\ sinceCheck \in 0..LongestWindow
            /\ sinceFeed \in 0..(WatchdogTimeout + MaxPrint)
            /\ healthStep \in {"poll", "feed"}
            /\ sinceNow \in 0..MaxPrint
            /\ untilPoll \in 0..(PollPeriod + MaxPrint)
            /\ dog \in 0..WatchdogTimeout
            /\ latchedFor \in Nat
          BY HealthAssumption DEF Init, LongestWindow
      <2>4. /\ reportedComponents \in SUBSET Components
            /\ working \in SUBSET Components
            /\ hung \in SUBSET Components
          BY DEF Init
      <2> QED
          BY <1>1, <2>1, <2>2, <2>3, <2>4, Zenon DEF TypeOK
  <1>4. IterationInv /\ WindowInv /\ FeedInv /\ LatchInv
      BY HealthAssumption
      DEF Init, IterationInv, WindowInv, FeedInv, LatchInv, LongestWindow
  <1>5. HangInv
      <2>1. ~emergencyLatched /\ ~checkFailed /\ sinceCheck = 0
          BY DEF Init
      <2> SUFFICES ASSUME NEW c \in Components
                   PROVE  hungFor[c] <= LongestWindow + sinceCheck /\ hungFor[c] <= sinceCheck
                              /\ hungFor[c] = 0
          BY <2>1, Zenon DEF HangInv, HangBound
      <2> QED
          BY <1>2, <2>1, HealthAssumption DEF LongestWindow
  <1> QED
      BY <1>3, <1>4, <1>5 DEF IInv

LEMMA NextIInv == IInv /\ [Next]_vars => IInv'
  <1> SUFFICES ASSUME IInv, [Next]_vars PROVE IInv'
      OBVIOUS
  <1> USE ComponentsAssumption, HealthAssumption
      DEF LongestWindow, healthVars, iterationVars, taskVars, faultVars,
          historyVars
  <1>1. ASSUME NEW c \in Components, BeginRound(c) PROVE IInv'
      <2>1. TypeOK'
          BY <1>1 DEF BeginRound, IInv, TypeOK
      <2>2. IterationInv' /\ WindowInv' /\ FeedInv' /\ LatchInv' /\ HangInv'
          BY <1>1 DEF BeginRound, IInv, IterationInv, WindowInv, FeedInv,
                      LatchInv, HangInv, HangBound
      <2> QED
          BY <2>1, <2>2 DEF IInv
  <1>2. ASSUME NEW c \in Components, Report(c) PROVE IInv'
      <2>1. TypeOK'
          BY <1>2 DEF Report, IInv, TypeOK
      <2>2. IterationInv' /\ WindowInv' /\ FeedInv' /\ LatchInv'
          BY <1>2 DEF Report, IInv, IterationInv, WindowInv, FeedInv, LatchInv
      <2>3. HangInv'
          BY <1>2 DEF Report, Runs, IInv, TypeOK, HangInv, HangBound
      <2> QED
          BY <2>1, <2>2, <2>3 DEF IInv
  <1>3. ASSUME NEW c \in Components, Hang(c) PROVE IInv'
      <2>1. TypeOK'
          BY <1>3 DEF Hang, IInv, TypeOK
      <2>2. IterationInv' /\ WindowInv' /\ FeedInv' /\ LatchInv'
          BY <1>3 DEF Hang, IInv, IterationInv, WindowInv, FeedInv, LatchInv
      <2>3. HangInv'
          BY <1>3 DEF Hang, IInv, HangInv, HangBound
      <2> QED
          BY <2>1, <2>2, <2>3 DEF IInv
  <1>4. CASE StackOverflow
      <2>1. TypeOK'
          BY <1>4 DEF StackOverflow, IInv, TypeOK
      <2>2. IterationInv' /\ WindowInv' /\ FeedInv'
          BY <1>4 DEF StackOverflow, IInv, IterationInv, WindowInv, FeedInv
      <2>3. LatchInv'
          BY <1>4 DEF StackOverflow, IInv, TypeOK, LatchInv
      <2>4. HangInv'
          BY <1>4 DEF StackOverflow, IInv, TypeOK, IterationInv, HangInv, HangBound
      <2> QED
          BY <2>1, <2>2, <2>3, <2>4 DEF IInv
  <1>5. CASE SelfCheck
      <2>1. TypeOK'
          <3>1. /\ checkFailed' \in BOOLEAN
                /\ emergencyLatched' \in BOOLEAN
                /\ halted' \in BOOLEAN
              BY <1>5, Zenon DEF SelfCheck, IInv, TypeOK
          <3>2. /\ sinceCheck' \in 0..LongestWindow
                /\ untilPoll' \in 0..(PollPeriod + MaxPrint)
                /\ sinceNow' \in 0..MaxPrint
                /\ reportedComponents' \in SUBSET Components
                /\ healthStep' \in {"poll", "feed"}
              BY <1>5 DEF SelfCheck, IInv, TypeOK
          <3> QED
              BY <1>5, <3>1, <3>2, Zenon DEF SelfCheck, IInv, TypeOK
      <2>2. IterationInv'
          BY <1>5 DEF SelfCheck, IInv, TypeOK, IterationInv
      <2>3. WindowInv'
          BY <1>5 DEF SelfCheck, CheckIsDue, IInv, TypeOK, WindowInv
      <2>4. FeedInv'
          BY <1>5 DEF SelfCheck, CheckIsDue, IInv, TypeOK, FeedInv
      <2>5. LatchInv'
          BY <1>5 DEF SelfCheck, IInv, LatchInv
      <2>6. HangInv'
          <3> SUFFICES ASSUME NEW c \in Components PROVE HangBound(c)'
              BY DEF HangInv
          <3>1. /\ HangBound(c)
                /\ hungFor[c] \in Nat
                /\ dog \in Nat
                /\ sinceCheck \in 0..LongestWindow
                /\ c \in Components
              BY DEF IInv, TypeOK, HangInv
          <3>2. /\ ~checkFailed
                /\ emergencyLatched' = emergencyLatched
                /\ hungFor' = hungFor
                /\ hung' = hung
                /\ dog' = dog
                /\ sinceNow' = 0
              BY <1>5 DEF SelfCheck, IInv, IterationInv
          <3>3. CASE CheckIsDue
              <4>1. /\ ~emergencyLatched
                    /\ checkFailed' <=> ~(Components \subseteq reportedComponents)
                    /\ reportedComponents' = {}
                    /\ sinceCheck' = 0
                  BY <1>5, <3>3, Zenon DEF SelfCheck, CheckIsDue
              <4>2. CASE c \in reportedComponents
                  BY <3>1, <3>2, <4>1, <4>2 DEF HangBound
              <4>3. CASE c \notin reportedComponents
                  BY <3>1, <3>2, <4>1, <4>3 DEF HangBound
              <4> QED
                  BY <4>2, <4>3
          <3>4. CASE ~CheckIsDue
              <4>1. UNCHANGED <<checkFailed, reportedComponents, sinceCheck>>
                  BY <1>5, <3>4, Zenon DEF SelfCheck
              <4> QED
                  BY <3>1, <3>2, <4>1 DEF HangBound
          <3> QED
              BY <3>3, <3>4
      <2> QED
          BY <2>1, <2>2, <2>3, <2>4, <2>5, <2>6 DEF IInv
  <1>6. CASE FeedWatchdog
      <2>1. TypeOK'
          <3>1. /\ checkFailed' \in BOOLEAN
                /\ emergencyLatched' \in BOOLEAN
                /\ halted' \in BOOLEAN
              BY <1>6, Zenon DEF FeedWatchdog, IInv, TypeOK
          <3>2. /\ sinceFeed' \in 0..(WatchdogTimeout + MaxPrint)
                /\ dog' \in 0..WatchdogTimeout
                /\ untilPoll' \in 0..(PollPeriod + MaxPrint)
                /\ sinceNow' \in 0..MaxPrint
                /\ healthStep' \in {"poll", "feed"}
              BY <1>6 DEF FeedWatchdog, IInv, TypeOK
          <3> QED
              BY <1>6, <3>1, <3>2, Zenon DEF FeedWatchdog, IInv, TypeOK
      <2>2. IterationInv'
          BY <1>6 DEF FeedWatchdog, IInv, TypeOK, IterationInv
      <2>3. WindowInv'
          BY <1>6 DEF FeedWatchdog, IInv, TypeOK, IterationInv, WindowInv
      <2>4. FeedInv'
          BY <1>6 DEF FeedWatchdog, IInv, TypeOK, IterationInv, WindowInv, FeedInv
      <2>5. LatchInv'
          BY <1>6 DEF FeedWatchdog, IInv, TypeOK, LatchInv
      <2>6. HangInv'
          BY <1>6 DEF FeedWatchdog, IInv, TypeOK, IterationInv, HangInv, HangBound
      <2> QED
          BY <2>1, <2>2, <2>3, <2>4, <2>5, <2>6 DEF IInv
  <1>7. CASE WatchdogReset
      <2>1. Init'
          BY <1>7 DEF WatchdogReset, Init
      <2> QED
          BY <2>1, InitIInv, PTL
  <1>8. CASE Tick
      <2>1. TypeOK'
          BY <1>8 DEF Tick, Less, IInv, TypeOK, IterationInv, WindowInv, FeedInv
      <2>2. IterationInv'
          BY <1>8 DEF Tick, IInv, TypeOK, IterationInv
      <2>3. WindowInv'
          BY <1>8 DEF Tick, IInv, TypeOK, IterationInv, WindowInv
      <2>4. FeedInv'
          BY <1>8 DEF Tick, IInv, TypeOK, WindowInv, FeedInv
      <2>5. LatchInv'
          BY <1>8 DEF Tick, IInv, TypeOK, LatchInv
      <2>6. HangInv'
          BY <1>8 DEF Tick, IInv, TypeOK, IterationInv, WindowInv, HangInv, HangBound
      <2> QED
          BY <2>1, <2>2, <2>3, <2>4, <2>5, <2>6 DEF IInv
  <1>9. CASE UNCHANGED vars
      BY <1>9 DEF vars, IInv, TypeOK, IterationInv, WindowInv, FeedInv, LatchInv,
                  HangInv, HangBound
  <1> QED
      BY <1>1, <1>2, <1>3, <1>4, <1>5, <1>6, <1>7, <1>8, <1>9 DEF Next

----------------------------------------------------------------------------
(* The type invariant of module HealthSupervisor, and with it the bound on   *)
(* the self-check window: a check is never later than one poll.              *)
THEOREM HealthTypeCorrect == Spec => []TypeOK
  <1>1. Spec => []IInv
      BY InitIInv, NextIInv, PTL DEF Spec
  <1>2. IInv => TypeOK
      BY DEF IInv
  <1> QED
      BY <1>1, <1>2, PTL

(* The watchdog runs out only after a failure was latched, for every feed    *)
(* and poll period that leave room for the print of a self-check             *)
(* (health_service.c:111-117).                                               *)
THEOREM WatchdogFed == Spec => []WatchdogIsFed
  <1>1. Spec => []IInv
      BY InitIInv, NextIInv, PTL DEF Spec
  <1>2. IInv => WatchdogIsFed
      BY HealthAssumption
      DEF IInv, TypeOK, IterationInv, FeedInv, WatchdogIsFed
  <1> QED
      BY <1>1, <1>2, PTL

(* A latched failure is neither forgotten nor followed by a reload: the      *)
(* watchdog resets the device within its timeout (health_service.h:47-52).   *)
THEOREM LatchedFailureIsFinal == Spec => []LatchedFailureResets
  <1>1. Spec => []IInv
      BY InitIInv, NextIInv, PTL DEF Spec
  <1>2. IInv => LatchedFailureResets
      BY HealthAssumption DEF IInv, TypeOK, LatchInv, LatchedFailureResets
  <1> QED
      BY <1>1, <1>2, PTL

(* A component that hangs, whenever in a window it does, restarts the device *)
(* within two self-check windows and one watchdog timeout.                   *)
THEOREM HungComponentIsDetected == Spec => []HungComponentResets
  <1>1. Spec => []IInv
      BY InitIInv, NextIInv, PTL DEF Spec
  <1>2. IInv => HungComponentResets
      <2> SUFFICES ASSUME IInv, NEW c \in Components
                   PROVE  hungFor[c] <= 2 * LongestWindow + WatchdogTimeout
          BY DEF HungComponentResets
      <2>1. /\ HangBound(c)
            /\ hungFor[c] \in Nat
            /\ sinceCheck \in 0..LongestWindow
            /\ dog \in 0..WatchdogTimeout
            /\ sinceNow \in Nat
            /\ sinceNow <= dog
          BY DEF IInv, TypeOK, IterationInv, HangInv
      <2>2. LongestWindow \in Nat /\ WatchdogTimeout \in Nat
          BY HealthAssumption DEF LongestWindow
      <2> QED
          BY <2>1, <2>2 DEF HangBound
  <1> QED
      BY <1>1, <1>2, PTL

----------------------------------------------------------------------------
LEMMA InitAlarmInv == Init => AlarmInv
  <1> SUFFICES ASSUME Init PROVE AlarmInv
      OBVIOUS
  <1>1. ~emergencyLatched /\ ~checkFailed /\ sinceCheck = 0 /\ working = {}
      BY DEF Init
  <1>2. ASSUME NEW c \in Components
        PROVE  sinceCheck + Remaining(c) <= Period[c] + MaxWork[c]
      <2>1. untilWake[c] = 0 /\ Period[c] \in Nat /\ MaxWork[c] \in Nat
          BY ComponentsAssumption DEF Init
      <2> QED
          BY <1>1, <2>1 DEF Remaining
  <1> QED
      BY <1>1, <1>2, Zenon DEF AlarmInv

LEMMA NextAlarmInv ==
    ASSUME ReportsFitWindow
    PROVE  IInv /\ AlarmInv /\ [Next]_vars => AlarmInv'
  <1> SUFFICES ASSUME IInv, AlarmInv, [Next]_vars, hung' = {}, ~halted'
               PROVE  /\ ~emergencyLatched'
                      /\ ~checkFailed'
                      /\ \A c \in Components \ reportedComponents' :
                             sinceCheck' + Remaining(c)' <= Period[c] + MaxWork[c]
      BY DEF AlarmInv
  <1> USE DEF healthVars, iterationVars, taskVars, faultVars, historyVars
  <1>a. /\ untilWake \in [Components -> Nat]
        /\ workLeft \in [Components -> Nat]
        /\ sinceCheck \in Nat
        /\ \A c \in Components : untilWake[c] <= Period[c] /\ workLeft[c] <= MaxWork[c]
      BY HealthAssumption DEF IInv, TypeOK, LongestWindow
  <1>1. ASSUME NEW b \in Components, BeginRound(b) PROVE AlarmInv'
      BY <1>1, <1>a, ComponentsAssumption DEF BeginRound, AlarmInv, Remaining
  <1>2. ASSUME NEW b \in Components, Report(b) PROVE AlarmInv'
      BY <1>2, <1>a, ComponentsAssumption DEF Report, AlarmInv, Remaining
  <1>3. ASSUME NEW b \in Components, Hang(b) PROVE AlarmInv'
      BY <1>3 DEF Hang
  <1>4. CASE StackOverflow
      BY <1>4 DEF StackOverflow
  <1>5. CASE SelfCheck
      <2>1. hung = {} /\ ~halted /\ UNCHANGED <<taskVars, emergencyLatched>>
          BY <1>5 DEF SelfCheck
      <2>2. CASE CheckIsDue
          <3>1. Components \subseteq reportedComponents
              <4> SUFFICES ASSUME NEW c \in Components \ reportedComponents
                           PROVE  FALSE
                  OBVIOUS
              <4>1. sinceCheck + Remaining(c) <= Period[c] + MaxWork[c]
                  BY <2>1 DEF AlarmInv
              <4>2. Period[c] + MaxWork[c] < CheckPeriod /\ sinceCheck >= CheckPeriod
                  BY <2>2 DEF ReportsFitWindow, CheckIsDue
              <4>3. Remaining(c) \in Nat /\ Period[c] \in Nat /\ MaxWork[c] \in Nat
                  BY <1>a, ComponentsAssumption DEF Remaining
              <4> QED
                  BY <4>1, <4>2, <4>3, <1>a, HealthAssumption
          <3>2. ~checkFailed' /\ ~emergencyLatched' /\ sinceCheck' = 0
              <4>1. /\ checkFailed' <=> ~(Components \subseteq reportedComponents)
                    /\ sinceCheck' = 0
                  BY <1>5, <2>2, Zenon DEF SelfCheck
              <4>2. ~emergencyLatched'
                  BY <2>1, <2>2, Zenon DEF CheckIsDue
              <4> QED
                  BY <3>1, <4>1, <4>2
          <3>3. ASSUME NEW c \in Components
                PROVE  sinceCheck' + Remaining(c)' <= Period[c] + MaxWork[c]
              <4>1. Remaining(c)' = Remaining(c)
                  BY <2>1 DEF Remaining
              <4>2. /\ untilWake[c] \in Nat /\ untilWake[c] <= Period[c]
                    /\ workLeft[c] \in Nat /\ workLeft[c] <= MaxWork[c]
                    /\ Period[c] \in Nat /\ MaxWork[c] \in Nat
                  BY <1>a, ComponentsAssumption
              <4> QED
                  BY <3>2, <4>1, <4>2 DEF Remaining
          <3> QED
              BY <3>2, <3>3, Zenon DEF AlarmInv
      <2>3. CASE ~CheckIsDue
          <3>1. UNCHANGED <<checkFailed, reportedComponents, sinceCheck>>
              BY <1>5, <2>3, Zenon DEF SelfCheck
          <3> QED
              BY <2>1, <3>1 DEF AlarmInv, Remaining
      <2> QED
          BY <2>2, <2>3
  <1>6. CASE FeedWatchdog
      <2>1. /\ hung = {} /\ ~halted
            /\ UNCHANGED <<taskVars, reportedComponents, sinceCheck>>
            /\ emergencyLatched' <=> (emergencyLatched \/ checkFailed)
            /\ ~checkFailed'
          BY <1>6, Zenon DEF FeedWatchdog
      <2> QED
          BY <2>1 DEF AlarmInv, Remaining
  <1>7. CASE WatchdogReset
      <2>1. Init'
          BY <1>7 DEF WatchdogReset, Init
      <2> QED
          <3>1. AlarmInv'
              BY <2>1, InitAlarmInv, PTL
          <3> QED
              BY <3>1 DEF AlarmInv
  <1>8. CASE Tick
      <2>1. /\ hung = {} /\ ~halted
            /\ UNCHANGED <<reportedComponents, emergencyLatched, checkFailed, working>>
          BY <1>8 DEF Tick
      <2>2. ~emergencyLatched /\ ~checkFailed
          BY <2>1 DEF AlarmInv
      <2>3. sinceCheck' = sinceCheck + 1
          BY <1>8, <2>2 DEF Tick
      <2>4. ASSUME NEW c \in Components \ reportedComponents
            PROVE  sinceCheck' + Remaining(c)' <= Period[c] + MaxWork[c]
          <3>1. /\ untilWake'[c] = Less(untilWake[c])
                /\ workLeft'[c] = Less(workLeft[c])
                /\ ~IsDue(c)
              BY <1>8, <2>1 DEF Tick, Runs
          <3>2. Remaining(c)' = Remaining(c) - 1
              BY <2>1, <3>1, <1>a, ComponentsAssumption
              DEF Less, IsDue, Runs, Remaining
          <3>3. sinceCheck + Remaining(c) <= Period[c] + MaxWork[c]
              BY <2>1 DEF AlarmInv
          <3>4. Remaining(c) \in Nat /\ Period[c] \in Nat /\ MaxWork[c] \in Nat
              BY <1>a, ComponentsAssumption DEF Remaining
          <3> QED
              BY <2>3, <3>2, <3>3, <3>4, <1>a
      <2> QED
          BY <2>1, <2>2, <2>4 DEF AlarmInv
  <1>9. CASE UNCHANGED vars
      BY <1>9 DEF vars, AlarmInv, Remaining
  <1> QED
      BY <1>1, <1>2, <1>3, <1>4, <1>5, <1>6, <1>7, <1>8, <1>9
      DEF Next, AlarmInv

(* No failure is latched while every component makes progress, provided each *)
(* component's period and round fit into the self-check window together.     *)
(* The proviso is what the HTTP monitor's period of one full window lacks    *)
(* (health_service.h:36-49).                                                 *)
THEOREM NoFalseAlarmWhenReportsFit ==
    ASSUME ReportsFitWindow
    PROVE  Spec => []NoFalseAlarm
  <1>1. Init => IInv /\ AlarmInv
      BY InitIInv, InitAlarmInv
  <1>2. IInv /\ AlarmInv /\ [Next]_vars => (IInv /\ AlarmInv)'
      BY NextIInv, NextAlarmInv, ReportsFitWindow
  <1>3. AlarmInv => NoFalseAlarm
      BY DEF AlarmInv, NoFalseAlarm
  <1> QED
      BY <1>1, <1>2, <1>3, PTL DEF Spec
=============================================================================
