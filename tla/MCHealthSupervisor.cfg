CONSTANTS
    Components <- BoardComponents
    Periodic <- BoardPeriodic
    Period <- BoardPeriod
    MaxWork <- BoardWork
    CheckPeriod = 6
    FeedPeriod = 2
    PollPeriod = 1
    MaxPrint = 1
    WatchdogTimeout = 5
SPECIFICATION Spec
INVARIANTS
    TypeOK
    NoFalseAlarm
    WatchdogIsFed
    LatchedFailureResets
    HungComponentResets
