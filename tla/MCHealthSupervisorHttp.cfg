CONSTANTS
    Components <- HttpComponents
    Periodic <- HttpComponents
    Period <- HttpPeriod
    MaxWork <- HttpWork
    CheckPeriod = 6
    FeedPeriod = 2
    PollPeriod = 1
    MaxPrint = 1
    WatchdogTimeout = 5
SPECIFICATION Spec
INVARIANTS
    NoFalseAlarm
