CONSTANTS
    Ports = 3
    WaitTime = 2
    MaxRetry = 1
    QueryLength = 2
    MaxDatagrams = 1
    Kinds = {"address", "empty", "refused"}
    Replies <- FourReplies
    LineSize = 3
    ResponseTime = 2
    FailureThreshold = 2
    FailureLimit = 2
SPECIFICATION FairSpec
INVARIANTS
    TypeOK
    SuccessIsTheServersOwn
    WholeLineDecides
    NoSocketIsLeftOpen
    SnapshotFollowsTheChecks
PROPERTIES
    EveryWaitIsWhole
    ChecksEndUnlessConnectMissesIt
