CONSTANTS
    Ports = 3
    WaitTime = 3
    MaxRetry = 2
    QueryLength = 2
    MaxDatagrams = 1
    Kinds = {"address", "empty", "refused"}
    Replies <- FourReplies
    LineSize = 3
    ResponseTime = 2
    FailureThreshold = 2
    FailureLimit = 2
SPECIFICATION Spec
INVARIANTS
    LookupsTakeTheDocumentedTime
