CONSTANTS
    PollLimit = 2
    Servers <- TwoServers
    Provides <- Announced
    LinkRetries = 2
    DhcpRetries = 5
    MaxReceived = 1
    MaxBoots = 2
SPECIFICATION FairSpec
INVARIANTS
    TypeOK
    ReadyFlashHoldsThePattern
    WorkingFlashIsReadyUnlessFoundBusy
    ConfigurationIsWhole
    LeaseIsConfirmed
    NetworkTasksHaveTheNetwork
PROPERTY StartupEndsUnlessAddressConflict
