CONSTANTS
    RomBits = 3
    Roms <- MCRoms
    BusCapacity = 8
    Ticks = 3
    BitTicks = 2
    Modulus = 7
SPECIFICATION FairTaskSpec
INVARIANTS
    RowsDistinctWithoutBranchFork
    CompleteExactlyWithoutBranchFork
    UndisturbedDelayIsLongEnough
PROPERTIES
    SearchTerminates
    DisturbedDelayIsLost
    UndisturbedDelayEnds
CHECK_DEADLOCK FALSE
