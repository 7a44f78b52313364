CONSTANTS
    RomBits = 1
    Roms <- TwoRoms
    BusCapacity = 2
    MaxDs18b20 = 1
    FittedBosch = {}
    Faults = {"CRC"}
    Readings = {r1}
    NoReading = NoReading
    FailureThreshold = 2
    FailureLimit = 2
    StalePeriod = 3
    TickModulus = 1
    MaxRound = 0
SPECIFICATION FairSpec
INVARIANTS
    RoundReadsOneSearch
    MissingFollowsTheRound
PROPERTIES
    NumbersAreStable
    PublishesWholeRounds
    AttachedSensorsArePublished
