CONSTANTS
    RomBits = 2
    Roms <- BranchRoms
    BusCapacity = 3
    MaxDs18b20 = 3
    FittedBosch = {}
    Faults = {"CRC"}
    Readings = {r1}
    NoReading = NoReading
    FailureThreshold = 2
    FailureLimit = 2
    StalePeriod = 1
    TickModulus = 4
    MaxRound = 1
SPECIFICATION SteadyBusSpec
INVARIANTS
    OneSlotPerSensor
    ValidDataIsFresh
    ReadersSeeConsistentSnapshots
