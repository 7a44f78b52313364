CONSTANTS
    RomBits = 1
    Roms <- TwoRoms
    BusCapacity = 2
    MaxDs18b20 = 1
    FittedBosch = {"BMx280", "BME680"}
    Faults = {"CRC"}
    Readings = {r1, r2}
    NoReading = NoReading
    FailureThreshold = 2
    FailureLimit = 2
    StalePeriod = 3
    TickModulus = 1
    MaxRound = 0
SYMMETRY ReadingSymmetry
SPECIFICATION GrowingBusSpec
INVARIANTS
    TypeOK
    BoschSensorsHaveNumbers
    ValidDataIsFromItsSensor
