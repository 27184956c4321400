CONSTANTS
    BeaconName <- Beacon
    Stores <- ApartStores
    Entities <- Some
    Offsets <- TwoClocks
    MaxTime = 3
    MaxStray = 2
    None = None
SPECIFICATION Spec
INVARIANTS
    NothingShared
PROPERTIES
    SleepCovered
    SleepBounded
