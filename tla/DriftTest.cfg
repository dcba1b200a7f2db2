SPECIFICATION Spec
CONSTANTS
    NaN = NaN
    Direction <- Counterclockwise
    AccelMin = 1
    AccelTimeout = 2
    InitiateDuration = 1
    HoldDuration = 2
    StopDuration = 2
    AbortDuration = 1
    SensorTimeout = 1
    DtMin = 0
    DtMax = 1
    AccelTorque = 2
    InitiateBase = 1
    InitiateDiff = 1
    HoldBase = 1
    MaxDiff = 2
    MaxCorrection = 1
    MaxTorque = 1
    MaxSlew = 1
    MinSamples = 1
    UseRadius = TRUE
INVARIANTS
    TypeOK
    TorqueBounded
    RestsAtZero
PROPERTIES
    SlewLimited
    PhasesInOrder
    TestEnds
CHECK_DEADLOCK FALSE
