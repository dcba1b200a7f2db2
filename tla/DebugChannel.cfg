SPECIFICATION Spec
CONSTANTS
    Cores <- MCCores
    Modes <- MCModes
    Tries = 2
    Transports = {"serial", "udp"}
    QDev = 1
    QHost = 2
INVARIANTS
    TypeOK
    ReplyMatches
    SavedIsPersistent
PROPERTIES
    StepsCountDown
    ComesToSpin
CHECK_DEADLOCK FALSE
