SPECIFICATION Spec
CONSTANTS
    Motors = {}
    ZeroOrder <- OnlyMit
    Saves = {TRUE}
    Rounds = 1
    PollMax = 1
    VerifyMax = 1
    Forms = {"compact"}
    QDev = 1
    QHost = 1
    Replies = {"mit"}
    Operator = TRUE
    Transports = {"serial", "udp"}
    MaxDrop = 1
INVARIANTS
    TypeOK
    CurrentModeAgrees
    ConfirmedConsistent
PROPERTIES
    StepsCountDown
    HandlerReturns
