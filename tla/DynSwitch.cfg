SPECIFICATION Spec
CONSTANTS
    Motors = {m1}
    ZeroOrder <- OnePerMode
    Saves = {TRUE}
    Rounds = 2
    PollMax = 1
    VerifyMax = 1
    Forms = {"full"}
    QDev = 2
    QHost = 1
    Replies = {"mit"}
    Operator = FALSE
    Transports = {"serial"}
    MaxDrop = 1
INVARIANTS
    ConfirmedTruly
PROPERTIES
    ZeroBeforeSwitch
    CommandMatchesMode
    ImplementsService
