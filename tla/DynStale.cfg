SPECIFICATION Spec
CONSTANTS
    Motors = {m1}
    ZeroOrder <- OnlyMit
    Saves = {FALSE}
    Rounds = 1
    PollMax = 1
    VerifyMax = 1
    Forms = {"full"}
    QDev = 2
    QHost = 1
    Replies = {"mit"}
    Operator = TRUE
    Transports = {"serial", "udp"}
    MaxDrop = 0
INVARIANTS
    ConfirmedByBase
