SPECIFICATION SpinSpec
CONSTANTS
    Modes <- MCModes
    Kinds <- MCKinds
    UNKNOWN = "unknown"
    Clients <- MCClients
    Want <- MCWant
    Topic <- MCTopic
    Retry = 2
INVARIANTS
    TypeOK
    MovesInMode
    EndsAtRest
PROPERTIES
    StepsCountDown
    Ends
CHECK_DEADLOCK FALSE
