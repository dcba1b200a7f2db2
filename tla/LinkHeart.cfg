SPECIFICATION Spec
CONSTANTS
    Callers = {"heart"}
    Transports = {"serial"}
    Addr = {a1, a2}
    NULL = NULL
    RecvIds = {r1, r2, r3}
    MaxUnplugs = 2
PROPERTIES
    Reconnects
CHECK_DEADLOCK FALSE
