SPECIFICATION Spec
CONSTANTS
    Callers = {"heart"}
    Transports = {"udp"}
    Addr = {a1, a2}
    NULL = NULL
    RecvIds = {r1, r2}
    MaxUnplugs = 1
PROPERTIES
    Reconnects
CHECK_DEADLOCK FALSE
