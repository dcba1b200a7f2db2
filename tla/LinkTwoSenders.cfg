SPECIFICATION Spec
CONSTANTS
    Callers = {"heart", "dyn"}
    Transports = {"serial"}
    Addr = {a1, a2}
    NULL = NULL
    RecvIds = {r1, r2}
    MaxUnplugs = 1
INVARIANTS
    SenderSafe
CHECK_DEADLOCK FALSE
