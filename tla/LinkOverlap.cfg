SPECIFICATION Spec
CONSTANTS
    Callers = {"heart", "plain", "dyn"}
    Transports = {"serial", "udp"}
    Addr = {a1, a2, a3}
    NULL = NULL
    RecvIds = {r1, r2}
    MaxUnplugs = 2
SYMMETRY LinkSymmetry
INVARIANTS
    DiesOnlyInOverlap
    TimersAtRest
CHECK_DEADLOCK FALSE
