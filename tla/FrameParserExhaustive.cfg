SPECIFICATION Spec
CONSTANTS
    Size = 12
    Byte = {0, 1}
    HeadLo = 1
    HeadHi = 0
    Base = 2
    LenLimit = 2
    LenMod = 5
    DataMod = 2
    Xor <- BitXor
    Streams <- AllStreams
INVARIANTS
    TypeOK
    FramesWellFormed
    ScanAgrees
    BacklogBounded
PROPERTIES
    TurnsCountDown
    CallReturns
CHECK_DEADLOCK FALSE
