SPECIFICATION Spec
CONSTANTS
    Byte = {0, 1, 2, 3}
    HeadLo = 1
    HeadHi = 2
    Base = 4
    LenLimit = 8
    LenMod = 16
    DataMod = 4
    Xor <- Bit2Xor
    Traffic <- TwoSegments
    Streams <- TrafficStreams
INVARIANTS
    RoundTrip
PROPERTIES
    AllRead
CHECK_DEADLOCK FALSE
