SPECIFICATION Spec
CONSTANTS
    Bufs = {b1, b2, b3}
    NoBuf = NoBuf
    Depth = 3
    IdWrap = 3
    MaxSends = 5
    AlarmsMayFail = FALSE
SYMMETRY BufSymmetry
INVARIANTS TypeOK NoAssert OneOwner WaitsForOwnPacket OwnAnswer
PROPERTIES BuffersConserved ImplementsService
CHECK_DEADLOCK FALSE
