SPECIFICATION Spec
CONSTANTS
    Bufs = {b1, b2}
    NoBuf = NoBuf
    Depth = 2
    IdWrap = 4
    MaxSends = 4
    AlarmsMayFail = TRUE
INVARIANTS NoAssert
CHECK_DEADLOCK FALSE
