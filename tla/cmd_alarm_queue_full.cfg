SPECIFICATION Spec
CONSTANTS
    Bufs = {b1, b2}
    NoBuf = NoBuf
    Depth = 2
    IdWrap = 5
    MaxSends = 5
    AlarmsMayFail = TRUE
SYMMETRY BufSymmetry
INVARIANTS AnsweredAtMostOnce
CHECK_DEADLOCK FALSE
