SPECIFICATION TimerSpec
CONSTANTS
    Bufs = {b1, b2}
    NoBuf = NoBuf
    Depth = 2
    IdWrap = 4
    MaxSends = 4
    AlarmsMayFail = FALSE
PROPERTIES AcceptedIsAnswered BuffersReturn
CHECK_DEADLOCK FALSE
