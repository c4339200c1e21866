SPECIFICATION LiveSpec
CONSTANTS
    kMaxSize = 3
    kLowOnHandlesThreshold = 2
    kCounterOfDeathValue = 2
    Alarms = {a1, a2, t1, t2}
    Timers = {t1, t2}
    Args = {x1, x2}
    None = None
    MayFail = FALSE
PROPERTIES ImplementsService AlarmsEnd
