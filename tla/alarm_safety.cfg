SPECIFICATION Spec
CONSTANTS
    kMaxSize = 4
    kLowOnHandlesThreshold = 2
    kCounterOfDeathValue = 3
    Alarms = {a1, a2, a3, t1, t2}
    Timers = {t1, t2}
    Args = {x1}
    None = None
    MayFail = TRUE
SYMMETRY AlarmSymmetry
INVARIANTS TypeOK FreeListSound HandlesOwned QueueOwned LowWhenCrowded
PROPERTIES RebootIsCounted
