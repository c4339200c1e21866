SPECIFICATION Spec
CONSTANTS
    MaxHandlers = 3
    SignalIds = {"start", "leave", "other"}
    SET_ATTR = 0
    All = All
    Programs <- MCPrograms
    Params <- MCParams
INVARIANTS RightHandlersRan ReadyForUserCode SignalBufferFreedOnce
