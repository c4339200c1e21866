SPECIFICATION Spec
CONSTANTS
    LastEp = 2
    Devices <- RegularDevices
    Absent = Absent
    None = None
INVARIANTS HookSeesWrites
CHECK_DEADLOCK FALSE
