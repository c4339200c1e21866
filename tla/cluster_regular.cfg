SPECIFICATION Spec
CONSTANTS
    LastEp = 3
    Devices <- RegularDevices
    Absent = Absent
    None = None
INVARIANTS TypeOK AllServed SlotsSuffice WritesAreChecked
CHECK_DEADLOCK FALSE
