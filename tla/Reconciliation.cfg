SPECIFICATION Spec
CONSTANTS
    Entries = {a, b}
    FolderIsRoot = TRUE
    CommandCapacity = 6
    ResultCapacity = 1
    MaxFaults = 1
    BatchRoom = 0
    MaxRemovals = 2
    EventCapacity = 1
    MaxGeneration = 2
INVARIANTS
    RemovedStaysHidden
    MapIsWhole
    ControlFits
    ExcusedIsRepaired
    RefreshIsPursued
PROPERTIES
    MapNeverGoesBack
CHECK_DEADLOCK FALSE
