SPECIFICATION Spec
CONSTANTS
    NumSlots = 3
    NumPools = 2
    MaxRefs = 2
    MaxWorks = 4
    ChangesAt = {3, 5}
    MaxFaults = 1
    MaxDrains = 1
INVARIANTS
    ReferencesKept
    ReferencesAccounted
    AcquireCanEnd
    EosFinishesEverything
CHECK_DEADLOCK FALSE
