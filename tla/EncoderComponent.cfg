SPECIFICATION Spec
CONSTANTS
    NumInputs = 1
    NumCaptures = 1
    MaxFrames = 3
    PtsOf <- MCPtsOf
    MaxFaults = 1
    MaxSkips = 0
    MaxOpens = 2
INVARIANTS
    EveryOutputFindsItsWork
    EosFinishesEverything
    PendingWorkHasFrame
CHECK_DEADLOCK FALSE
PROPERTIES
    WorksKeepLifecycle
