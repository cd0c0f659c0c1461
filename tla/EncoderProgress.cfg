SPECIFICATION FairSpec
CONSTANTS
    NumInputs = 2
    NumCaptures = 1
    MaxFrames = 2
    PtsOf <- MCPtsOf
    MaxFaults = 0
    MaxSkips = 0
    MaxOpens = 2
PROPERTIES
    PendingWorkFinishes
CHECK_DEADLOCK FALSE
