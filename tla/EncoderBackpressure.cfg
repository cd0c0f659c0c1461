SPECIFICATION Spec
CONSTANTS
    NumInputs = 1
    NumCaptures = 1
    MaxFrames = 4
    PtsOf <- MCPtsOf
    MaxFaults = 0
    MaxSkips = 1
    MaxOpens = 1
INVARIANTS
    WaitIsProductive
CHECK_DEADLOCK FALSE
