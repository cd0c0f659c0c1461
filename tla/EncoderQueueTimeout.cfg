SPECIFICATION Spec
CONSTANTS
    NumInputs = 2
    NumCaptures = 2
    MaxFrames = 3
    PtsOf <- MCPtsOf
    MaxFaults = 0
    MaxSkips = 0
    MaxOpens = 1
INVARIANTS
    FullQueueReturnsBlocking
CHECK_DEADLOCK FALSE
