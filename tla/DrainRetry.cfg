SPECIFICATION Spec
CONSTANTS
    NumInputs = 2
    NumCaptures = 1
    MaxFrames = 2
    PtsOf <- MCPtsOf
    MaxFaults = 1
    MaxSkips = 0
    MaxOpens = 1
INVARIANTS
    RetryLosesNoFrame
CHECK_DEADLOCK FALSE
