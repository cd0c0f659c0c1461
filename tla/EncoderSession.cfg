SPECIFICATION Spec
CONSTANTS
    NumInputs = 2
    NumCaptures = 2
    MaxFrames = 3
    PtsOf <- MCPtsOf
    MaxFaults = 1
    MaxSkips = 1
    MaxOpens = 2
INVARIANTS
    TypeOK
    CaptureSlotsConserved
    InputsPinned
    MetadataBounded
    OutputAttribution
    EveryOutputMatches
    EosAfterEveryFrame
CHECK_DEADLOCK FALSE
