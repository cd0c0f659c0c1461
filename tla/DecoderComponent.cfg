\* One input buffer, so that every submission meets a full queue.
SPECIFICATION Spec
CONSTANTS
    NumInputs = 1
    NumCaptures = 1
    Blocks = {b1, b2}
    NoBlock = NoBlock
    MaxHeld = 2
    MaxPackets = 3
    MaxFaults = 1
    MaxSkips = 0
    MaxChanges = 0
    MaxOpens = 3
    MaxDrains = 2
SYMMETRY BlockSymmetry
CHECK_DEADLOCK FALSE
INVARIANTS
    EveryOutputFindsItsWork
    EosFinishesEverything
    PendingWorkHasFrame
    ParameterSetsSent
    SizedBeforeInput
PROPERTIES
    WorksKeepLifecycle
