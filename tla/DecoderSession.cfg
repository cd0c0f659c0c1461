\* Two buffers per queue, one spare block, one failure and one change.
SPECIFICATION Spec
CONSTANTS
    NumInputs = 2
    NumCaptures = 2
    Blocks = {b1, b2, b3}
    NoBlock = NoBlock
    MaxHeld = 2
    MaxPackets = 3
    MaxFaults = 1
    MaxSkips = 1
    MaxChanges = 1
    MaxOpens = 2
SYMMETRY BlockSymmetry
CHECK_DEADLOCK FALSE
INVARIANTS
    TypeOK
    BlocksHaveOneHolder
    CaptureSlotsConserved
    PacketsAccounted
    EosAfterEveryFrame
