\* No failures: enough packets to fill the input queue once a capture slot is lost.
SPECIFICATION Spec
CONSTANTS
    NumInputs = 1
    NumCaptures = 1
    Blocks = {b1, b2}
    NoBlock = NoBlock
    MaxHeld = 1
    MaxPackets = 5
    MaxFaults = 0
    MaxSkips = 0
    MaxChanges = 0
    MaxOpens = 1
    MaxDrains = 0
SYMMETRY BlockSymmetry
CHECK_DEADLOCK FALSE
INVARIANTS
    FullQueueIsNotFatal
