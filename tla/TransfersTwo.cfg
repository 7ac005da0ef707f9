\* Two parts, signed once.
CONSTANTS
    p1 = p1
    p2 = p2
    Part = {p1, p2}
    Window = 2
    Depth = 2
    SafetyBlocks = 1
    MaxDelay = 1
    MaxHeight = 3
    MaxGen = 0
    MaxFaults = 0
SYMMETRY Symmetry
SPECIFICATION Spec
INVARIANTS
    CompleteMeansMigrated
    RetiredRunIsStored
    TransferInv
CHECK_DEADLOCK FALSE
