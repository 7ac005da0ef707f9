\* One part through two windows, signed twice, one crash or reorganization.
CONSTANTS
    p1 = p1
    Part = {p1}
    Window = 2
    Depth = 2
    SafetyBlocks = 1
    MaxDelay = 1
    MaxHeight = 5
    MaxGen = 1
    MaxFaults = 1
SPECIFICATION Spec
INVARIANTS
    TypeOK
    CompleteMeansMigrated
    KnownTxWasAttempted
PROPERTY
    StopKeepsScheduledTx
CHECK_DEADLOCK FALSE
