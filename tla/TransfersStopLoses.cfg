\* A stop deletes a transaction that was submitted and marked for signing.
CONSTANTS
    p1 = p1
    Part = {p1}
    Window = 2
    Depth = 2
    SafetyBlocks = 1
    MaxDelay = 1
    MaxHeight = 4
    MaxGen = 0
    MaxFaults = 0
SPECIFICATION Spec
INVARIANT
    StopDiscardsNothingLive
CHECK_DEADLOCK FALSE
