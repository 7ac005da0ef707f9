\* A root and its dependent, one reorganization, one restart.
SPECIFICATION FairSpec
CONSTANTS
    Stage = {"root", "leaf"}
    Parent <- MCParent
    Final <- MCFinal
    Expiry <- MCExpiry
    Depth = 2
    MaxDelay = 0
    MaxHeight = 5
    MaxForks = 1
    MaxCrashes = 1
INVARIANTS TypeOK ReadyHasEveryStage KnownStageWasAttempted StageInv
PROPERTY PreparationEnds
CHECK_DEADLOCK FALSE
