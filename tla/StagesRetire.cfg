SPECIFICATION Spec
CONSTANTS
    Stage = {"root", "leaf"}
    Parent <- MCParent
    Final <- MCFinal
    Expiry <- MCExpiry
    Depth = 2
    MaxDelay = 0
    MaxHeight = 5
    MaxForks = 0
    MaxCrashes = 0
PROPERTY RetiredStageWasNotMined
CHECK_DEADLOCK FALSE
