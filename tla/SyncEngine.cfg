CONSTANTS
    MaxRewinds = 1
    RewindDistances <- Distances
    RepairDistances <- RepairSteps
    MaxRepairs = 1
    MaxRetries = 1
    Confirmations = 2
    MaxBatch = 2
    MaxHeight = 3
    FirstHeight = 2
    MaxForks = 1
    MaxFaults = 1
SPECIFICATION FairSpec
INVARIANTS
    TypeOK
    QueueReachesTip
    CompletedIsScanned
    WalletChainIsLinked
    SyncInv
PROPERTIES
    CompletionIsCanonical
    SyncCatchesUp
