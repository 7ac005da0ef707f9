\* One send of up to two transactions over two notes.
CONSTANTS
    p1 = p1
    n1 = n1
    n2 = n2
    Proposal = {p1}
    Note = {n1, n2}
    Migration = Migration
    NoOwner = NoOwner
    LockBlocks = 2
    MaxParts = 2
    MaxHeight = 4

SPECIFICATION FairSpec
INVARIANTS
    TypeOK
    MaybeOnNetworkIsReserved
    PendingOperationIsReserved
    LocksAreRecoverable
PROPERTIES
    StoresOnlyWhatWasSent
    CancelledStaysCancelled
    OrphansReclaimed
