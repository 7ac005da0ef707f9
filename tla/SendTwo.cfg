\* Two sends and the migration compete for one note.
CONSTANTS
    p1 = p1
    p2 = p2
    n1 = n1
    Proposal = {p1, p2}
    Note = {n1}
    Migration = Migration
    NoOwner = NoOwner
    LockBlocks = 1
    MaxParts = 1
    MaxHeight = 2
SYMMETRY Symmetry
SPECIFICATION Spec
INVARIANTS
    NoConflictingSpends
    MaybeOnNetworkIsReserved
    ReservationInv
PROPERTY
    SendsSpendOnce
