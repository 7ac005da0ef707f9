\* One prepared note and one stage input; two faults, so that a cleanup fails after
\* the reconciliation it cleans up did.
CONSTANTS
    p1 = p1
    s1 = s1
    Prepared = {p1}
    StageInput = {s1}
    MaxTries = 2
    MaxFaults = 2
SPECIFICATION FairSpec
INVARIANTS
    TypeOK
    LocksFollowPhase
    LockInv
PROPERTY
    PreparedNotesComeBack
