\* Two readers, one writer, a reset.
CONSTANTS
    r1 = r1
    r2 = r2
    w1 = w1
    s1 = s1
    s2 = s2
    s3 = s3
    Reader = {r1, r2}
    Writer = {w1}
    Slot = {s1, s2, s3}
    Nobody = Nobody
    NoSlot = NoSlot
    MaxCommits = 1
    MaxSections = 2
SYMMETRY Symmetry
SPECIFICATION Spec
INVARIANTS
    TypeOK
    ReadsAreFresh
    DeletedIsNotServed
    CacheInv
