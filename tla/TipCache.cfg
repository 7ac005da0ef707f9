\* Two callers, two endpoints, answers that overtake one another.
CONSTANTS
    c1 = c1
    c2 = c2
    k1 = k1
    k2 = k2
    Caller = {c1, c2}
    Key = {k1, k2}
    NoKey = NoKey
    MaxAge = 1
    RpcTimeout = 2
    MaxTime = 5
SYMMETRY Symmetry
SPECIFICATION Spec
INVARIANTS
    TypeOK
    ServedTipIsRecent
CHECK_DEADLOCK FALSE
