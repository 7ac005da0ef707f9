\* A stop crossing the end of a scan.
CONSTANTS
    p1 = p1
    s1 = s1
    Prepared = {p1}
    StageInput = {s1}
    MaxTries = 2
    MaxFaults = 0
SPECIFICATION Spec
INVARIANT
    StoppedRunHoldsNoLock
