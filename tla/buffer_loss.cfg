SPECIFICATION Spec
CONSTANTS
    t1 = t1
    t2 = t2
    Topic = {t1, t2}
    Stamps <- MCStamps
    MaxBuffer = 1
    MaxFaults = 1
    HazardSets = {{"unprocessed"}}
CHECK_DEADLOCK FALSE
INVARIANTS
    NothingSkipped
