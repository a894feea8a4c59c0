SPECIFICATION FairSpec
CONSTANTS
    t1 = t1
    t2 = t2
    Topic = {t1, t2}
    Stamps <- MCStamps
    MaxBuffer = 2
    MaxFaults = 2
    HazardSets <- MCHazardSets
CHECK_DEADLOCK FALSE
INVARIANTS
    TypeOK
    AppendValid
    PausesAgree
    SkippedByBackpressureOnly
PROPERTIES
    InOrder
    StuckByHazardsOnly
