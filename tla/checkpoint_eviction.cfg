SPECIFICATION Spec
CONSTANTS
    a1 = a1
    a2 = a2
    t1 = t1
    t2 = t2
    k1 = k1
    k2 = k2
    NoApp = NoApp
    Compacted = Compacted
    App = {a1, a2}
    Topic = {t1, t2}
    Key = {k1}
    MaxOffset = 1
    KeyOf <- MCOneKey
    MaxFaults = 2
    Hazards = {"eviction", "compaction", "partial_commit", "recreation"}
SYMMETRY Symmetry
CHECK_DEADLOCK FALSE
INVARIANTS
    Inv
