SPECIFICATION Spec
CONSTANTS
    a1 = a1
    a2 = a2
    t1 = t1
    t2 = t2
    k1 = k1
    k2 = k2
    NoApp = NoApp
    Compacted = Compacted
    App = {a1, a2}
    Topic = {t1}
    Key = {k1, k2}
    MaxOffset = 3
    KeyOf <- MCKeyOf
    MaxFaults = 2
    Hazards = {"compaction"}
SYMMETRY Symmetry
CHECK_DEADLOCK FALSE
INVARIANTS
    SameOutputs
