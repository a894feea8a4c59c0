SPECIFICATION Spec
CONSTANTS
    Key = {"k1", "k2"}
    Row = {1, 2, 3}
    Extends = {}
    Definitions <- MCGraceDefinitions
    Stamps <- MCStamps
    Keys <- MCKeys
    MaxArrived <- MCMaxArrived
    MaxTime = 3
CHECK_DEADLOCK FALSE
INVARIANTS
    WindowsStayClosed
