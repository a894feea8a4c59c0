SPECIFICATION Spec
CONSTANTS
    Key = {"k1", "k2"}
    Row = {1, 2, 3}
    Extends = {}
    Definitions <- MCDefinitions
    Stamps <- MCStamps
    Keys <- MCKeys
    MaxArrived <- MCMaxArrived
    MaxTime = 3
CHECK_DEADLOCK FALSE
INVARIANTS
    TypeOK
    WindowResultsComplete
    NoMessageLost
    TimeClosesOnTime
    AggregatesExact
    StoresReclaimed
    JoinResults
    CachedRowsFresh
    ConfigurationsExact
PROPERTIES
    StateIsMap
