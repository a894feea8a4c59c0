SPECIFICATION FairSpec
CONSTANTS
    Instance = {i1, i2}
    NoInstance = none
    Scenarios <- MCScenarios
CHECK_DEADLOCK FALSE
INVARIANTS
    TypeOK
    OutputsUnique
    ReplicatedAtLeastOnce
    FlushIsSafe
    SourcesSupervised
    EndsWhenDue
    
    DataflowAsWritten
    TopicsAligned
    InternalTopicsFit
PROPERTIES
    EventuallyDone
