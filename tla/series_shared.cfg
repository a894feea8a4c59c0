SPECIFICATION Spec
CONSTANTS
    Instance = {i1, i2}
    NoInstance = none
    Scenarios <- SeriesScenarios
CHECK_DEADLOCK FALSE
INVARIANT
    ReadsWhatWasAsked
