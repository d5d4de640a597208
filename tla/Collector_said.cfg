SPECIFICATION SampleSpec
CONSTANTS
    Horizon = 2
    MaxGap = 2
    Buckets = 2
    Rest = 3
    MaxObs = 2
    MaxRuns = 3
\* one at a time: TLC stops at the first that fails
INVARIANTS
    RestartRebaselines
    WindowIsFull
PROPERTIES
    RateOfItsInterval
CHECK_DEADLOCK FALSE
