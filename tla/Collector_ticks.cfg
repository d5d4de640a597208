SPECIFICATION FairSample
CONSTANTS
    Horizon = 2
    MaxGap = 2
    Buckets = 2
    Rest = 3
    MaxObs = 2
    MaxRuns = 3
INVARIANTS
    WindowTrue
PROPERTIES
    RateHonest
    UpIsSeen
CHECK_DEADLOCK FALSE
