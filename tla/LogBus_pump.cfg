SPECIFICATION FairSpec
CONSTANTS
    MaxRuns = 2
    MaxLines = 3
    TailLines = 2
    MaxBlips = 1
INVARIANTS
    TypeOK
    SwallowOnce
PROPERTIES
    FailureSpendsBudget
    DownShown
    SecondFailureShows
CHECK_DEADLOCK FALSE
