SPECIFICATION FairSpec
CONSTANTS
    MaxRuns = 2
    MaxLines = 3
    TailLines = 2
    MaxBlips = 0
PROPERTIES
    ServingShows
CHECK_DEADLOCK FALSE
