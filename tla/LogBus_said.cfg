SPECIFICATION Spec
CONSTANTS
    MaxRuns = 2
    MaxLines = 3
    TailLines = 3
    MaxBlips = 0
\* one at a time: TLC stops at the first that fails
INVARIANTS
    SwallowOncePerRun
    NotBornFailed
    StoryIsOfThisRun
PROPERTIES
    DeadStaysFailed
CHECK_DEADLOCK FALSE
