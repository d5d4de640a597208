SPECIFICATION FairSpec
CONSTANTS
    Pids = {p1, p2, p3}
    Cmds = {c1}
    OneAtATime = TRUE
    MaxSignals = 2
\* one at a time: TLC stops at the first that fails
PROPERTIES
    SecondSignalForces
    StartReportTrue
    WebRestartServes
    RestartAlwaysServes
    RestartUpgrades
CHECK_DEADLOCK FALSE
