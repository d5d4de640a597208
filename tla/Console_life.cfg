SPECIFICATION FairSpec
CONSTANTS
    Pids = {p1, p2, p3}
    Cmds = {c1, c2}
    OneAtATime = TRUE
    MaxSignals = 1
INVARIANTS
    PidfileNamesServer
PROPERTIES
    StopStops
    RestartRenews
CHECK_DEADLOCK FALSE
