SPECIFICATION Spec
CONSTANTS
    Pids = {p1, p2, p3}
    Cmds = {c1}
    OneAtATime = FALSE
    MaxSignals = 1
INVARIANT
    PidfileNamesServer
CHECK_DEADLOCK FALSE
