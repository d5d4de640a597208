SPECIFICATION Spec
CONSTANTS
    Cmds = {c1, c2}
    Reqs = {r1, r2}
    MaxLoads = 4
SYMMETRY Symmetry
\* one at a time: TLC stops at the first that fails
INVARIANTS
    EveryDoneIsKept
    ReadableThroughout
    EveryRequestReloads
CHECK_DEADLOCK FALSE
