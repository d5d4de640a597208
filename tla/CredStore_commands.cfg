SPECIFICATION Spec
CONSTANTS
    Cmds = {c1, c2, c3}
    Reqs = {r1, r2}
    MaxLoads = 3
SYMMETRY Symmetry
INVARIANTS
    DoneIsKept
    AlwaysReadable
    HotReload
CHECK_DEADLOCK FALSE
