SPECIFICATION Spec
CONSTANTS
    Addrs = {a1}
    Reqs = {r1, r2, r3}
    Attempts = 1
    Window = 1
    MaxShift = 2
    Idle = 2
    MaxTokens = 1
SYMMETRY Symmetry
INVARIANTS
    BehindLock
    LockoutInForce
PROPERTIES
    EntryEarned
CHECK_DEADLOCK FALSE
