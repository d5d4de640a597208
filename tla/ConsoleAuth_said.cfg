SPECIFICATION Spec
CONSTANTS
    Addrs = {a1}
    Reqs = {r1, r2}
    Attempts = 1
    Window = 1
    MaxShift = 1
    Idle = 2
    MaxTokens = 1
\* one at a time: TLC stops at the first that fails
PROPERTIES
    PasswdEndsSessions
    RebootKeepsStreak
CHECK_DEADLOCK FALSE
