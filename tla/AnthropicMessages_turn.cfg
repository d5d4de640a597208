SPECIFICATION FairTurn
CONSTANTS
    Calls = {k1, k2}
    Ids = {a, b}
    MaxTurns = 2
    MaxBlocks = 2
    MaxLines = 4
INVARIANTS
    ProtocolKept
    ResultsFollowCalls
PROPERTIES
    TurnEnds
CHECK_DEADLOCK FALSE
