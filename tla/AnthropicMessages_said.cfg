SPECIFICATION TurnSpec
CONSTANTS
    Calls = {k1, k2}
    Ids = {a, b}
    MaxTurns = 2
    MaxBlocks = 2
    MaxLines = 4
\* one at a time: TLC stops at the first that fails
INVARIANTS
    ResultsFirst
    DeltaInOpenBlock
CHECK_DEADLOCK FALSE
