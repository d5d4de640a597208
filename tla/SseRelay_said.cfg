SPECIFICATION RelaySpec
CONSTANTS
    StreamLines = 2
    MaxQuiet = 2
\* one at a time: TLC stops at the first that fails
INVARIANTS
    AbortedWhenLeft
    ErrorIsKept
    KeepaliveRepeats
    ReaderNotLeft
    WholeAtEnd
PROPERTIES
    PingAtBoundary
CHECK_DEADLOCK FALSE
