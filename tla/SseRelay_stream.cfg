SPECIFICATION FairRelay
CONSTANTS
    StreamLines = 2
    MaxQuiet = 2
INVARIANTS
    RelayedFaithfully
    SilencePinged
PROPERTIES
    NoZombie
CHECK_DEADLOCK FALSE
