SPECIFICATION FairSpec
CONSTANTS
    Viewers = {v1}
    Tabs = {t1}
    Ring = 3
    SubBuf = 2
    StatusBuf = 2
    MaxLines = 5
    MaxChanges = 4
INVARIANTS
    Joined
    NothingMissed
PROPERTIES
    BootHeals
CHECK_DEADLOCK FALSE
