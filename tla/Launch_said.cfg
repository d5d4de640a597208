SPECIFICATION Spec
CONSTANTS
    Jobs = {j1, j2}
    Names <- MCNames
    InitFile <- MCInitFile
    ProfileNames <- MCProfileNames
    InitProfiles <- MCProfiles
    FlagSets <- MCFlagSets
    Edits <- MCMove
    Built <- MCBuilt
    Snapshots <- MCSnapshots
    Pool = 120
    Margin = 8
    Tenants = {0, 20}
    MemInfo = TRUE
    MaxCmds = 4
\* one at a time: TLC stops at the first that fails
INVARIANTS
    OwnMemoryIsFree
    ConsoleLaunchReached
    UnsavedReached
    MovedReached
    MountHasSnapshot
    GuardedFit
CHECK_DEADLOCK FALSE
