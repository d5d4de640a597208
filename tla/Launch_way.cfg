SPECIFICATION Spec
CONSTANTS
    Jobs = {j1, j2}
    Names <- MCNames
    InitFile <- MCInitFile
    ProfileNames <- MCProfileNames
    InitProfiles <- MCProfiles
    FlagSets <- MCFlagSets
    Edits <- MCEdits
    Built <- MCBuilt
    Snapshots <- MCSnapshots
    Pool = 120
    Margin = 8
    Tenants = {0, 20}
    MemInfo = TRUE
    MaxCmds = 3
SYMMETRY Symmetry
INVARIANTS
    ValidUnlessOverlaid
    SetUpOnly
    ProxyFollows
    RefusedUntouched
CHECK_DEADLOCK FALSE
