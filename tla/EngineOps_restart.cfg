\* Restarts too, next to a CLI command.
SPECIFICATION FairSpec
CONSTANTS
    ConsoleReqs = {r1, r2}
    CliCmds = {c1}
    Console = console
    Kinds = {"up", "down", "restart"}
    Subs = {}
    SubCap = 2
INVARIANTS
    OnlyRestartOverlaps
    SlotHasOwner
PROPERTIES
    AcceptedEnds
CHECK_DEADLOCK FALSE
