SPECIFICATION Spec
CONSTANTS
    ConsoleReqs = {r1, r2}
    CliCmds = {}
    Console = console
    Kinds = {"up", "restart"}
    Subs = {}
    SubCap = 1
INVARIANTS
    OpsSerialized
CHECK_DEADLOCK FALSE
