SPECIFICATION Spec
CONSTANTS
    ConsoleReqs = {r1}
    CliCmds = {c1}
    Console = console
    Kinds = {"up", "down"}
    Subs = {}
    SubCap = 1
INVARIANTS
    OpsSerialized
CHECK_DEADLOCK FALSE
