\* Up and down requests of browser tabs to one console, and a tab that watches.
SPECIFICATION Spec
CONSTANTS
    ConsoleReqs = {r1, r2, r3}
    CliCmds = {}
    Console = console
    Kinds = {"up", "down"}
    Subs = {s1}
    SubCap = 2
INVARIANTS
    TypeOK
    ReportTrue
    EventOrder
PROPERTIES
    SerialSpec
CHECK_DEADLOCK FALSE
