SPECIFICATION Spec
CONSTANTS
    Handlers = {h1, h2}
    Tabs = {t1}
    Cap = 2
    MaxReqs = 3
    MaxTokens = 1
SYMMETRY Symmetry
INVARIANTS
    QuietShowsAll
CHECK_DEADLOCK FALSE
