SPECIFICATION Spec
CONSTANTS
    Handlers = {h1, h2}
    Tabs = {t1}
    Cap = 2
    MaxReqs = 3
    MaxTokens = 1
SYMMETRY Symmetry
INVARIANTS
    LiveIsRunning
    RingHoldsNewest
    QuietIsFresh
CHECK_DEADLOCK FALSE
