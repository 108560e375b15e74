SPECIFICATION MCSpec
CONSTANTS
    Cids = {c1, c2, c3}
    Few = {}
    parallelThreads = 2
    CleanupPeriod = 2
    Mortal = {c1, c2, c3}
CHECK_DEADLOCK FALSE
INVARIANTS RejoinFindsItself
