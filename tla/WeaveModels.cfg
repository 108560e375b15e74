SPECIFICATION MCSpec
CONSTANTS
    sysFreq = 7
    memFreq = 3
    b0 = b0
    b1 = b1
    b2 = b2
    b3 = b3
    Banks <- MCOneBank
    Rows = {1, 2}
    QueueDepth = 3
    RowHitLimit = 1
    ClosedPage = FALSE
    WindowSize = 2
    tBL = 1
    tCL = 2
    tRCD = 2
    tRTP = 1
    tRP = 2
    tRRD = 1
    tRAS = 4
    tFAW = 6
    tWTR = 1
    tWR = 2
    tRFC = 5
    tREFI = 20
    MaxReqs = 5
    Gaps = {0, 3}
    MaxRefreshes = 2
CHECK_DEADLOCK FALSE
INVARIANTS
    SchedulerOnTime BoundedBypass ActsSpaced CacheResourcesExact NoNegativeSkew GraphAlive
