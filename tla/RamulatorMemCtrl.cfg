SPECIFICATION MCSpec
CONSTANTS
    Events = {1, 2, 3}
    Cores = {c1, c2}
    Addrs = {1, 2}
    InitialLatency = 1
    QueueMax = 1
    MaxTries = 1
    CpuPsPerClk = 2
    DramPsPerClk = 3
    PhaseLength = 2
    AccessPhases = 1
    MaxPhases = 3
    MaxSkew = 0
    MaxStall = 1
SYMMETRY CoreSymmetry
CHECK_DEADLOCK FALSE
INVARIANTS ClocksInStep HeldIsSomewhereOnce CallbacksExact LatencyNeverWraps OneEstimatePerPhase
