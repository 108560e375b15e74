SPECIFICATION MCSpec
CONSTANTS
    c1 = c1
    c2 = c2
    pageA = pageA
    pageB = pageB
    Events = {1, 2, 3}
    Cores = {c0}
    Addrs = {1}
    InitialLatency = 1
    MaxTries = 2
    CpuPsPerClk = 2
    DramPsPerClk = 3
    PhaseLength = 2
    AccessPhases = 2
    MaxPhases = 3
    MaxStall = 1
SYMMETRY CoreSymmetry
CHECK_DEADLOCK FALSE
INVARIANTS HeldOnce CompletionsMatch
PROPERTY PrefetchesAhead
