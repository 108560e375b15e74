SPECIFICATION MCSpec
CONSTANTS
    k1 = k1
    k2 = k2
    k3 = k3
    d1 = d1
    d2 = d2
    d3 = d3
    w1 = w1
    w2 = w2
    w3 = w3
    Ctrls = {k1, k2, k3}
    Domains = {d1, d2, d3}
    Domain <- DomainPerCtrl
    Threads = {w1, w2, w3}
    Thread <- ThreadPerDomain
    NoCtrl = NoCtrl
    CpuPsPerClk = 2
    DramPsPerClk = 3
    MaxCycle = 8
CHECK_DEADLOCK FALSE
INVARIANTS BackendOncePerDramCycle NobodyLeftBehind
PROPERTY EveryTickEnds
