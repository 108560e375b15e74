SPECIFICATION FairSpec
CONSTANTS
    Domains = {1, 2}
    Threads = {1, 2}
    Owners <- MCOwners
    Txs = {1, 2, 3}
    Core <- MCCore
    SrcDom <- MCSrcDom
    DstDom <- MCDstDom
    Types = {"GET", "PUT"}
    Gaps = {0}
    PreDelays = {0}
    PostDelays = {1}
    Waits = {0, 2}
    BoundLat = 3
    PhaseLength = 2
    MaxPhases = 2
    MaxRecords = 2
INVARIANTS NoEventEarly CrossingOnTime ChainTargetAlive
PROPERTY PhaseEnds
