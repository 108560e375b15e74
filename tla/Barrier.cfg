SPECIFICATION MCFairSpec
CONSTANTS
    Cids = {c1, c2, c3, c4}
    Few = {c1, c2, c3}
    parallelThreads = 2
    CleanupPeriod = 2
    Mortal = {c1}
CHECK_DEADLOCK FALSE
INVARIANTS NoWakeupLost PlacesExact
PROPERTIES TurnsAreFair WaitingRuns
