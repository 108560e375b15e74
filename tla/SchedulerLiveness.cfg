SPECIFICATION MCFairSpec
CONSTANTS
    t1 = t1
    t2 = t2
    t3 = t3
    c1 = c1
    c2 = c2
    Threads <- MCThreads
    Cores <- MCCores
    Mask <- MCMask
    schedQuantum = 1
    Sleeps = {1}
    RealLeaves = {TRUE}
    Stalls = FALSE
    Mortal = {}
    Wakers = {k1, k2}
    Waiters = {w1, w2, w3}
    MaxWakes = {1, 2}
    Timeouts = FALSE
CHECK_DEADLOCK FALSE
PROPERTY WaitersGoOn
