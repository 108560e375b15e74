SPECIFICATION MCSpec
CONSTANTS
    t1 = t1
    t2 = t2
    t3 = t3
    c1 = c1
    c2 = c2
    Threads <- MCThreads
    Cores <- MCCores
    Mask <- MCMask
    schedQuantum = 2
    Sleeps = {1, 2}
    RealLeaves = {TRUE, FALSE}
    Stalls = TRUE
    Mortal = {t1}
    Wakers = {k1, k2}
    Waiters = {w1, w2, w3}
    MaxWakes = {1, 2}
    Timeouts = TRUE
CHECK_DEADLOCK FALSE
INVARIANTS WorkConserving NoThreadLost CoresAgree FutexCountersExact
