SPECIFICATION FairSpec
CONSTANTS
    Objs = {o1, o2, o3}
    B = 4
    W = 2
    MaxCycle = 19
INVARIANTS NavigationExact
PROPERTIES ImplementsEventQueue DequeueEnds
