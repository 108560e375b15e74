SPECIFICATION MCSpec
CONSTANTS
    core = core
    Strategies = {"lst", "max", "avg", "wavg"}
    Initial = 50
    Latencies = {3, 80}
    Counts = {1, 3, 60}
    MaxRuns = 2
CHECK_DEADLOCK FALSE
PROPERTIES AllServed EstimatesSound
