SPECIFICATION JobsSpec
CONSTANTS
    Definitions = {d1, d2}
    MaxSteps = 2
    MaxTests = 2
    MaxPauses = 2
    N = 3
    OnDemand = {3}
    SkipIds = {2}
    Driver = driver
    Others = {o1, o2}
    MaxAsks = 2
INVARIANT PauseReachesWait
CHECK_DEADLOCK FALSE
