SPECIFICATION Spec
CONSTANTS
    Jobs = {j1, j2}
    Streams = {s1, s2}
    None = None
    K = 2
    MaxPerJob = 2
    MaxCancels = 1
INVARIANTS RunsOnce StarterMissesNothing MonotonicIds
SYMMETRY Symmetry
CHECK_DEADLOCK FALSE
