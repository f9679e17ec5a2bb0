SPECIFICATION FairSpec
CONSTANTS
    Calls = {c1, c2}
    Timeout = 1
    Rounds = 2
    MaxPauses = 2
    NoCall = NoCall
INVARIANT WaitsOnListener
PROPERTIES DeliversCalls WaitEnds
