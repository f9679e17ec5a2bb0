SPECIFICATION OSpec
CONSTANTS
    Uses <- MCUses
    Planned <- MCPlanned
    MayMiss <- MCMayMiss
    MaxTries = 2
    MaxItems = 2
    MaxRuns = 2
    MaxPauses = 1
    Steps = {"s1", "s2"}
    Options = {"a", "b"}
    Timeout = 1
    MaxAsks = 2
    MaxHolds = 1
INVARIANTS ShownAsItIs AnswersCount
PROPERTIES AnswerKept QuestionEnds
CHECK_DEADLOCK FALSE
