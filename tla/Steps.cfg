SPECIFICATION Spec
CONSTANTS
    ShellIds = {"s1", "s2"}
    Links = {"l1", "l2"}
    MaxCalls = 3
    Catalogs <- MCCatalogs
    Policies <- MCPolicies
    MaxAsked = 3
    Requests = {"q1", "q2"}
    MaxProcess = 2
    MaxSets = 1
    Fields = {"f1", "f2"}
    CoreKeys = {"url"}
    RetryKeys = {"retry_on"}
    MaxAttempts = 3
    QueryPage = 2
    QueryPages = 2
    MaxEntries = 4
    Jobs = {"j1", "j2"}
    Tokens = {"t1", "t2"}
    ShortTokens = {"t2"}
    MaxDeclared = 1
    MaxKept = 2
    MaxRegistered = 2
    MaxHeld = 1
    MaxTrail = 2
INVARIANTS TwinTold OffersTold RepeatsTold NoSecretWritten
PROPERTY CallAnswered
CHECK_DEADLOCK FALSE
