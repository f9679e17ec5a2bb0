SPECIFICATION Spec
CONSTANTS
    MaxDepth = 2
    MaxRuns = 2
    CheckedTests <- MCTests
    Trees <- MCTrees
    Paths <- MCPaths
    Docs <- MCDocs
    MaxNesting = 2
    Readers = {"w1", "w2"}
    ApiFiles <- MCFiles
    ApiPaths = {"p1"}
    MaxApiBytes = 3
    DocsKept = 2
    BytesKept = 3
    ValidatorsKept = 2
    MaxChain = 2
    MaxLoads = 3
    Probes <- MCProbes
    Judgement <- JudgedAs
    Sweeps <- MCSweeps
    SingleCalls <- MCCalls
    ApiAnswers <- MCAnswers
    MaxExchanges = 2
    MaxReceived = 2
    MaxTests = 2
INVARIANTS TextStaysText BlameIsOfThisTest ChecksAgree AcceptedRuns CacheAddsUp TranslationKeepsMeaning SweepTellsEach JudgesThisTest
CHECK_DEADLOCK FALSE
