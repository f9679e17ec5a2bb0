SPECIFICATION Spec
CONSTANTS
    Planes = {"p1", "p2"}
    MaxWait = 4
    Poll = 2
    MaxSlow = 1
    MaxContracts = 2
    MaxSteps = 3
    Runs = {"r1", "r2"}
    Locals = {"a"}
    MaxMade = 3
    Assets = {"a1", "a2"}
    PageSize = 2
    MaxPages = 2
    MaxAgreements = 4
    MaxWalks = 2
INVARIANTS ReportedTruly TokenStaysHome OffersOwnAssets DoneMeansRetired
PROPERTY StepsEnd
CHECK_DEADLOCK FALSE
