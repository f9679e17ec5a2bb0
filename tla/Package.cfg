SPECIFICATION Spec
CONSTANTS
    Index <- MCIndex
    Texts <- MCTexts
    Tree0 <- MCTree0
    Trees <- MCTrees
    KeyDirs0 <- MCKeyDirs
    Rekeyed = {"compiler", "old"}
    Addressed = {{}, {"old", "new"}}
    Stored = {"p1"}
    RequireHybrid = {"old"}
    MaxKeys = 4
    MaxCompiles = 2
    MaxLoads = 1
    MaxWork = 3
    SetupRuns = {"r1", "r2"}
    Names = {"default", "other"}
    Layers <- MCLayers
    RunInputs <- MCInputs
    Packages <- MCPackages
    Policies <- MCPolicies
    Addresses = {"E", "S"}
    MaxHostActs = 2
INVARIANTS LoadedAsSealed GoodPackageLoads ManifestTellsContent KeysStayHome
CHECK_DEADLOCK FALSE
