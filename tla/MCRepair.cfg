SPECIFICATION Spec
CONSTANTS
    GridRows = 2
    GridCols = 3
    GridMask <- MCMask
    Items <- FewerStars
    Recipes <- MCRecipes
    Inventory <- MCInventory
    Configs <- MCConfigs
    MinCandidates = 4
    CandidatesPerResult = 2
    IDRank <- MCIDRank
    MinNeighbourhood = 2
    MaxNeighbourhood = 3
    MaxNeighbourhoods = 6
    EliteCandidates = 3
    MaxMandatory = 3
    BlockedOptions = 4
    RankedTargets = 2
    TargetSubsets = 3
    ArchiveCapacity = 3
    CheckInterval = 4
    MinParallel = 3
    TasksPerWorker = 2
    MaxSplit = 2
    MaxTasks = 30
    MinPlateau = 2
    WalkDepth = 2
INVARIANTS
    NeighbourhoodIsSearched
    BudgetsAreKept
    ArchiveKeepsBestLinks
    ResultsAreLegal
PROPERTIES
    SharesAreEqual
    OnlyBetterReplaces
CHECK_DEADLOCK FALSE
