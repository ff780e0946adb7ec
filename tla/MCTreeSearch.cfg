SPECIFICATION Spec
CONSTANTS
    GridRows = 2
    GridCols = 3
    GridMask <- MCMask
    Items <- MCItems
    Recipes <- MCRecipes
    Inventory <- MCInventory
    Configs <- MCConfigs
    Alphabet <- MCAlphabet
    MinCandidates = 16
    CandidatesPerResult = 8
INVARIANTS
    SearchFindsTop
    TreeKeepsLayouts
    StopsOnlyAtTheBest
    EvaluationsAgree
    CompilingHidesNothing
    CoverIsFresh
    BoundsHold
    StarBoundsHold
    SeedsAreSound
PROPERTIES
    BestIsKept
CHECK_DEADLOCK FALSE
