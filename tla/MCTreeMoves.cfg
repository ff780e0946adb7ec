SPECIFICATION Spec
CONSTANTS
    GridRows = 2
    GridCols = 3
    GridMask <- MCMask
    Items <- MCItems
    Recipes <- MCRecipes
    Inventory <- MCInventory
    Configs <- MCMoveConfigs
    Alphabet <- MCAlphabet
    MinCandidates = 16
    CandidatesPerResult = 8
INVARIANTS
    MovesKeepLayouts
CHECK_DEADLOCK FALSE
