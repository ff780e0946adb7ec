SPECIFICATION Spec
CONSTANTS
    w1 = w1
    w2 = w2
    w3 = w3
    Worker <- MCWorker
    NTasks = 3
    TreeSize <- MCTreeSize
    Rank <- MCRank
    Settings <- MCSettings
    Seeds <- MCSeeds
    TopN = 2
    CheckEvery = 2
    MaxNodes = 10
    StageLimit = 10
    EarlierCharges = 1
SYMMETRY Symmetry
INVARIANTS
    StopBoundsExtraWork
    CancelBoundsExtraWork
    Deterministic
    BestSurvives
    CompletedIsExhausted
PROPERTIES
    ChargesOnce
