SPECIFICATION FairSpec
CONSTANTS
    w1 = w1
    w2 = w2
    w3 = w3
    Worker = {w1, w2}
    NTasks = 3
    TreeSize <- MCTreeSize
    Rank <- MCRank
    Settings <- MCLedgerSettings
    Seeds <- MCSeeds
    TopN = 2
    CheckEvery = 2
    MaxNodes = 5
    StageLimit = 0
    EarlierCharges = 1
INVARIANTS
    ReportedIsCharged
PROPERTIES
    SearchEnds
