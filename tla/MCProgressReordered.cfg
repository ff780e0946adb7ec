SPECIFICATION Spec
CONSTANTS
    w1 = w1
    w2 = w2
    Worker <- MCWorker
    MaxRank = 3
    NStages = 2
    Throttles = FALSE
SYMMETRY Symmetry
INVARIANTS ShownIsBestFound
CHECK_DEADLOCK FALSE
