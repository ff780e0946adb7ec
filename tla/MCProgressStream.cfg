SPECIFICATION Spec
CONSTANTS
    w1 = w1
    w2 = w2
    Worker <- MCWorker
    MaxRank = 3
    NStages = 2
    Throttles = TRUE
SYMMETRY Symmetry
INVARIANTS ReturnedBeatsShown
CHECK_DEADLOCK FALSE
PROPERTIES ShownNeverWorsens
