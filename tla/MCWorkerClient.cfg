SPECIFICATION FairSpec
CONSTANTS
    r1 = r1
    r2 = r2
    r3 = r3
    r4 = r4
    cat1 = cat1
    cat2 = cat2
    Catalog <- MCCatalog
    MaxWorkers = 3
CHECK_DEADLOCK FALSE
CONSTANT Request <- MCRequest
INVARIANTS BeliefIsTrue WorkerNeverSurprised ResultUsesOwnCatalog
PROPERTIES CallSettles
