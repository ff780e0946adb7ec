SPECIFICATION DivisionSpec
CONSTANTS
    MaxInstances = 3
    MaxOptions = 2
    Budgets <- MCBudgets
    WorkerCounts <- MCWorkerCounts
    Weights <- MCWeights
    MaxSplit = 2
    MinPerTask = 2
    MaxTasksPerWorker = 3
INVARIANTS BudgetIsDivided
CHECK_DEADLOCK FALSE
