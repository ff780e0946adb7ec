SPECIFICATION Spec
CONSTANTS
    Settings <- MCSettings
    TopScore = 3
    PriorityCeiling = 2
    CoverageCeiling = 3
    SeedCap = 4
    PerInstanceFrom = 12
    PerInstanceCap = 5
    ConstellationPercent = 25
    RepairPercent = 20
    RepairMin = 2
    LNSPercent = 10
    RefinePercent = 10
    PackingOverrun = 16
    UnlimitedNodes = 20
INVARIANTS LaterPhasesNeverRefused ReportIsCharge BestIsReturned
CHECK_DEADLOCK FALSE
