SPECIFICATION Spec
CONSTANTS
    Node <- MCNode
    Stages <- MCStages
    StageOf <- MCStageOf
    MaxNodes = 3
    StageLimit <- MCStageLimit
    InitialDiagnosticMax = 0
    DiagnosticQuotas <- MCQuotas
INVARIANTS NoOverspend
CHECK_DEADLOCK FALSE
