SPECIFICATION FairSpec
CONSTANTS
    PathCount = 3
    Window = 2
    MaxExecutions = 2
    MaxLost = 1
    MaxTroubled = 1
    MayDelete = TRUE
INVARIANTS PlanOrder RecordTruthful CompletedIsCovered
PROPERTIES FirstExecutionKeeps ExecutionEnds
