SPECIFICATION FairDispatch
CONSTANTS
    FindingCount = 3
    Concurrency = 2
    MayCancel = TRUE
    MayDelete = TRUE
    MayTimeOut = TRUE
CHECK_DEADLOCK FALSE
INVARIANTS HandledOnce NothingLeftPending
PROPERTIES RunEnds
