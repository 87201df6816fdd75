SPECIFICATION FairSpec
CONSTANTS
    WorkerCount = 2
    PathCount = 2
    MaxRaises = 1
    MaxKills = 1
INVARIANTS TypeOK CrashedIsNotRun ClaimIsCurrent
PROPERTIES ImplementsPathPool FuturesResolve
