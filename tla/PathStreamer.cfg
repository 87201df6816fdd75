SPECIFICATION FairSpec
CONSTANTS
    PathSeq <- Repeated
    BatchSize = 1
    MayFail = TRUE
INVARIANTS TypeOK
PROPERTIES ImplementsPathStream CallsReturn
