SPECIFICATION Spec
CONSTANTS
    Builders = {b1, b2}
    Trees = {1, 2}
    Enriched = {1}
    Sinks = {"a", "b"}
    FirstSinks = "b"
    Rank <- MCRank
    MaxBuilds = 2
    MaxFaults = 1
SYMMETRY BuilderSymmetry
CHECK_DEADLOCK FALSE
INVARIANTS CacheSound ReturnedIsComplete AuditMissesNothing
