SPECIFICATION FairSpec
CONSTANTS
    Runs = {"r1", "r3"}
    FindingIds = {"F-0001"}
    ProjectOf <- MixedProjects
    MaxConcurrent = 1
    MaxJobs = 2
    MaxRestarts = 1
    MaxRetries = 1
    Invocations = {"i1"}
INVARIANTS StoreConsistent VerdictIsForKey
PROPERTIES TerminalIsFinal JobSettles
