CONSTANTS
    Keys = {k1, k2}
    Analyzers = 2
    Validators = 2
    Exploiters = 2
    Cap = 2
    MaxRounds = 2
    Attempts = 2
SPECIFICATION Spec
CHECK_DEADLOCK FALSE
INVARIANTS FindingsFaithful CallsAccounted
PROPERTIES ChainEnds
