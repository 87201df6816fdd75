SPECIFICATION PathsSpec
CONSTANTS
    Functions = {1, 2, 3, 4}
    External = {4}
    NoClass = NoClass
    NameOf <- MCNameOf
    ClassOf <- MCClassOf
    FoundAt <- MCFoundAt
    SinkKind <- MCSinkKind
    Decorators <- MCDecorators
    Registered = {3}
    NameKind <- MCNameKind
    CallSets <- MCCallSets
    Depths = {2, 4}
    Counts = {0, 2}
    Verdicts = {"Valid", "Inconclusive"}
    MaxAudits = 2
CHECK_DEADLOCK FALSE
INVARIANT ReachableIsEnumerated
