SPECIFICATION ConfigSpec
CONSTANTS
    Bases <- MCBases
    Changes <- MCChanges
    MaxChanges = 2
INVARIANTS LayersResolved
