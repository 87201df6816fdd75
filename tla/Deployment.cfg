SPECIFICATION Spec
CONSTANTS
    Workspaces = {w1, w2}
    Home = w1
    Passwords = {p1, p2}
    Heads <- MCHeads
    Minimum = 2
    MaxCommands = 2
    MaxFaults = 1
    MaxEdits = 1
    MaxEvents = 3
INVARIANTS NothingStaleInUse
PROPERTIES  AdviceWorks
