SPECIFICATION Spec
CONSTANTS
    Users = {u1, u2, u3}
    Slots = {s1, s2}
    NoSlot = NoSlot
    Accounts <- MCAccounts
    SecondTicks = 2
    u1 = u1
    u2 = u2
    u3 = u3
    r1 = r1
    r2 = r2
    f1 = f1
    f2 = f2
    f3 = f3
    Runs = {r1, r2}
    Findings = {f1, f2, f3}
    NoFinding = NoFinding
    NoUser = NoUser
    RunOf <- MCRunOf
    Verdict <- MCVerdict
    CoderStatus <- MCCoderStatus
    Bodies <- MCBodyRecords
    Workloads <- MCWorkloads
    MaxRequests <- MCMaxRequests
    MaxWrites = 1
SYMMETRY MCSymmetry
CHECK_DEADLOCK FALSE
INVARIANTS AdminRemains SessionsClosed RecordsWhole TilesAddUp
