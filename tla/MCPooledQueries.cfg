SPECIFICATION FairSpec
CONSTANTS
    c1 = c1
    c2 = c2
    r1 = r1
    r2 = r2
    Connections = {c1, c2}
    Requests = {r1, r2}
    None = None
    MaxFaults = 1
    Mixes <- MCMixes
    Initial <- MCInitial
INVARIANTS
    AloneReplacesWhole
    OneGetsTheName
PROPERTIES
    RequestsEnd
    LeftTransactionsEnd
CHECK_DEADLOCK FALSE
