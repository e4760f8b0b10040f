SPECIFICATION Spec
CONSTANTS
    s1 = s1
    s2 = s2
    s3 = s3
    c1 = c1
    c2 = c2
    q1 = q1
    q2 = q2
    view = view
    None = None
    Requests = {q1, q2}
    Sessions = {s1, s2, s3}
    Codes = {c1, c2}
    Permissions = {view}
    Grantings <- MCGrantings
    MaxRequests = 4
    MaxChanges = 1
    MaxFaults = 1
SYMMETRY Symmetric
INVARIANTS
    OnlyTheActiveGetIn
    OneLoginPerCode
    EndedStaysEnded
    PermissionsAreEffective
CHECK_DEADLOCK FALSE
