\* Every operation, two requests, of any kind, at a time.
SPECIFICATION FairSpec
CONSTANTS
    m1 = m1
    m2 = m2
    Env = Env
    None = None
    r1 = r1
    r2 = r2
    ModelOrder <- MCModelOrder
    Requests = {r1, r2}
    Operations <- MCAllOperations
    Settings = {m2, None}
    MaxMessages = 6
    MaxRequests = 2
    MaxEvents = 1
INVARIANTS
    OneModelPerRequest
PROPERTIES
    NoAnswerOutlivesItsQuestion
    RequestsAreAnswered
CHECK_DEADLOCK FALSE
