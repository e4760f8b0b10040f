\* Three clients side by side, one retry of each, three faults. Liveness: no
\* symmetry.
SPECIFICATION RedisFairSpec
CONSTANTS
    Clients = {c1, c2, c3}
    None = None
    MaxRetries = 1
    MaxRedisFaults = 3
INVARIANTS
    PagesAreToldTheTruth
PROPERTIES
    CacheComesBack
CHECK_DEADLOCK FALSE
