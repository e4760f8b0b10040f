\* Four calls in flight together: as many as the threshold, so that a whole
\* window of outcomes can be stale, and one more. Liveness: no symmetry.
SPECIFICATION FairSpec
CONSTANTS
    Calls = {c1, c2, c3, c4}
    FailureThreshold = 3
    RecoveryTimeout = 2
    None = None
INVARIANTS
    TypeOK
    CountsConsecutiveFailures
    TripsAtThreshold
    PeriodsStartClean
PROPERTIES
    TransitionsAreEarned
    OpenShieldsTheService
    Recovers
