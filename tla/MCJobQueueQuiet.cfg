\* Undisturbed operation: one retryFailedJobs() call at a time, and refused
\* publishes as the only fault.
SPECIFICATION Spec
CONSTANTS
    Jobs = {j1, j2}
    Workers = {w1, w2}
    Retriers = {r1}
    MaxAttempts = 2
    RetryLimit = 1
    MaxMessages = 4
    MaxFaults = 2
    Faults = {"refused"}
    DataForms = {"object", "text"}
    NoJob = NoJob
SYMMETRY JobSymmetry
INVARIANTS
    DoneAtMostOnce
PROPERTIES
    ImplementsLifecycle
CHECK_DEADLOCK FALSE
