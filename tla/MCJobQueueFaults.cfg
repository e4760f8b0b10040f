\* Every kind of fault, up to three of them, on one job that two administrators
\* retry at the same time and two workers consume.
SPECIFICATION Spec
CONSTANTS
    Jobs = {j1}
    Workers = {w1, w2}
    Retriers = {r1, r2}
    MaxAttempts = 1
    RetryLimit = 1
    MaxMessages = 2
    MaxFaults = 3
    Faults <- AllFaults
    DataForms = {"object", "text"}
    NoJob = NoJob
SYMMETRY JobSymmetry
INVARIANTS
    VerdictMatchesCallback
    OnlyTheHolderSettles
    CompletedMeansDone
    AttemptsBounded
CHECK_DEADLOCK FALSE
