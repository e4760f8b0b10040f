\* Liveness while processes crash, with or without the requests they serve, and
\* publishes are refused, kept but refused, or lost. No symmetry.
\* MaxMessages leaves room for every send and every retry.
SPECIFICATION FairSpec
CONSTANTS
    Jobs = {j1}
    Workers = {w1, w2}
    Retriers = {r1}
    MaxAttempts = 1
    RetryLimit = 1
    MaxMessages = 2
    MaxFaults = 2
    Faults = {"refused", "backpressure", "unconfirmed", "workerCrash", "senderCrash"}
    DataForms = {"object", "text"}
    NoJob = NoJob
PROPERTIES
    NewJobsSettle
    MessagesSettle
CHECK_DEADLOCK FALSE
