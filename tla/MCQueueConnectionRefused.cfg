\* One refused connection attempt, after which the broker accepts every one.
SPECIFICATION FairSpec
CONSTANTS
    MaxReconnectAttempts = 3
    MaxFaults = 1
    Faults = {"refused"}
PROPERTIES
    Reconnects
CHECK_DEADLOCK FALSE
