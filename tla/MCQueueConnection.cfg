\* Up to six faults of every kind. Two attempts, so that the limit is reached:
\* a close timer and an error may both count one for the same outage.
SPECIFICATION FairSpec
CONSTANTS
    MaxReconnectAttempts = 2
    MaxFaults = 6
    Faults <- AllFaults
INVARIANTS
    TypeOK
    ConnectedMeansOpen
    SingleAttempt
    TimerOnlyWithoutConnection
PROPERTIES
    OrderlyCloseRecovers
\* A process that has closed its connection, or whose reconnection is stuck,
\* has nothing left to do.
CHECK_DEADLOCK FALSE
