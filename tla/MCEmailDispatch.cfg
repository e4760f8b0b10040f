SPECIFICATION FairSpec
CONSTANTS
    code = code
    first = first
    second = second
    Codes = {code}
    Welcomes = {first, second}
    Occasions <- MCOccasions
    MaxFaults = 2
INVARIANTS
    MailsLeaveATrace
    MailedOnce
PROPERTIES
    CallersComeBack
    QueuedMailsSettle
CHECK_DEADLOCK FALSE
