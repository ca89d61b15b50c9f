SPECIFICATION FairSpec
CONSTANTS
    MaxCommands = 3
    MaxFaults = 3
    Default = 2
    Hints = {0, 30}
    NoHint = nohint
    Driven = TRUE
    Panics = {2}
    MAX_BACKOFF_SECS = 30
\* A panic ends the loop, and nothing may be left to do.
CHECK_DEADLOCK FALSE
INVARIANT TypeOK
INVARIANT ExecutionsAccounted
INVARIANT InOrder
INVARIANT NoLostWakeUp
PROPERTY Promise
PROPERTY ReportedUnlessEnded
PROPERTY WokenIsFetched
