SPECIFICATION DeploySpec
CONSTANTS
    MaxCommands = 5
    MaxFaults = 1
    Default = 2
    Hints = {}
    NoHint = nohint
    \* The listener only adds polls that the timer makes as well.
    Driven = FALSE
    MAX_BACKOFF_SECS = 1
    Puts = {1, 3}
    Activates = {2, 5}
    Panics = {2}
    Handlers = {h1}
    Poller = poller
    Nobody = nobody
    Procs = {p1, p2}
    Mixed = mixed
SYMMETRY Symmetry
\* A panic ends the loop, and nothing may be left to do.
CHECK_DEADLOCK FALSE
INVARIANT DeployTypeOK
INVARIANT FileInOrder
INVARIANT CompletedIsDeployed
INVARIANT EndToEnd
