SPECIFICATION Spec
CONSTANTS
    Requests = {r1, r2}
    Handlers = {h1, h2}
    Window = 2
    Ttl = 3
    Skews <- ClockSkews
    Lag = 1
    MaxTime = 5
    None = none
SYMMETRY HandlerSymmetry
VIEW LiveState
CHECK_DEADLOCK FALSE
INVARIANT AtMostOnce
INVARIANT AtMostTwice
INVARIANT CacheIsSwept
