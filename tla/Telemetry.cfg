SPECIFICATION FairSpec
CONSTANTS
    Period = 3
    Timeout = 9
    Work = 1
    Horizon = 15
INVARIANT Fresh
PROPERTY CatchesUp
