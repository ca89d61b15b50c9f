SPECIFICATION FairSpec
CONSTANTS
    MaxCommands = 1
    MaxFaults = 1
    Default = 2
    Hints = {}
    NoHint = nohint
    Driven = FALSE
    Panics = {}
    MAX_BACKOFF_SECS = 30
PROPERTY ListenerSubscribes
