SPECIFICATION Spec
CONSTANTS
    Nodes = {n1, n2}
    Versions = {v1, v2}
    None = none
    Torn = torn
    Daemons = {agent}
    Agent = agent
    BINARIES = {agent}
    Ops = {"setup", "register", "config", "unregister", "reset"}
SYMMETRY NodeSymmetry
INVARIANT SuccessMeansInstalled
INVARIANT FirstSuccessMeansReady
INVARIANT NodeKept
INVARIANT CleanAfterReset
