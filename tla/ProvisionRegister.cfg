SPECIFICATION Spec
CONSTANTS
    Nodes = {n1, n2}
    Versions = {v1, v2}
    None = none
    Torn = torn
    Daemons = {agent}
    Agent = agent
    BINARIES = {agent}
    Ops = {"register"}
SYMMETRY NodeSymmetry
INVARIANT RegisteredIsReadable
