SPECIFICATION Spec
CONSTANTS
    HttpPuts = {p1}
    Readers = {r1}
    Inodes = {i1, i2, i3, i4}
    GitRepo = FALSE
    Poller = poller
    Hole = hole
    None = none
    long = long
    short = short
    bad = bad
    Contents <- MCContents
    Yaml <- MCYaml
    Size <- MCSize
INVARIANT FoundStaysFound
PROPERTY SoloWriteIsWhole
VIEW LiveState
SYMMETRY InodeSymmetry
