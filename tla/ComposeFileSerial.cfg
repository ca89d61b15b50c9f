SPECIFICATION SerialSpec
CONSTANTS
    HttpPuts = {p1}
    Readers = {r1}
    Inodes = {i1, i2, i3, i4}
    GitRepo = TRUE
    Poller = poller
    Hole = hole
    None = none
    long = long
    short = short
    bad = bad
    Contents <- MCContents
    Yaml <- MCYaml
    Size <- MCSize
INVARIANT ServedIsWhole
INVARIANT ReaderSeesWhole
INVARIANT HistoryIsWhole
PROPERTY Atomic
VIEW LiveState
SYMMETRY InodeSymmetry
