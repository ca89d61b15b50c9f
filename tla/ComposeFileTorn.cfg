SPECIFICATION Spec
CONSTANTS
    HttpPuts = {p1}
    Readers = {}
    Inodes = {i1, i2, i3}
    GitRepo = FALSE
    Poller = poller
    Hole = hole
    None = none
    long = long
    short = short
    bad = bad
    Contents <- MCContents
    Yaml <- MCYaml
    Size <- MCSize
INVARIANT ServedIsWhole
