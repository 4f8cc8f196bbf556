\* Two links over two files, a download, and the purge reading one file at a
\* time.
CONSTANTS
    f1 = f1
    f2 = f2
    s1 = s1
    s2 = s2
    d1 = d1
    p1 = p1
    None = None
    File = {f1, f2}
    Share = {s1, s2}
    Download = {d1}
    Remover = {}
    Purge = {p1}
    CreatedAt <- MCCreatedAt
    Retention <- MCRetention
    Lifetimes = {1}
    Burns = {TRUE}
    Start = 0
    MaxTime = 2
    MaxFaults = 0
    BatchSize = 1
SPECIFICATION Spec
INVARIANTS
    EraseSparesKnownLinks
    PurgeSparesRecentFiles
CHECK_DEADLOCK FALSE
SYMMETRY EraseSymmetry
