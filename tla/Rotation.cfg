\* Two files, one of them deposited meanwhile, one link; two executions at once,
\* one of them cut short.
CONSTANTS
    i1 = i1
    j1 = j1
    j2 = j2
    k1 = k1
    k2 = k2
    Absent = Absent
    Malformed = Malformed
    File = {1, 2}
    Share = {3}
    First = {2, 3}
    Instance = {i1}
    Job = {j1, j2}
    Key = {k1, k2}
    OldKey = k1
    Restarts = TRUE
    BatchSize = 1
    MaxFaults = 1
SPECIFICATION FairSpec
INVARIANTS
    KeysSuffice
    ServiceReads
    NothingLeft
PROPERTIES
    NoWayBack
    Resumes
CHECK_DEADLOCK FALSE
