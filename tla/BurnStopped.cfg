\* One single-use link over two files, two downloads, an owner who deletes one
\* of them, no failure.
CONSTANTS
    f1 = f1
    f2 = f2
    s1 = s1
    d1 = d1
    d2 = d2
    r1 = r1
    None = None
    File = {f1, f2}
    Share = {s1}
    Download = {d1, d2}
    Remover = {r1}
    Purge = {}
    CreatedAt <- MCCreatedAt
    Retention <- MCRetention
    Lifetimes = {1}
    Burns = {TRUE}
    Start = 0
    MaxTime = 0
    MaxFaults = 0
    BatchSize = 1
SPECIFICATION FairSpec
PROPERTIES
    ConsumedFilesErased
CHECK_DEADLOCK FALSE
