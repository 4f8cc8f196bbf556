\* One link over two files, two downloads, an owner who may delete a file, one
\* failure of whatever request.
CONSTANTS
    f1 = f1
    f2 = f2
    s1 = s1
    d1 = d1
    d2 = d2
    r1 = r1
    None = None
    File = {f1, f2}
    Share = {s1}
    Download = {d1, d2}
    Remover = {r1}
    Purge = {}
    CreatedAt <- MCCreatedAt
    Retention <- MCRetention
    Lifetimes = {1}
    Burns = {TRUE, FALSE}
    Start = 0
    MaxTime = 1
    MaxFaults = 1
    BatchSize = 1
SPECIFICATION FairSpec
INVARIANTS
    SingleTransmission
    RowsHaveContent
    OrphansArePending
PROPERTIES
    SingleUseSpec
    TransmittedLinkConsumed
    BurnedFilesErased
CHECK_DEADLOCK FALSE
