\* Two deposits of one account, over the end of a month, with one failure.
CONSTANTS
    u1 = u1
    u2 = u2
    Upload = {u1, u2}
    Sizes = {1, 3, 4}
    MaxFileSize = 3
    Sample = 2
    Quota <- MCQuota
    MaxMonth = 2
    MaxFaults = 1
SPECIFICATION FairSpec
INVARIANTS
    RegisteredWhole
    OrphansAreUnderWay
PROPERTIES
    AloneWithinQuota
    OrphansCleaned
CHECK_DEADLOCK FALSE
