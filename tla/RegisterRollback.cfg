\* One deposit, one failure of the database.
CONSTANTS
    u1 = u1
    Upload = {u1}
    Sizes = {1, 3, 4}
    MaxFileSize = 3
    Sample = 2
    Quota <- MCQuota
    MaxMonth = 1
    MaxFaults = 1
SPECIFICATION Spec
INVARIANTS
    RowsHaveContent
CHECK_DEADLOCK FALSE
