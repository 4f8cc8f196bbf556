\* Two routes with rules of their own, one address.
CONSTANTS
    a1 = a1
    Route = {"login", "verify"}
    Address = {a1}
    Limit <- MCLimit
    Window <- MCWindow
    CleanupEvery = 2
    MaxTime = 6
    MaxAttempts = 3
SPECIFICATION Spec
INVARIANTS
    SlidingBound
    RetryAfterHolds
CHECK_DEADLOCK FALSE
