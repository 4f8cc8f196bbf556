\* Four requests of one account, over the life of their tokens, one failure.
CONSTANTS
    q1 = q1
    q2 = q2
    q3 = q3
    q4 = q4
    None = None
    Request = {q1, q2, q3, q4}
    RefreshTtl = 2
    AccessTtl = 1
    MaxTime = 3
    MaxFaults = 1
SPECIFICATION Spec
INVARIANTS
    LoggedOutAccessRefused
    OneLiveToken
    SurvivorsCrossed
PROPERTIES
    ExtinctForGood
CHECK_DEADLOCK FALSE
SYMMETRY RequestSymmetry
