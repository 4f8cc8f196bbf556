\* Five requests to one account, with a challenge of two tries, one failure.
CONSTANTS
    q1 = q1
    q2 = q2
    q3 = q3
    q4 = q4
    q5 = q5
    None = None
    Request = {q1, q2, q3, q4, q5}
    MaxTries = 2
    LinkTtl = 1
    CodeTtl = 1
    MaxTime = 1
    MaxFaults = 1
SPECIFICATION Spec
INVARIANTS
    TriesBounded
    SessionsBounded
    OpenCodesBounded
    OpenLinksBounded
    NotLockedOut
CHECK_DEADLOCK FALSE
SYMMETRY RequestSymmetry
