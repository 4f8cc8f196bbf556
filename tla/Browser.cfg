\* Two calls, of two tabs, or of one tab and the second with a wrong password or
\* code; a login, two refreshes and a logout; one answer lost or one request
\* failed.
CONSTANTS
    c1 = c1
    c2 = c2
    t1 = t1
    t2 = t2
    None = None
    Tab = {t1, t2}
    Call = {c1, c2}
    Placements <- MCPlacements
    Login = {1}
    Refresh = {2, 3}
    Logout = {4}
    Request = {1, 2, 3, 4}
    RefreshTtl = 3
    AccessTtl = 1
    MaxTime = 1
    MaxFaults = 1
    MaxLost = 1
SPECIFICATION BrowserSpec
INVARIANTS
    BrowserTypeOK
    NoFalseAlarm
    RunsOnce
    LogoutEmptiesJar
PROPERTIES
    CallsSettle
CHECK_DEADLOCK FALSE
