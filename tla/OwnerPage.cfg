\* Two people one after the other at one page, two files, two links, two calls
\* under way, one of which may be lost.
CONSTANTS
    a = a
    b = b
    f1 = f1
    f2 = f2
    l1 = l1
    l2 = l2
    c1 = c1
    c2 = c2
    None = None
    Account = {a, b}
    File = {f1, f2}
    Link = {l1, l2}
    Earlier <- MCEarlier
    Slot = {c1, c2}
    MaxLost = 1
    MaxPresses = 6
SPECIFICATION Spec
INVARIANTS
    TypeOK
    ListFollows
    RevokedEverywhere
    OneDraftPerFile
    ButtonsReturn
CHECK_DEADLOCK FALSE
