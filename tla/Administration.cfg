\* Two administrators, one of them the demonstration account, an account that
\* may register, three requests and one demonstration script.
CONSTANTS
    a1 = a1
    a2 = a2
    a3 = a3
    r1 = r1
    r2 = r2
    r3 = r3
    d1 = d1
    None = None
    Account = {a1, a2, a3}
    Admins = {a1, a2}
    Members = {}
    Request = {r1, r2, r3}
    Seed = {d1}
    DemoAccounts <- MCDemoAccounts
    DemoRole <- MCDemoRole
    DemoPlan <- MCDemoPlan
    Plan = {"FREE", "PREMIUM"}
SPECIFICATION Spec
INVARIANTS
    LastAdminStays
    WithdrawalHolds
CHECK_DEADLOCK FALSE
SYMMETRY RequestSymmetry
