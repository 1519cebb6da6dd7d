SPECIFICATION Spec
CONSTANTS
    t1 = t1
    t2 = t2
    u1 = u1
    u2 = u2
    h1 = h1
    c1 = c1
    c2 = c2
    Threads = {t1, t2}
    Users = {u1, u2}
    NoUser = NoUser
    Hints = {h1}
    NoHint = NoHint
    Tenants = {c1, c2}
    NoTenant = NoTenant
    Serves <- MCServes
    Logins <- MCLogins
    ControlPlane = {u2}
    RefreshAfter = 1
    Life = 2
    Retries = 2
    MaxTime = 2
    MaxFaults = 1
    LocalServer = TRUE
    MaxCalls = 2
    MaxLogins = 1
SYMMETRY Symmetry
INVARIANTS
    TypeOK
    RecordsKeepTheirHint
    HostedCallsKeepTheirTenant
    HandlesHaveTheirProject
PROPERTIES
    AnswersAreCurrent
CHECK_DEADLOCK FALSE
