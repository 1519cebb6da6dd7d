SPECIFICATION FairSpec
CONSTANTS
    p1 = p1
    p2 = p2
    Callers = {p1, p2}
    MaxAttempts = 2
    a = a
    b = b
    none = none
    Ids = {a, b}
    NoId = none
    Requests <- MCRequests
INVARIANTS
    ChainTypeOK
    ChargedOnce
    ExpiryIsRepaired
PROPERTIES
    CallsEnd
