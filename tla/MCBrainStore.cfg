SPECIFICATION Spec
CONSTANTS
    a = a
    b = b
    f = f
    s1 = s1
    s2 = s2
    Items = {a, b}
    Memory = {a, b}
    Spaces = {s1, s2}
    SpaceOf <- MCSpaceOf
    Types = {"REFERENCED"}
    Clients = {}
    Capacity = 2
    EdgeRevs = 1
    HasCursors = TRUE
    MaxWrites = 2
    MaxLinks = 1
    MaxFaults = 1
INVARIANTS
    NothingMissed
PROPERTIES
    StoreImplemented
CHECK_DEADLOCK FALSE
