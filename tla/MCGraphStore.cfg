SPECIFICATION Spec
CONSTANTS
    a = a
    b = b
    c = c
    s1 = s1
    s2 = s2
    Items = {a, b, c}
    Spaces = {s1, s2}
    SpaceOf <- MCSpaceOf
    Types = {"REFERENCED"}
    Contents = {1, 2}
    Counts = {1}
INVARIANTS
    StoreInv
PROPERTIES
    IdsAreStable
    EdgesLeaveWithANode
