SPECIFICATION Spec
CONSTANTS
    x = x
    Calls = {c1, c2}
    Items = {i}
    Labels = {x}
    Published = published
    TagLists <- MCTagLists
    Sources = {s}
    MaxFaults = 0
PROPERTIES
    CorrectedTextIsNotRecalled
CHECK_DEADLOCK FALSE
