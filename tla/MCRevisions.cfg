SPECIFICATION Spec
CONSTANTS
    o1 = o1
    Objects = {o1}
    Tags = {"published"}
    Values = {"v"}
    Arts = {"m"}
    Queries <- MCQueries
    ToolQueries <- MCToolQueries
    Fresh = 1
    MaxRevs = 3
    MaxWrites = 3
    Words = {"p", "s", "i", "k"}
    Dashed = {}
    Numerals <- MCNumerals
    ZeroLed = {"0", "01"}
    MaxRevision = 8
    MaxSegments = 4
    TagTexts = {"published", "published=y", "latest"}
    CutAtEq <- MCCutAtEq
    Times = {}
    ArtNames = {"m"}
INVARIANTS
    TypeOK
    ReferencesAgree
    TagsAreRecent
    AttributeIsTrue
    ProvenanceIsWhole
CHECK_DEADLOCK FALSE
