SPECIFICATION Spec
CONSTANTS
    raw = raw
    escaped = escaped
    capped = capped
    Texts <- MCTexts
    Clean <- MCClean
    Ids = {i1, i2}
    None = none
    PageSize = 1
    MaxPages = 2
    MaxDrafts = 2
    MaxTrouble = 1
SYMMETRY Symmetry
INVARIANTS
    TypeOK
    RowsAreDocs
    OneDocPerDraft
PROPERTIES
    OnlyAskedChanges
CHECK_DEADLOCK FALSE
