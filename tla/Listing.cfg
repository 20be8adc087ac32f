SPECIFICATION FairSpec
CONSTANTS
    Ids = {1, 2, 3, 4}
    Dates = {1, 2}
    AskedSize = 5
    DefaultSize = 3
    MaxSize = 1
    MaxPages = 3
    None = None
INVARIANTS
    TypeOK
    ListingIsExact
    ArrivalsHideNothing
    DeparturesRepeatNothing
PROPERTIES
    ListingEnds
