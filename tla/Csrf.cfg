SPECIFICATION FairSpec
CONSTANTS
    Calls = {c1, c2}
    Old = old
    None = none
    MaxKey = 2
INVARIANTS
    TypeOK
    CookiesInStep
    RefusedWasDisturbed
PROPERTIES
    CallsAreOneShot
    CallsEnd
CHECK_DEADLOCK FALSE
