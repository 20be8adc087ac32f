SPECIFICATION Spec
CONSTANTS
    empty = empty
    blank = blank
    raw = raw
    escaped = escaped
    twice = twice
    u1 = u1
    u2 = u2
    Texts = {empty, blank, raw, escaped, twice}
    Clean <- MCClean
    Empty = empty
    Statuses = {"applied", "offer"}
    Bad = bad
    Dates = {1, 2}
    Absent = Absent
    None = None
    Ids = {1, 2}
    Malformed = malformed
    Posts <- MCPosts
    Patches <- MCPatches
    Users = {u1, u2}
    Me = u1
    AllStatuses = all
INVARIANT
    TypeOK
PROPERTY
    PrivateSpec
