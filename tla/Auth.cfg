SPECIFICATION FairSpec
CONSTANTS
    u1 = u1
    u2 = u2
    p1 = p1
    p2 = p2
    weak = weak
    s1 = s1
    r1 = r1
    r2 = r2
    Users = {u1, u2}
    Passwords = {p1, p2, weak}
    Weak = {weak}
    Sids = {s1}
    Reqs = {r1, r2}
    None = None
INVARIANTS
    TypeOK
    HandedOutSessionsExpire
    ProvedPassword
    ContextUserIsHolder
    EndedSessionsAreGone
PROPERTIES
    LifecycleSpec
    IssuedSessionsEnd
    RequestsEnd
