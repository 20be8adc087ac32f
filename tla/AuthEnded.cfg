SPECIFICATION Spec
CONSTANTS
    u1 = u1
    u2 = u2
    p1 = p1
    p2 = p2
    weak = weak
    s1 = s1
    r1 = r1
    r2 = r2
    Users = {u1}
    Passwords = {p1, p2}
    Weak = {}
    Sids = {s1}
    Reqs = {r1, r2}
    None = None
PROPERTY EndedSessionsAreRefused
