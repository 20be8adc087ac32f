SPECIFICATION Spec
CONSTANTS
    c4 = c4
    c6 = c6
    d6 = d6
    p = p
    q = q
    net = net
    Clients <- MCClients
    Proxies <- MCProxies
    Allocation <- MCAllocation
    Dual <- MCDual
    Claims <- MCClaims
    Opaque = opaque
    None = none
    MaxHops = 3
    MaxCounted = 2
INVARIANTS
    TypeOK
    ResolvesTheClient
    OneBucketPerClient
CHECK_DEADLOCK FALSE
