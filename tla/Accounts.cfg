SPECIFICATION FairSpec
CONSTANTS
    ada = ada
    Ada = Ada
    bob = bob
    d1 = d1
    d2 = d2
    d3 = d3
    p1 = p1
    p2 = p2
    Addresses = {ada, Ada, bob}
    Fold <- MCFold
    Ids = {d1, d2, d3}
    Procs = {p1, p2}
    UsersCollection = "users"
    MaxDeaths = 2
    None = None
INVARIANTS
    TypeOK
    OneAccountPerAddress
    EveryAccountIsFound
    SecondApplicationAllowed
    SignUpAnswersAreTrue
    OnlyDuplicatesBlock
PROPERTIES
    RestartsConverge
