SPECIFICATION Spec
CONSTANTS
    r1 = r1
    r2 = r2
    r3 = r3
    Reqs = {r1, r2, r3}
    Policy <- MCPolicy
    Endpoints <- MCEndpoints
    Second = 2
    MaxTime = 3
SYMMETRY Symmetry
INVARIANT EveryWaitCoversRefill
CHECK_DEADLOCK FALSE
