SPECIFICATION Spec
CONSTANTS
    Null = Null
    Hosts = {h1}
    Users = {u1, u2}
    Wanted <- MCWanted
    LeaseHours = {1}
    ExtendHours = {1}
    FirstEnds <- MCFirstEnds
    MaxNow = 1
    MaxTroubles = 0
CHECK_DEADLOCK FALSE
INVARIANTS
    NoPanic
