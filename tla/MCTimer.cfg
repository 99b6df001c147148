SPECIFICATION FairSpec
CONSTANTS
    Null = Null
    Hosts = {h1, h2}
    Users = {u1, u2}
    Wanted <- MCWanted
    LeaseHours = {0, 1}
    ExtendHours = {1}
    FirstEnds <- MCFirstEnds
    MaxNow = 2
    MaxTroubles = 1
CHECK_DEADLOCK FALSE
INVARIANTS
    TypeOK
    SuppressedOnlyIfTold
    NoSecondNotice
PROPERTIES
    EventuallyTold
