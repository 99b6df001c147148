SPECIFICATION FairSpec
CONSTANTS
    Null = Null
    Timer = Timer
    Connections = {c1, c2}
    Requests = {r1, r2}
    UsedRoutes <- MCSomeRoutes
    MaxNotices = 2
    NegativeLimits = TRUE
INVARIANTS
    TypeOK
    NobodyStuck
PROPERTIES
    RequestEnds
    RoundEnds
