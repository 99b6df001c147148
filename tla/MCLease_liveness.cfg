SPECIFICATION FairSpec
CONSTANTS
    h1 = h1
    h2 = h2
    u1 = u1
    u2 = u2
    g1 = g1
    ad = ad
    Null = Null
    Timer = Timer
    Hosts = {h1, h2}
    HostIds = {h1, h2}
    Users = {u1, u2}
    SerialUsers = {u1, u2}
    Requests = {r1}
    Callbacks = {c1}
    Groups = {g1}
    group_id <- MCgroup_id
    UserGroups <- MCUserGroups
    GroupLimits <- MCGroupLimits
    lease_limit = 1
    Days = {0}
    Hours = {1}
    CallbackHours = {0, 1}
    InitialTimes <- MCOver
    MaxNow = 1
    MaxFailures = 1
CHECK_DEADLOCK FALSE
PROPERTIES
    RequestsAnswered
    ExpiredReleased
