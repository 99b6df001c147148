SPECIFICATION Spec
CONSTANTS
    Null = Null
    Users = {u1, u2}
    Tokens = {t1, t2, t3}
    WebRequests = {w1, w2, w3}
    ApiRequests = {a1}
    SerialCreators = {u1, u2}
    api_token_limit = 1
    MaxFailures = 1
SYMMETRY MCSymmetry
CHECK_DEADLOCK FALSE
INVARIANTS
    TypeOK
    TokenLimitForSerialCreators
    ServedOnlyIfEntitled
    ShownTokenWorks
PROPERTY
    AccessSpec
