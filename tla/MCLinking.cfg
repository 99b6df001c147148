SPECIFICATION Spec
CONSTANTS
    Null = Null
    Users = {u1, u2}
    Hosts = {h1, h2}
    Accounts = {t1, t2}
SYMMETRY MCSymmetry
INVARIANTS
    TypeOK
    ExtendsOnlyCoded
