SPECIFICATION Spec
CONSTANTS
    Null = Null
    h1 = h1
    h2 = h2
    g1 = g1
    g2 = g2
    Hosts = {h1, h2}
    Users = {u1, u2}
    Groups = {g1, g2}
    group_id <- MCgroup_id
    Lists = {l1}
SYMMETRY MCSymmetry
INVARIANTS
    TypeOK
    ShownLeaseWasHeld
    FilteredShowsLeases
