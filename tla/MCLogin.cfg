SPECIFICATION Spec
CONSTANTS
    Null = Null
    People = {p1, p2}
    Requests = {r1, r2}
    Browsers = {b1, b2}
    MaxUsers = 2
    Edits = {"missing", "whole"}
SYMMETRY MCSymmetry
INVARIANTS
    TypeOK
    OneRowPerPerson
    ServedOnlyProved
PROPERTY
    SessionsSpec
