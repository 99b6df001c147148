SPECIFICATION FairSpec
CONSTANTS
    Null = Null
    Service = Service
    Nobody = Nobody
    People = {p1}
    Calls = {c1, c2}
    Connections = {k1, k2, k3}
    MaxTroubles = 1
    Edits = {"missing"}
    Questions <- MCQuestions
INVARIANTS
    TypeOK
    SearchesAsService
    OkOnlyWithPassword
PROPERTIES
    DirectorySpec
    Restored
    BrokenHandleGoes
    CallsAnswered
