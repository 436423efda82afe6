SPECIFICATION FairSpec
CONSTANTS
    None = None
    Requests = {r1, r2}
    Lists = {"devices", "files"}
    Order <- MCOrder
    MaxEdits = 1
INVARIANTS
    TypeOK
    StalenessBounded
PROPERTY Settles
