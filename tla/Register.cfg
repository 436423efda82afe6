SPECIFICATION RegisterSpec
CONSTANTS
    None = None
    Keys = {k1, k2}
    Attempts = 2
    Window = 2
    MaxTime = 4
    MaxCalls = 4
    Requests = {r1, r2, r3}
SYMMETRY Symmetry
INVARIANTS
    TypeOK
    Throttled
    RegisterTypeOK
    OneAccount
    CreatedIsTheAccount
    SomeoneWins
PROPERTY RefusedForCause
