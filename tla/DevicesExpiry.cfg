SPECIFICATION Spec
CONSTANTS
    None = None
    Devices = {d1, d2}
    Requests = {r1, r2}
    TTL = 1
    MaxTime = 2
SYMMETRY Symmetry
PROPERTY TokensExpire
