SPECIFICATION FairSpec
CONSTANTS
    None = None
    Devices = {d1}
    Requests = {r1, r2}
    TTL = None
    MaxTime = 0
PROPERTY RevocationCompletes
