SPECIFICATION Spec
CONSTANTS
    None = None
    Clients = {c1, c2}
    Names = {n1}
    PendTTL = 2
    MaxTime = 3
    MaxIds = 2
    MaxRegs = 2
SYMMETRY Symmetry
INVARIANT PendingsExpire
