SPECIFICATION Spec
CONSTANTS
    None = None
    Clients = {c1, c2}
    Names = {n1}
    PendTTL = 2
    MaxTime = 3
    MaxIds = 3
    MaxRegs = 4
SYMMETRY Symmetry
INVARIANTS
    TypeOK
    WrapMatchesRecord
    SecretsReadable
    GrantedOnce
PROPERTY OldPasswordDiesOut
