SPECIFICATION Spec
CONSTANTS
    None = None
    MaxHandle = 4
    MaxRegs = 3
INVARIANTS
    TypeOK
    HandlesArePrivate
    VaultIsKept
    LockForgets
