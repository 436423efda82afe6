SPECIFICATION Spec
CONSTANTS
    None = None
    MaxHandle = 4
    MaxRegs = 3
INVARIANT OpenUntilLocked
