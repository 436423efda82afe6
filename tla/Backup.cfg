SPECIFICATION BackupSpec
CONSTANTS
    None = None
    Uuids = {f1, f2}
    Removals = {d1, d2}
    Downloads = {g1}
    Bodies = {0, 2, 3}
    Limit = 2
SYMMETRY Symmetry
CONSTRAINT Few
INVARIANTS
    BackupTypeOK
    RowHasObject
    OrphansExplained
    AlmostWhole
    Verdicts
    SnapshotHoldsUp
