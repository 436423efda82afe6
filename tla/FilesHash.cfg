SPECIFICATION Spec
CONSTANTS
    None = None
    Uuids = {f1}
    Removals = {d1, d2}
    Downloads = {g1}
    Bodies = {0, 2, 3}
    Limit = 2
SYMMETRY Symmetry
INVARIANT HashMatches
