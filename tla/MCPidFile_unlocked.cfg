SPECIFICATION Spec
CONSTANTS
    Procs = {p1, p2}
    None = None
    MaxFiles = 2
SYMMETRY Symmetry
INVARIANT DestroyedLocked
CHECK_DEADLOCK FALSE
