CONSTANTS
    NPROC = 3
    CPUs = {c1, c2}
    None = None
    KillZero = TRUE
SPECIFICATION Spec
SYMMETRY Symmetry
INVARIANTS
    FreeNotKilled
