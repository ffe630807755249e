CONSTANTS
    NPROC = 3
    CPUs = {c1, c2}
    None = None
    KillZero = FALSE
SPECIFICATION Spec
SYMMETRY Symmetry
INVARIANTS
    OneCpuEach
    FreedOffCpu
    ParentsLive
    NoLostWakeup
