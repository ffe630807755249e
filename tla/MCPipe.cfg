CONSTANTS
    Procs = {p1, p2, p3}
    Creator = p1
    Byte = {x, y}
    PIPESIZE = 2
    UINTS = 4
    MaxN = 2
    Kills = TRUE
    None = None
SPECIFICATION Spec
CHECK_DEADLOCK FALSE
SYMMETRY Symmetry
INVARIANTS
    NoUseAfterFree
    WriterSleepsOnlyWhenFull
PROPERTIES
    ImplementsByteQueue
