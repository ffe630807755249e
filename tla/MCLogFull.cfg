CONSTANTS
    Procs = {p1, p2, p3}
    InitProc = p1
    Blocks = {b1, b2, b3}
    Data = {d1}
    Torn = Torn
    None = None
    MAXOPBLOCKS = 1
    OPBLOCKS = 1
    LOGBLOCKS = 3
SPECIFICATION Spec
INVARIANTS
    NoPanic
