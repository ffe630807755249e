CONSTANTS
    Procs = {p1, p2}
    InitProc = p1
    Blocks = {b1, b2}
    Data = {d1, d2}
    Torn = Torn
    None = None
    MAXOPBLOCKS = 2
    OPBLOCKS = 1
    LOGBLOCKS = 4
SPECIFICATION Spec
SYMMETRY Symmetry
INVARIANTS
    IInv
PROPERTIES
    ImplementsTransactions
    WriteAhead
