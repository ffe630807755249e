CONSTANTS
    Procs = {p1, p2, p3}
    Intr = Intr
    None = None
    Data = {d1, d2}
    NUM = 8
    IDXS = 16
SPECIFICATION Spec
VIEW View
SYMMETRY Symmetry
INVARIANTS
    TransferDone
    DescriptorsOwned
    CompletionsAwaited
