CONSTANTS
    p1 = p1
    p2 = p2
    q1 = q1
    q2 = q2
    b1 = b1
    b2 = b2
    b3 = b3
    b4 = b4
    c1 = c1
    c2 = c2
    d1 = d1
    f1 = f1
    f2 = f2
    o1 = o1
    o2 = o2
    o3 = o3
    x1 = x1
    Torn = Torn
    None = None
SPECIFICATION Spec
SYMMETRY Symmetry
INVARIANTS
    NoPanic
    DiskConsistent
    FilewriteRight
    CacheCoherent
    FilesCounted
    PagesOwnedOnce
    InterruptsNest
    NoReaderLeft
    ImageSound
    HeapSound
    ShellRight
    StringsRight
PROPERTIES
    ImplementsBytes
    ImplementsAddressSpace
    ImplementsLineInput
