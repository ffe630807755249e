CONSTANTS
    p1 = p1
    p2 = p2
    None = None
    Procs = {p1, p2}
    First = p1
    NINODES = 4
    NINODE = 4
    Names = {"a", "b"}
    Syscalls <- MCSyscalls
    NewPaths <- MCNewPaths
    Images <- MCImages
    MaxCalls = 3
    MaxCrashes = 1
SPECIFICATION MCSpec
INVARIANTS
    NoOtherPanic
    OtherDiskLinks
    NoOtherOrphans
    ItableSound
