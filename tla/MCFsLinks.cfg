CONSTANTS
    p1 = p1
    p2 = p2
    None = None
    Procs = {p1, p2}
    First = p1
    NINODES = 4
    NINODE = 4
    Names = {"a", "b"}
    Syscalls <- MCSyscalls
    NewPaths <- MCNewPaths
    Images <- BareImages
    MaxCalls = 2
    MaxCrashes = 0
SPECIFICATION MCSpec
INVARIANT DiskLinks
