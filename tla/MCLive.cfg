CONSTANTS
    p1 = p1
    p2 = p2
    p3 = p3
    b1 = b1
    b2 = b2
    c1 = c1
    c2 = c2
    d1 = d1
    x = x
    y = y
    Torn = Torn
    None = None
    Intr = Intr
SPECIFICATION Spec
CHECK_DEADLOCK FALSE
INVARIANTS
    SleepMutex
    NoLostWakeup
PROPERTIES
    Quiesces
    AllReaped
    RequestsReturn
    PipelineEnds
    WritesEnd
    EveryoneLocks
