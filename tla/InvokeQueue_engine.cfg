SPECIFICATION Spec
CONSTANTS
    Inst = {i1, i2, i3, i4, i5}
    NULL = NULL
    ReuseHandles = FALSE
    EngineType = {chromium}
    Wnd = {w1}
    Faults <- EngineFaults
    MaxFaults = 2
    MaxStarts = 2
    MaxStops = 1
    MaxInits = 2
    NoTask = NoTask
CONSTRAINT StoppedFirst
SYMMETRY Symmetry
CHECK_DEADLOCK FALSE
INVARIANTS
    TypeOK
    NoOrphanHandle
    EngineWatched
    HeldNotClosed
    LoadsReplayed
