SPECIFICATION Spec
CONSTANTS
    Inst = {i1, i2, i3, i4, i5}
    NULL = NULL
    ReuseHandles = FALSE
    EngineType = {chromium}
    Wnd = {w1}
    Faults <- BrokerFaults
    MaxFaults = 2
    MaxStarts = 1
    MaxStops = 1
    MaxInits = 2
    NoTask = NoTask
SYMMETRY Symmetry
CHECK_DEADLOCK FALSE
INVARIANTS
    ContainerWatched
PROPERTIES
    WorkingKept
