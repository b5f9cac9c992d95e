SPECIFICATION FairSpec
CONSTANTS
    Inst = {i1, i2, i3, i4}
    NULL = NULL
    ReuseHandles = FALSE
    EngineType = {chromium}
    Wnd = {w1}
    Faults <- LossFaults
    MaxFaults = 2
    MaxStarts = 1
    MaxStops = 1
    MaxInits = 1
    NoTask = NoTask
CHECK_DEADLOCK FALSE
PROPERTIES
    ContainerReconnects
    EngineReconnects
    StartReported
