SPECIFICATION Spec
CONSTANTS
    Inst = {i1, i2}
    Addr = {a1}
    NULL = NULL
    NoReq = NoReq
    ReuseHandles = FALSE
    Configured <- OnlyChromium
    MaxQueue = 1
INVARIANTS
    UnusedEngineStopped
