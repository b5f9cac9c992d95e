SPECIFICATION Spec
CONSTANTS
    Inst = {i1, i2, i3}
    Addr = {a1, a2}
    NULL = NULL
    NoReq = NoReq
    ReuseHandles = FALSE
    Configured <- OnlyChromium
    MaxQueue = 2
INVARIANTS
    OneRecordPerRequester
