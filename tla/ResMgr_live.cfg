SPECIFICATION FairSpec
CONSTANTS
    Inst = {i1, i2, i3}
    Addr = {a1}
    NULL = NULL
    NoReq = NoReq
    ReuseHandles = FALSE
    Configured <- OnlyChromium
    MaxQueue = 1
INVARIANTS
    ToldIsRegistered
PROPERTIES
    LostEngineDropped
    OnlyLostEnginesDropped
