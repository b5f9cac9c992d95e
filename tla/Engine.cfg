SPECIFICATION Spec
CONSTANTS
    Name = {n1}
    MaxBrowsers = 2
    MaxCalls = 2
    Inst = {i1, i2}
    NULL = NULL
    ReuseHandles = TRUE
    Wnd = {w1, w2}
    Requester = {r1, r2}
    NoEntry = NoEntry
    MaxLoads = 2
    MaxFaults = 1
    Ctx = {c1, c2}
    NoCtx = NoCtx
    MaxMessages = 1
SYMMETRY Symmetry
CHECK_DEADLOCK FALSE
INVARIANTS
    TypeOK
    HandlesRecorded
    BrowsersRecorded
    HeardByLoader
    CallbacksAlive
    EnterExitPaired
    CallsConserved
    CallsInOrder
