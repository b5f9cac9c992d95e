SPECIFICATION Spec
CONSTANTS
    Inst = {i1, i2, i3}
    Addr = {a1}
    NULL = NULL
    NoReq = NoReq
    ReuseHandles = TRUE
    Configured <- BothTypes
    MaxQueue = 1
SYMMETRY Symmetry
INVARIANTS
    TypeOK
    NoDanglingEngine
    RegistrationMirror
    OnePublicEngine
    PrivateIsExclusive
    HandleOwned
    RegisteredIsTold
PROPERTIES
    RegistrySpec
