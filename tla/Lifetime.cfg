SPECIFICATION FairSpec
CONSTANTS
    Client = {c1, c2}
    Seconds = 5
    MaxConnects = 3
CHECK_DEADLOCK FALSE
INVARIANTS
    TypeOK
    RequesterKept
    SomeoneWillAsk
PROPERTIES
    IdleExits
    LifeSpec
