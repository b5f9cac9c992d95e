SPECIFICATION FairSpec
CONSTANTS
    Poster = {p1, p2}
    Task = {t1, t2}
    Delay <- Delays
    MaxClock = 3
    NoTask = NoTask
INVARIANTS
    TypeOK
    Conservation
    PosterOrder
PROPERTIES
    StopReturns
    QueuedTaskRuns
    ImplementsExecutor
