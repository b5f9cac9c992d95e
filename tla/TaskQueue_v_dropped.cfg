SPECIFICATION Spec
CONSTANTS
    Poster = {p1, p2}
    Task = {t1, t2}
    Delay <- Delays
    MaxClock = 3
    NoTask = NoTask
INVARIANTS
    NothingDropped
