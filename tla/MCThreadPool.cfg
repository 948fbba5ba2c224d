SPECIFICATION FairSpec
CONSTANTS
    Workers = {w1, w2}
    Submitters = {s1, s2}
    Tasks = {t1, t2, t3}
    NoTask = NoTask
    MaxStarts = 2
CHECK_DEADLOCK FALSE
INVARIANTS
    StopDrains
    NoSleepOverBacklog
PROPERTY
    NothingWaitsForever
