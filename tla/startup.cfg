SPECIFICATION FairSpec
CONSTANTS
    Procs = {p1, p2}
    MaxNames = 2
    MaxClock = 2
    Stale = 2
    MayFail = TRUE
    None = None
    OldTimes = {0}
    Volumes <- SomeVolumes
INVARIANTS TypeOK HonestStrategy NoLitter
PROPERTIES SweepsClean FreshIsKept SweepsEnd
