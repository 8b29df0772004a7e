SPECIFICATION Spec
CONSTANTS
    Procs = {p1, p2}
    MaxNames = 3
    MaxClock = 2
    Stale = 2
    MayFail = FALSE
    None = None
    OldTimes = {0}
    Volumes <- OneVolume
PROPERTIES InFlightIsKept
