SPECIFICATION Spec
CONSTANTS
    Dst = {d1}
    Realtime = {d1}
    Path = {p1}
    Rescan = Rescan
    Fanotify = TRUE
    MaxCycle = 4
    Bound <- RequestRaceBound
INVARIANTS ManualFullIsFull
CHECK_DEADLOCK FALSE
