SPECIFICATION Spec
CONSTANTS
    Dst = {d1}
    Realtime = {d1}
    Path = {p1}
    Rescan = Rescan
    Fanotify = TRUE
    MaxCycle = 3
    Bound <- DisableBound
INVARIANTS PendingIsListed
CHECK_DEADLOCK FALSE
