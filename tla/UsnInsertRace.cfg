SPECIFICATION Spec
CONSTANTS
    Dst = {d1}
    Realtime = {d1}
    Path = {p1, p2}
    Rescan = Rescan
    Fanotify = FALSE
    MaxCycle = 4
    Bound <- ChangesBound
INVARIANTS NoLostChange
CHECK_DEADLOCK FALSE
