SPECIFICATION Spec
CONSTANTS
    Dst = {d1}
    Realtime = {d1}
    Path = {p1, p2}
    Rescan = Rescan
    Fanotify = TRUE
    MaxCycle = 5
    Bound <- OfflineBound
INVARIANTS GreenRealtimeIsApplied
CHECK_DEADLOCK FALSE
