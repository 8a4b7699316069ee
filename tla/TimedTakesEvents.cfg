SPECIFICATION Spec
CONSTANTS
    Dst = {d1, d2}
    Realtime = {d1}
    Path = {p1}
    Rescan = Rescan
    Fanotify = TRUE
    MaxCycle = 4
    Bound <- ChangesBound
INVARIANTS GreenRealtimeIsApplied
CHECK_DEADLOCK FALSE
