SPECIFICATION Spec
CONSTANTS
    Dst = {d1}
    Realtime = {d1}
    Path = {p1, p2}
    Rescan = Rescan
    Fanotify = TRUE
    MaxCycle = 4
    Bound <- SchedulerBound
INVARIANTS TypeOK NoLostChange PendingIsListed
CHECK_DEADLOCK FALSE
