SPECIFICATION FairSpec
CONSTANTS
    Dst = {d1}
    Realtime = {d1}
    Path = {p1}
    Rescan = Rescan
    Fanotify = TRUE
    MaxCycle = 4
    Bound <- CancelBound
PROPERTIES CancelWithdrawsTarget
CHECK_DEADLOCK FALSE
