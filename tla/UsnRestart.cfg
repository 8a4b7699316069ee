SPECIFICATION FairSpec
CONSTANTS
    Dst = {d1}
    Realtime = {d1}
    Path = {p1}
    Rescan = Rescan
    Fanotify = FALSE
    MaxCycle = 7
    Bound <- UsnBound
PROPERTIES PendingResolves
