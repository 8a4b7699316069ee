SPECIFICATION FairSpec
CONSTANTS
    d = d
    dx = dx
    de = de
    f = f
    Root = Root
    Batch = Batch
    Path <- MCPath
    Parent <- MCParent
    Excluded = {de}
    Worker = {w1, w2}
    MaxFailed = 2
    Weight <- MCWeight
    Budget = 2
    Bound <- FlipBound

PROPERTIES Converges
CHECK_DEADLOCK FALSE
