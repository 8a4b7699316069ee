SPECIFICATION Spec
CONSTANTS
    d = d
    dx = dx
    de = de
    f = f
    Root = Root
    Batch = Batch
    Path <- MCPath
    Parent <- MCParent
    Excluded = {de}
    Worker = {w1, w2}
    MaxFailed = 2
    Weight <- MCWeight
    Budget = 2
    Bound <- MCBound
SYMMETRY MCSymmetry
INVARIANTS TypeOK Tracked PassCorrect MemoryBounded
CHECK_DEADLOCK FALSE
