SPECIFICATION Spec
CONSTANTS
    s1 = s1
    s2 = s2
    d1 = d1
    d2 = d2
    p1 = p1
    Src = {s1, s2}
    Dst = {d1, d2}
    SourceOf <- MCSourceOf
    Remote = {d2}
    Path = {x, y}
    SampleCap = 1
    Pool = {p1}
    Covers <- MCCovers
    Manual = {m1}
    Scanner = {c1, c2}
    None = None
    Bound <- MCBound
SYMMETRY MCSymmetry
INVARIANTS TypeOK CompareApart RegistryIsLive GapIsNoticed RepairKept WritesMounted
PROPERTIES ParkSparesWriters
CHECK_DEADLOCK FALSE
