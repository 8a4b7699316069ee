SPECIFICATION Spec
CONSTANTS
    d1 = d1
    d2 = d2
    Dst = {d1, d2}
    DayLen = 3
    WeekLen = 2
    Worlds <- MCWorlds
    None = None
    Horizon = 12
INVARIANTS OnlyInWindow
CHECK_DEADLOCK FALSE
