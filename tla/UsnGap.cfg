SPECIFICATION Spec
CONSTANTS
    Dir = Dir
    Child = Child
    Host = {"usn"}
    Cap = 1
    None = None
    Bound <- MCBound
INVARIANTS JournalLossReconciled
CHECK_DEADLOCK FALSE
