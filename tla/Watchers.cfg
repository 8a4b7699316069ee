SPECIFICATION FairSpec
CONSTANTS
    Dir = Dir
    Child = Child
    Host = {"fs", "dirs", "map", "dirmap", "path", "usn", "dir"}
    Cap = 1
    None = None
    Bound <- MCBound
INVARIANTS TypeOK NothingForgotten WakePending
PROPERTIES Reconciles
CHECK_DEADLOCK FALSE
