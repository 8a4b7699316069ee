SPECIFICATION Spec
CONSTANTS
    da = da
    dax = dax
    db = db
    dbx = dbx
    local = local
    remote = remote
    Root = Root
    Rescan = Rescan
    Path <- MCPath
    Dir = {da, db}
    Parent <- MCParent
    Name <- MCName
    Content = {1, 2}
    Dst = {local, remote}
    Remote = {remote}
    Due = {{local}, {local, remote}}
    KeepExtra = 0
    Start <- MCStart
    MaxCycle = 4
    Bound <- MCBound
INVARIANTS TypeOK DiffComplete GreenIsCurrent BaseKept
CHECK_DEADLOCK FALSE
