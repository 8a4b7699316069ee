SPECIFICATION Spec
CONSTANTS
    a = a
    b = b
    s1 = s1
    s2 = s2
    s3 = s3
    Node = {a, b}
    Src = {s1, s2, s3}
    Owner <- Owners
    Home <- Homes
    Initial = {s1, s3}
    Ver = {1, 2}
    Tries = 2
    Bounds <- MoveBounds
INVARIANTS MovedIsReset
CHECK_DEADLOCK FALSE
