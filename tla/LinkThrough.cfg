SPECIFICATION Spec
CONSTANTS
    a = a
    b = b
    c = c
    Content <- LinkContent
    BlockLen = 1
    Zero = Zero
    None = None
    Absent = Absent
    Differs = Differs
    Inode = {i1,i2,i3,i4,i5,i6,i7}
    Slot = {1, 2}
    MaxAttempt = 2
    Mode = {"put", "batch", "stream", "chunk", "delta"}
    Bound <- LinkBound
PROPERTIES ReplacesAtomically
CHECK_DEADLOCK FALSE
