SPECIFICATION Spec
CONSTANTS
    a = a
    b = b
    c = c
    Content <- LongContent
    BlockLen = 1
    Zero = Zero
    None = None
    Absent = Absent
    Differs = Differs
    Inode = {i1,i2,i3,i4,i5,i6,i7,i8,i9}
    Slot = {1,2,3}
    MaxAttempt = 3
    Mode = {"stream"}
    Bound <- TwoLate
INVARIANT NoSilentCorruption
CHECK_DEADLOCK FALSE
