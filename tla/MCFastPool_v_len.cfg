\* The counter wraps below zero.
SPECIFICATION Spec
CONSTANTS
    p1 = p1  p2 = p2
    None = None
    Threads = {t1, t2}
    Pools = {p1}
    Buffers = {b1, b2, b3}
    Word = 16
    CacheCap = 0
    MaxPool <- OneMaxTwo
    MinPool <- OneMin
    Targets = {}
    Calls = {"acquire", "drop"}
    MaxAcquire = 3
SYMMETRY Symmetry
INVARIANT LenIsALength
CHECK_DEADLOCK FALSE
