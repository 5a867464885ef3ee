\* A cached buffer crosses pools.
SPECIFICATION Spec
CONSTANTS
    p1 = p1  p2 = p2
    None = None
    Threads = {t1, t2}
    Pools = {p1, p2}
    Buffers = {b1, b2, b3}
    Word = 16
    CacheCap = 1
    MaxPool <- TwoMax
    MinPool <- TwoMin
    Targets = {1}
    Calls = {"acquire", "drop"}
    MaxAcquire = 2
SYMMETRY Symmetry
INVARIANT HandlesHaveOwnSize
CHECK_DEADLOCK FALSE
