\* Two pools whose clients share the thread caches, one of them perhaps of buffers
\* too big to be made, and an observer.
SPECIFICATION StatsSpec
CONSTANTS
    p1 = p1  p2 = p2
    None = None
    Threads = {t1, t2}
    Pools = {p1, p2}
    Buffers = {b1, b2}
    Word = 16
    CacheCap = 1
    MaxPool <- TwoMax
    MinPool <- TwoMin
    Targets = {}
    Calls = {"acquire", "drop", "leak", "clear_thread_cache"}
    MaxAcquire = 2
    Watched = {p1}
SYMMETRY Symmetry
INVARIANTS NoSharing SnapOffByUnseen CalmSnapTrue
PROPERTIES DriftIsLeaks SecureSpec
CHECK_DEADLOCK FALSE
