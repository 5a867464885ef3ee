\* Two threads, one pool, every operation, threads that exit; threads inside an
\* operation are scheduled fairly.
SPECIFICATION FairSpec
CONSTANTS
    p1 = p1  p2 = p2
    None = None
    Threads = {t1, t2}
    Pools = {p1}
    Buffers = {b1, b2, b3}
    Word = 16
    CacheCap = 1
    MaxPool <- OneMax
    MinPool <- NoMin
    Targets = {1}
    Calls <- AllCalls
    MaxAcquire = 2
INVARIANTS TypeOK NoSharing IdleBuffersBurned CounterTracksQueue QueueBound
           InUseCoversHandles AcquiresCoverSources
PROPERTIES DriftIsLeaks CallsComplete ClearCompletes
CHECK_DEADLOCK FALSE
