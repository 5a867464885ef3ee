SPECIFICATION Spec
CONSTANTS
    None = None
    Threads = {t1, t2}
    Buffers = {b1, b2, b3}
    Configs <- MCConfigs
    Targets = {1, 3}
    MaxAcquire = 4
INVARIANTS TypeOK Partition IdleBound DropNeverPanics TotalsCover
PROPERTIES SecureSpec
