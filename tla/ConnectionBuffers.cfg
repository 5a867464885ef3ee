\* Both limits of the queue can be the one that refuses, with empty packets too.
SPECIFICATION Spec
CONSTANTS
    MaxPackets = 5
    MaxBytes = 6
    Lengths = {0, 1, 2}
    MaxStreams = 2
    UseBurned = FALSE
    None = None
INVARIANTS TypeOK BytesExact LimitsKept RefusalAnnounced SessionsApart
