SPECIFICATION Spec
CONSTANTS
    MaxPackets = 5
    MaxBytes = 6
    Lengths = {1, 2}
    MaxStreams = 2
    UseBurned = TRUE
    None = None
INVARIANTS BurnZeroesAll
