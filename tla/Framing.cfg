\* Three frames fit, and after a half-written string there is room for another.
SPECIFICATION FairSpec
CONSTANTS
    Size = 7
    Base = 3
    MaxString = 3
    Lane = 2
    Err = Err
INVARIANTS TypeOK NothingLost LanesAgree
PROPERTIES StreamSpec ReaderEnds
