SPECIFICATION FairSpec
CONSTANTS
    Bytes = 7
    Ends = {2, 4, 7}
    Nuls = {5}
    EventDepth = 2
    QueueDepth = 1
INVARIANTS TypeOK LinesInOrder ReadNeverShort IntactKept UncutWhole
PROPERTY IntactHandled
CHECK_DEADLOCK FALSE
