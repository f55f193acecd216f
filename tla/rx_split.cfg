SPECIFICATION Spec
CONSTANTS
    Bytes = 4
    Ends = {2, 4}
    Nuls = {}
    EventDepth = 2
    QueueDepth = 1
INVARIANT WholeLines
CHECK_DEADLOCK FALSE
