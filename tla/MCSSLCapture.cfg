CONSTANTS
    t1 = t1
    t2 = t2
    s1 = s1
    s2 = s2
    Threads = {t1, t2}
    Conns = {s1, s2}
    Calls <- MCCalls
    MAX_ENTRIES = 1
    MAX_LOOP = 2
    MAX_BODY_SIZE = 2
    RING = 2
    MaxCalls = 3
    MaxDepth = 2
    Moves = {0, 1, 5}
    Thread = t1
    Conn = s1
    MaxBuffers = 4
    MaxLen = 2
SPECIFICATION CaptureSpec
CHECK_DEADLOCK FALSE
INVARIANT InfoCoversStream
INVARIANT StampNotAhead
INVARIANT ChunksOfTheirCall
INVARIANT CallsCaptured
PROPERTY StampsMonotone
