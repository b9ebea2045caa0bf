CONSTANTS
    t1 = t1
    t2 = t2
    Programs = {"libs", "pg", "stdio", "exec"}
    Threads = {t1, t2}
    Fds = {3, 4}
    Limit <- MCLimit
    Files <- MCFiles
    Startups <- MCStartups
    Buffers <- MCBuffers
    Texts <- MCTexts
    JsonTexts <- MCJsonTexts
    Pids = {1, 2}
    Cpus = {0}
    MaxExecs = 3
    OPEN_ENTRIES = 1
    MMAP_ENTRIES = 4
    MAX_ARGS_LEN = 1
    RING = 2
    PG_ENTRIES = 1
    MAX_BUF_SIZE = 2
    MAX_LOOP = 2
    STDIO_ENTRIES = 1
    PEEK_BYTES = 4
    MAX_DATA = 5
SPECIFICATION Spec
CHECK_DEADLOCK FALSE
 
INVARIANT EntriesLive
INVARIANT PgExact
 
INVARIANT ExecsTrue
