CONSTANTS
    t1 = t1
    t2 = t2
    p1 = p1
    p2 = p2
    Threads = {t1, t2}
    Procs = {p1, p2}
    Fds = {fd1, fd2}
    AT_FDCWD = AT_FDCWD
    Programs <- MCPrograms
    PathOps = {"delete"}
    Cwd <- Root
    NoiseDirs = {"proc"}
    OverlayDirs = {"e"}
    PrivateDirs = {"e"}
    SharedObjects = {"g"}
    MaxEntries = 1
    MaxInflight = 1
    MaxDepth = 3
    None = None
SPECIFICATION Spec
SYMMETRY Symmetry
INVARIANT EntriesTrue
INVARIANT EventsTrue
 
 
