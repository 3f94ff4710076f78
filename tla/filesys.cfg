CONSTANTS
    t1 = t1
    t2 = t2
    Threads = {t1, t2}
    nfdmap = 3
    KmFds = {4, 5}
    KM_MGM_ACCEPT = 5
    HostFds = {0, 1, 2, 3, 4, 5}
    Objects = {0, 1, 2, 3, 4, 5, 6}
    Payloads <- Workloads
    MaxDups = 2
    KContexts = {1, 2}
    NrEvents = {1}
    COUNTER = 8
    MaxIds = 2
SPECIFICATION FsSpec
INVARIANTS  LinksExact ShrinkSafe   ContextsMapped ContextsSettled
PROPERTIES SnapshotDrained
SYMMETRY Symmetry
CHECK_DEADLOCK FALSE
