SPECIFICATION FairSyncSpec
CONSTANTS
    t0 = t0
    t1 = t1
    t2 = t2
    v1 = v1
    m1 = m1
    NULL = NULL
    Main = t0
    Threads = {t0, t1, t2}
    Retvals = {v1}
    THREAD_MAX = 3
    Mutexes = {m1}
    Barriers = {}
    Counts = {}
    MayExitHolding = FALSE
PROPERTIES
    ReadyRuns
    JoinReturns
    LockIsFair
CHECK_DEADLOCK FALSE
