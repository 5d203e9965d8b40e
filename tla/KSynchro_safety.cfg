SPECIFICATION SyncSpec
CONSTANTS
    t0 = t0
    t1 = t1
    t2 = t2
    v1 = v1
    m1 = m1
    b1 = b1
    NULL = NULL
    Main = t0
    Threads = {t0, t1, t2}
    Retvals = {v1}
    THREAD_MAX = 3
    Mutexes = {m1}
    Barriers = {b1}
    Counts = {0, 1, 2, 3}
    MayExitHolding = FALSE
SYMMETRY Symmetry
INVARIANTS
    QueuesMatchSleepers
PROPERTIES
    MutexRefinement
    BarrierRefinement
CHECK_DEADLOCK FALSE
