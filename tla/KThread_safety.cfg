SPECIFICATION Spec
CONSTANTS
    t0 = t0
    t1 = t1
    t2 = t2
    t3 = t3
    v1 = v1
    v2 = v2
    NULL = NULL
    Main = t0
    Threads = {t0, t1, t2, t3}
    Retvals = {v1, v2}
    THREAD_MAX = 3
SYMMETRY PageSymmetry
INVARIANTS
    TableConsistent
    OneRunning
    JoinConsistent
    IdleIsJustified
PROPERTIES
    JoinReapsZombie
CHECK_DEADLOCK FALSE
