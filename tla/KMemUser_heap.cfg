SPECIFICATION MemSpec
CONSTANTS
    ustack_beg = 4
    Increments = {1, 2, 3}
INVARIANTS
    HeapBelowStacks
CHECK_DEADLOCK FALSE
