SPECIFICATION Spec
CONSTANTS
    Threads = {t1, t2}
    Syncers = {s1, s2}
    Ids = {1, 2, 3}
    Depth = 2
    Null = Null
INVARIANT NestedNeverWaits
CHECK_DEADLOCK FALSE
