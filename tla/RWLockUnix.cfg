\* Four threads: two readers can alternate while one writer is woken and another
\* one barges in.  No deadlock: a thread outside the lock can always call Lock.
SPECIFICATION Spec
CONSTANT Threads = {t1, t2, t3, t4}
INVARIANTS
    Exclusion
    CountersMatch
    NoLostWakeup
PROPERTIES
    ImplementsRWLock
    WritersProgress
    ReadersProgress
