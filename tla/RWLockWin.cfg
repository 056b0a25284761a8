\* Three threads: two readers that overlap and a writer, or two writers and a
\* reader that meets both.
SPECIFICATION Spec
CONSTANT Threads = {t1, t2, t3}
INVARIANTS
    Exclusion
    EventsMatch
    OneClaim
PROPERTIES
    ImplementsRWLock
    WritersProgress
    ReadersProgress
