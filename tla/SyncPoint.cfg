SPECIFICATION Spec
CONSTANTS
    Threads = {t1, t2, t3}
    Syncers = {s1}
    Ids = {1, 2}
    Depth = 2
    Null = Null
INVARIANTS
    OneHolder
    OccupantMatches
    NestedNeverWaits
PROPERTY AllReturn
