SPECIFICATION Spec
CONSTANTS
    c1 = c1
    c2 = c2
    a = a
    b = b
    aa = aa
    d = d
    dd = dd
    Workers = {w1, w2}
    Clients = {c1}
    Direct = {}
    Owner = c1
    Tasks = {a, aa}
    Parent <- NestedParent
    None = None
INVARIANT WaitsUntilAllFinish
CHECK_DEADLOCK FALSE
