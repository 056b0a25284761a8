SPECIFICATION Spec
CONSTANTS
    c1 = c1
    c2 = c2
    a = a
    b = b
    aa = aa
    d = d
    dd = dd
    Workers = {w1, w2}
    Clients <- MCClients
    Direct = {c2}
    Owner = c2
    Tasks <- MCTasks
    Parent <- MCParent
    None = None
INVARIANTS
    TasksConserved
    CounterCounts
    Drained
PROPERTIES
    ImplementsPool
    Terminates
CHECK_DEADLOCK FALSE
