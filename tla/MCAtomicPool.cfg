SPECIFICATION Spec
CONSTANTS
    c1 = c1
    c2 = c2
    a = a
    b = b
    aa = aa
    bb = bb
    d = d
    Size = 2
    Clients <- MCClients
    Direct = {c2}
    Owner = c2
    Tasks <- MCTasks
    Parent <- MCParent
    None = None
INVARIANTS
    TasksConserved
    ExecutedTaskKept
    WaitsUntilAllFinish
PROPERTIES
    ImplementsPool
    Terminates
CHECK_DEADLOCK FALSE
