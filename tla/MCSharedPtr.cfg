SPECIFICATION Spec
CONSTANTS
    t1 = t1
    t2 = t2
    p1 = p1
    q1 = q1
    p2 = p2
    w1 = w1
    w2 = w2
    Threads = {t1, t2}
    Strong = {p1, q1, p2}
    Weak = {w1, w2}
    User <- MCUser
    Controllers = {x, y}
    First = x
    SelfAssign = FALSE
    Null = Null
INVARIANTS
    CountsMatch
    OwnedAlive
    NoUseAfterDelete
    NoLeak
PROPERTY NeverRevived
CHECK_DEADLOCK FALSE
