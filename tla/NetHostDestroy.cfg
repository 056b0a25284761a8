SPECIFICATION Spec
CONSTANTS
    Conns = {k1}
    Kinds = {"client"}
    runner = runner
    owner = owner
    user = user
INVARIANT DestructorClosesThread
CHECK_DEADLOCK FALSE
