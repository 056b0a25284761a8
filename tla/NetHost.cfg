SPECIFICATION Spec
CONSTANTS
    Conns = {k1, k2}
    Kinds = {"server", "client"}
    runner = runner
    owner = owner
    user = user
INVARIANTS
    ReadersSeeLiveConnections
    OnlyLastSurvivesShutDown
PROPERTIES
    DestructorWaitsForThread
    ShutDownReturns
    ClosedIsRemoved
CHECK_DEADLOCK FALSE
