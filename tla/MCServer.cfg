SPECIFICATION Spec
CONSTANTS
    Workers = 2
    Size = 2
    MaxConns = 5
    MayFail = {"context", "options", "ports", "limits", "thread", "buffer", "master"}
CHECK_DEADLOCK FALSE
INVARIANTS
    TypeOK
    ServesItsOwn
    WorkConserving
    FreedIsQuiet
PROPERTIES
    ImplementsDispatch
    EveryoneServed
    StopEnds
