SPECIFICATION Spec
CONSTANTS
    Workers = 1
    Size = 1
    MaxConns = 3
    MayFail = {}
CHECK_DEADLOCK FALSE
PROPERTY ShutdownEnds
