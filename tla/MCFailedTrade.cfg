SPECIFICATION Spec
CONSTANTS
    a = a
    b = b
    c = c
    None = None
    Countries = {a, b}
    Capacity = 3
    IdleLimit = 1
    Schedules = 1
    Depth = 2
    Frontier = 3
    Patience = 1
    Initial <- Worlds
    Damages = {}
    Rounds = 1
CHECK_DEADLOCK FALSE
INVARIANT FailedTradesFailed
