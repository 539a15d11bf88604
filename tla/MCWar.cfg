SPECIFICATION Spec
CONSTANTS
    a = a
    b = b
    c = c
    None = None
    Countries = {a, b, c}
    Capacity = 3
    IdleLimit = 2
    Schedules = 1
    Depth = 1
    Frontier = 3
    Patience = 0
    Initial <- Bystanders
    Damages = {100}
    Rounds = 2
CHECK_DEADLOCK FALSE
INVARIANTS
    OffersAreOpen
    TakenIsFresh
    WholeInv
