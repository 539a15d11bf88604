SPECIFICATION FairSpec
CONSTANTS
    a = a
    b = b
    c = c
    None = None
    Countries = {a, b}
    Capacity = 2
    IdleLimit = 1
    Schedules = 1
    Depth = 2
    Frontier = 3
    Patience = 1
    Initial <- Markets
    Damages = {}
    Rounds = 1
CHECK_DEADLOCK FALSE
INVARIANTS
    TypeOK
    DealsBalance
    NoDebt
    NothingLost
    OnePlace
PROPERTIES
    TradeMakesNothing
    RoundsEnd
    TradesAreClosed
