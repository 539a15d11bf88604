SPECIFICATION FairSpec
CONSTANTS
    Names <- Both
    Files <- Duels
    Supplies <- Stocks
    Crowds <- Numbers
    Sizes <- Forces
    Thou = 34
    TenThou = 15
CHECK_DEADLOCK FALSE
PROPERTY WarEnds
