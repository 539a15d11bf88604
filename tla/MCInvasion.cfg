SPECIFICATION FairSpec
CONSTANTS
    Names <- Both
    Files <- Allies
    Supplies <- Stocks
    Crowds <- Numbers
    Sizes <- Forces
    Thou = 34
    TenThou = 15
CHECK_DEADLOCK FALSE
INVARIANTS
    ModifierFitsTheDie
    BeginsWithPeople
    VerdictIsRight
PROPERTIES
    AttacksAreLosses
    WornDown
