SPECIFICATION Spec
CONSTANTS
    Populations = {0, 1, 4, 5, 7, 9}
    Stocks = {0, 1, 3, 8, 13}
    Mades = {0, 1, 2, 6, 11}
CHECK_DEADLOCK FALSE
INVARIANTS
    TypeOK
    BuildsSucceed
    AsksAreSound
    LoopsAreCalls
PROPERTY BuildsSettleTheNeed
