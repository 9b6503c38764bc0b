SPECIFICATION HistSpec
CONSTANTS
    Users = {u1, u2, u3}
    OrderIds = {o1}
    Prices = {0, 1, 2}
    Quantities = {0, 1, 3}
    Int64Max = 3
    MaxRested = 3
SYMMETRY MCSymmetry
INVARIANTS
    TypeOK
    LadderSorted
    FifoPriority
    SlotsPartitioned
    KeyMapSound
    LevelTotals
    QuantityConserved
    TopFresh
PROPERTIES
    FeedFaithful
    PriceTimePriority
    StopsOnlyWhenBlocked
    StorageGrowsOnlyWhenFull
    ImplementsPriceTimeBook
