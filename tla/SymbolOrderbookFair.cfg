SPECIFICATION FairHistSpec
CONSTANTS
    Users = {u1, u2}
    OrderIds = {o1, o2}
    Prices = {0, 1}
    Quantities = {1, 2}
    Int64Max = 3
    MaxRested = 3
PROPERTIES
    CancelLostOnlyByReuse
    ImplementsPriceTimeBook
    CommandCompletes
