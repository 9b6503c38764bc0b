CONSTANTS
    Users = {1, 2}
    OrderIds = {1, 12}
    Symbols = {"IBM", "VAL"}
    Prices = {0, 2, 3}
    Quantities = {1, 2}
    Int64Max = 99
    IntMax = 50
    Datagrams <- MCDatagrams
    Oversized <- MCOversized
    MaxAccepted = 1
SPECIFICATION FairSpec
PROPERTIES SigtermEnds
CHECK_DEADLOCK FALSE
