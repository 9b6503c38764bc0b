CONSTANTS
    Users = {u1, u2}
    OrderIds = {i1}
    Symbols = {ibm, aapl}
    Prices = {0, 1}
    Quantities = {1}
    Int64Max = 7
SPECIFICATION ClaimsSpec
INVARIANT CancelAcknowledged
