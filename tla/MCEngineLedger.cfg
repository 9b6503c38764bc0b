CONSTANTS
    Users = {u1, u2}
    OrderIds = {i1, i2}
    Symbols = {ibm, aapl}
    Prices = {0, 1, 2}
    Quantities = {1, 2}
    Int64Max = 7
    MaxOrders = 3
SPECIFICATION AuditSpec
SYMMETRY Sym
INVARIANTS OutcomePermitted OrdersAccountedFor TradesAreLegal CancelTakesOnlyItsOrder
