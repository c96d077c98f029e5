SPECIFICATION RefSpec
CONSTANTS
    Prices = {1, 2}
    Ids = {a, b, c}
    MaxQty = 2
    MaxOrders = 3
    ReuseIds = FALSE
PROPERTIES
    ImplementsPriceTimeBook
    MatchTerminates
