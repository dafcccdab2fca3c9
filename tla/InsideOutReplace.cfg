SPECIFICATION OutputSpec
CONSTANTS
    NoUpdate = NoUpdate
    OrderIds = {o1, o2}
    Stocks = {s1}
    Prices = {1, 2, 3}
    Shares = {1, 2}
    ReduceShares = {0, 1}
    PriceMax = 4
    ValidatingBook = FALSE
SYMMETRY Symmetry
INVARIANT InsideOutUpToDate
