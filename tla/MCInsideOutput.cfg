SPECIFICATION OutputSpec
CONSTANTS
    NoUpdate = NoUpdate
    OrderIds = {o1, o2, o3}
    Stocks = {s1, s2}
    Prices = {1, 2, 3, 4}
    Shares = {0, 2}
    ReduceShares = {0, 1, 3}
    PriceMax = 4
    ValidatingBook = TRUE
SYMMETRY Symmetry
CONSTRAINT MissedWithOneBook
INVARIANTS
    BooksMatchOrders ReductionsSucceed
    FileOutUpToDate UdpOutNeverBehind
PROPERTIES UpdateExplainsBooks InsideChangesDetected
CHECK_DEADLOCK FALSE
