SPECIFICATION Spec
CONSTANTS
    Ascending = TRUE
    LevelMax = 8
    Prices = {1, 2, 3, 4, 5, 6, 7, 8}
    Qtys = {0, 1, 2}
    MaxLevelQty = 2
    MaxSize = 4
INVARIANTS TypeOK WindowOK ObserversAgree
PROPERTIES ImplementsMap InsideChangeReported
