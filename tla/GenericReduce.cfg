SPECIFICATION Spec
CONSTANTS
    Sizes = {0, 1, 3, 7, 9, 13}
    WorkgroupSizes = {2, 4, 8}
    MaxGroups = 4
INVARIANTS
    NothingLostOrDoubled
    NoRaces
PROPERTY
    Termination
