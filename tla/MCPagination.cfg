SPECIFICATION MCSpec
CONSTANTS
    Rows = {1, 2, 3}
    Ranks = {1, 2}
    Null = Null
    Kids = {k1, k2}
    Sizes = {0, 1, 2}
    KidTakes = {1, 3}
    DefaultSize = 10
    MaxWrites = 3
INVARIANTS
    TypeOK
    CursorDrift
    OffsetDrift
    KidsWithParent
CHECK_DEADLOCK FALSE
