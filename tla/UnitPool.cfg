SPECIFICATION PoolSpec
CONSTANTS
    UnitTags = {t1, t2, t3, t4, t5}
    EntrySize = 2
INVARIANTS
    NoAliasing
    ExistingAreAlive
PROPERTY PointersStable
