SPECIFICATION Spec
CONSTANTS
    t1 = t1 t2 = t2
    AppThread = {t1, t2}
    Patrol = Patrol
    Block <- AdjacentBlocks
    WildPage = 3
    MaxWatches = 3
INVARIANT OnlyOneExecutesOnAccess
