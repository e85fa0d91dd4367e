SPECIFICATION FairSpec
CONSTANTS
    M = 2
    Initial <- InitialZero
    Mapped = {1}
    Savers = {t1, t2}
    Chunk = 2
    NoFile = NoFile
INVARIANTS TypeOK
PROPERTIES RestoredFirst ChangeSaved
