SPECIFICATION FairSpec
CONSTANTS
    M = 2
    Initial <- InitialZero
    Mapped = {1, 2}
    Savers = {t1}
    Chunk = 2
    NoFile = NoFile
PROPERTIES DataSaved
