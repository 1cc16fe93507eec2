SPECIFICATION Spec
CONSTANTS
    CHUNK_SIZE = 2
    Width = 6
    NoChunk = NoChunk
    Threads = {t1, t2}
    Keys = {k1}
    Values <- SharingValues
    Ranges <- SomeRanges
    WholeValue = WholeValue
    NoDesc = NoDesc
SYMMETRY ThreadSymmetry
INVARIANTS
    TypeOK
    HitIsExact
    PartialHitInRange
