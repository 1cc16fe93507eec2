SPECIFICATION Spec
CONSTANTS
    CHUNK_SIZE = 2
    Width = 6
    NoChunk = NoChunk
    Threads = {t1, t2}
    Keys = {k1}
    Values <- ShortValues
    Ranges <- NoRanges
    WholeValue = WholeValue
    NoDesc = NoDesc
INVARIANT
    NoDanglingRead
