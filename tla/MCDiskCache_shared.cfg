SPECIFICATION Spec
CONSTANTS
    A = A
    B = B
    C = C
    NoDesc = NoDesc
    Threads = {t1, t2}
    Keys = {k1}
    Values <- TwoChunkValues
    SizeOf <- MixedSize
    High = 4
    Low = 2
    WriteFails = TRUE
    Restarts = FALSE
SYMMETRY ThreadSymmetry
INVARIANTS
    TypeOK
    SizeIsEntries
    IndexedIsEvictable
    OvershootBounded
