SPECIFICATION Spec
CONSTANTS
    A = A
    B = B
    C = C
    NoDesc = NoDesc
    Threads = {t1}
    Keys = {k1, k2}
    Values <- ThreeChunkValues
    SizeOf <- MixedSize
    High = 3
    Low = 2
    WriteFails = FALSE
    Restarts = TRUE
INVARIANTS
    IndexMatchesFiles
    
