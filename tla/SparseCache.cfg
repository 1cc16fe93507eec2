SPECIFICATION Spec
CONSTANTS
    HttpClients = {h1}
    UnixClients = {u1}
    Keys = {k1}
    Sizes = {0, 3}
    Offsets = {0, 1}
    Lengths = {0, 1, 2}
    MaxCreates = 2
    None = None
INVARIANTS
    TypeOK
    FinalizedFullyWritten
    TakenOnce
PROPERTY
    EntryOnlyGrows
