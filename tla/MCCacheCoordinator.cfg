SPECIFICATION Spec
CONSTANTS
    Readers = {r1}
    Writers = {w1, w2}
    Keys = {k1}
    Values = {v1, v2}
    NoValue = NoValue
    Unknown = Unknown
    Options <- MCOptions
    PreferLocal = TRUE
    PutFails = TRUE
SYMMETRY Symmetry
INVARIANTS
    TypeOK
    HitIsLatest
    RangeIsOfValue
    LevelsAgree
