SPECIFICATION FairSpec
CONSTANTS
    k1 = k1  k2 = k2  k3 = k3  k4 = k4
    Keys = {k1, k2, k3, k4}
    Values <- BigAndSmall
    NoValue = NoValue
    Big = big
    Small = small
    SizeOf <- SizeOfValue
    ValuesOf <- AnyValue
    Capacity = 2
    PScale = 6
INVARIANTS TypeOK ListsDisjoint SizeExact T1B1Bounded
PROPERTIES InsertionFits ImplementsStore InsertionEnds
