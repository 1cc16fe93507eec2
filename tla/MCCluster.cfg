SPECIFICATION FairSpec
CONSTANTS
    n1 = n1
    n2 = n2
    n3 = n3
    Nodes = {n1, n2, n3}
    VirtualNodes = 2
    hash_point <- MCPoint
    MaxHash = 6
    Host <- MCHost
    Seeds <- MCSeeds
    NoNode = NoNode
    MaxInFlight = 1
    Mortal = {n1, n2, n3}
    MaxCalls <- MCMaxCalls
INVARIANTS
    TypeOK
PROPERTIES
    RoutesToNearest
    KeysMoveToNew
    KnowledgeSpreads
CHECK_DEADLOCK FALSE
