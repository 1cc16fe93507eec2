SPECIFICATION RemoteSpec
CONSTANTS
    n1 = n1
    n2 = n2
    n3 = n3
    Nodes = {n1, n2, n3}
    VirtualNodes = 1
    hash_point <- MCPoint
    MaxHash = 3
    Host <- MCHost
    Seeds <- MCSeeds
    NoNode = NoNode
    MaxInFlight = 1
    Mortal = {n2, n3}
    MaxCalls <- MCMaxCalls
    KeyHashes = {2}
    replication_factor = 3

    
PROPERTIES
    KnowledgeSpreads
    LostPeerEndsCall
CHECK_DEADLOCK FALSE
