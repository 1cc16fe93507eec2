SPECIFICATION FairSpec
CONSTANTS
    Clients = {c1, c2}
    Keys = {k1}
    Values = {small, large}
    NoValue = NoValue
    Large = {large}
    Timeouts = {c1}
    c1 = c1
    c2 = c2
    MaxRequests <- OneMoreCaller
INVARIANT
    FinalizedIsAvailable
CHECK_DEADLOCK FALSE
