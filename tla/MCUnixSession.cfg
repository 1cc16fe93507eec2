SPECIFICATION FairSpec
CONSTANTS
    Clients = {c1, c2}
    Keys = {k1}
    Values = {small, large}
    NoValue = NoValue
    Large = {large}
    Timeouts = {c1}
    c1 = c1
    c2 = c2
    MaxRequests <- OneMoreCaller
INVARIANTS
    TypeOK
    AnswerIsMine
PROPERTIES
    CallReturns
CHECK_DEADLOCK FALSE
