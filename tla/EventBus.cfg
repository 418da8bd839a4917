SPECIFICATION FairSpec
CONSTANTS
    p1 = p1
    p2 = p2
    message = message
    status = status
    Pubs <- MCPubs
    Types <- MCTypes
    TypeOf <- MCTypeOf
    Stored = {old}
    MaxSubs = 2
    HistoryLimit = 2
INVARIANTS HistoryIsNewest StandingSubscribersServed SuccessIsComplete
PROPERTY EveryPublishReturns
CHECK_DEADLOCK FALSE
