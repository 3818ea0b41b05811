SPECIFICATION FairSpec
CONSTANTS
    o1 = o1
    o2 = o2
    Orders = {o1}
    Details = {d1, d2}
    FirstDetail = d1
    NoDetail = NoDetail
    OrderType <- AllLimit
    Batches <- WholeBatch
    MaxCalls = 3
    MaxRequests = 3
    MaxFrames = 2
INVARIANT OperationIsAnswered
INVARIANT AmendingHasDetail
PROPERTY SentIsAccounted
INVARIANT DoneIsNotOpen
PROPERTY OperationEnds
PROPERTY FillEndsOrder
CHECK_DEADLOCK FALSE
