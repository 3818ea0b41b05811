SPECIFICATION Spec
CONSTANTS
    o1 = o1
    o2 = o2
    Orders = {o1, o2}
    Details = {d1}
    FirstDetail = d1
    NoDetail = NoDetail
    OrderType <- BothTypes
    Batches <- WholeBatch
    MaxCalls = 2
    MaxRequests = 2
    MaxFrames = 1
INVARIANT OperationIsAnswered
INVARIANT FillIsNeverMissed
CHECK_DEADLOCK FALSE
