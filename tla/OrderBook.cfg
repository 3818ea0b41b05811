SPECIFICATION Spec
CONSTANTS
    Handlers = {h1, h2}
    MaxPrice = 3
    MaxVolume = 2
    MaxSeq = 3
    MaxMsgs = 4
    TickSize = 2
    Precision = 100
SYMMETRY Symmetry
INVARIANTS
    BestInSync
    FollowsExchange
    AvgIsRoundedDown
    SumVolumeIsRequired
    QueriesAgree
PROPERTY LevelsNeverAge
CHECK_DEADLOCK FALSE
