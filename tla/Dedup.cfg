SPECIFICATION DedupSpec
CONSTANTS
    Channels = {c1, c2}
    Published <- FewMsgs
    TTL = 1
    Spread = 2
    Threshold = 0
    MaxTime = 2
INVARIANT ProcessedOnce
INVARIANT DroppedIsProcessed
SYMMETRY Symmetry
CHECK_DEADLOCK FALSE
