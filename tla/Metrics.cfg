SPECIFICATION FairSpec
CONSTANTS
    N = 1
    Topics = {t1}
    Latencies <- SmallLatencies
    MilliSecond = 2
    Exports = {e1, e2}
    MaxRecords = 2
    MaxMetrics = 2
    MaxHistory = 1
INVARIANTS
    SamplesConserved
    PointsAreRight
    MetricsOnce
PROPERTY SamplesLeave
CHECK_DEADLOCK FALSE
