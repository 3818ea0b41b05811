SPECIFICATION AgentFairSpec
CONSTANTS
    Orders = {o1, o2}
    Limits <- SmallLimits
    Second = 2
    MaxCalls = 4
INVARIANT WindowLimit
PROPERTY QuotaRecovers
CHECK_DEADLOCK FALSE
