SPECIFICATION FairSpec
CONSTANTS
    Modes = {"strategy", "curator", "noop"}
    Insights <- BothExchanges
INVARIANT ReadyWhenRunning
INVARIANT AllTopicsSet
PROPERTY WaitEnds
PROPERTY Stops
CHECK_DEADLOCK FALSE
