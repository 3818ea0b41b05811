SPECIFICATION FairSpec
CONSTANTS
    NumOfRetry = 1
    SigCap = 2
    MaxFaults <- FewFaults
    MaxPings <- FewPings
INVARIANT ConnectedIsSettled
INVARIANT PanicsOnOldOnly
CHECK_DEADLOCK FALSE
PROPERTY LostIsReplaced
PROPERTY Reconnects
