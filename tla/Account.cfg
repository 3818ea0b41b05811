SPECIFICATION Spec
CONSTANTS
    Others = {u1, u2}
    Size = 2
    Holdings = {1}
    StartTimes = {0, 1}
    MaxClock = 1
    MaxLosses = 1
    MaxWire = 2
SYMMETRY Symmetry
INVARIANTS
    PositionFollows
    DoneOnce
    TracksOthers
CHECK_DEADLOCK FALSE
