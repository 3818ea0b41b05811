SPECIFICATION Spec
CONSTANTS
    Readers = {r1, r2}
    Keys = {k1}
    Types = {"int", "int64"}
    MaxEdits = 3
INVARIANTS
    QuietIsCurrent
PROPERTY NeverOlder
CHECK_DEADLOCK FALSE
