------------------------------ MODULE MCOpLocks ------------------------------
(* Instances of OpLocks for TLC. *)
EXTENDS OpLocks

CONSTANTS t1, t2, t3

AllSets  == SUBSET Orders \ {{}}
TwoBatch == {t1, t2}
=============================================================================
