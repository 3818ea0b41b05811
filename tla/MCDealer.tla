------------------------------ MODULE MCDealer ------------------------------
(* Instances of Dealer for TLC. *)
EXTENDS Dealer

CONSTANTS o1, o2

AllLimit   == [o \in Orders |-> "Limit"]
(* One order rests, the other one ends with its first fill. *)
BothTypes  == [o \in Orders |-> IF o = o1 THEN "Limit" ELSE "LimitIOC"]
WholeBatch == {Orders}
=============================================================================
