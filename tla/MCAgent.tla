------------------------------ MODULE MCAgent ------------------------------
(* Agent with small capacities. *)
EXTENDS Agent

SmallLimits == [coinex |-> [order |-> 2, cancel |-> 3],
                bybit  |-> [create |-> 2, amend |-> 1, cancel |-> 2]]
=============================================================================
