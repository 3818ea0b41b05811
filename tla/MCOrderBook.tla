---------------------------- MODULE MCOrderBook -----------------------------
(* OrderBook, with the queries of BookQueries on every book it reaches.    *)
EXTENDS OrderBook, BookQueries, TLC

Symmetry == Permutations(Handlers)

(* A side with its prices in multiples of the tick size. *)
Levels(s) == [x \in {p * TickSize : p \in {q \in Prices : Has(rows[s], q)}} |->
                 rows[s][x \div TickSize].vol]
On(s) == [side |-> IF s = "asks" THEN "ask" ELSE "bid", levels |-> Levels(s)]

(* The callbacks of an update run, and query the book. *)
Updated == \E h \in Handlers : work[h].at = "publish"

(* AvgExecPrice of a quantity the side can fill is the average over the    *)
(* best way to take it from the levels, rounded down to the tick size.     *)
AvgIsRoundedDown == Updated => \A s \in Sides : RoundsDown(On(s))

(* SumVolume is the quantity that executes at a price or better, at every  *)
(* price of the side and just beside it.                                   *)
SumVolumeIsRequired ==
    Updated => \A s \in Sides : \A p \in DOMAIN Levels(s) :
                  FillsUpTo(On(s), p) /\ FillsUpTo(On(s), p + TickSize)

(* The map of cumulated volumes and the first levels agree with SumVolume. *)
QueriesAgree ==
    Updated => \A s \in Sides : /\ MapAgrees(On(s))
                               /\ \A depth \in 1 .. MaxPrice + 1 : LevelsAgree(On(s), depth)
=============================================================================
