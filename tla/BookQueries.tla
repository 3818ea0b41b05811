---------------------------- MODULE BookQueries -----------------------------
(***************************************************************************)
(* The queries on one side of an order book (insights/price_level.go and   *)
(* orderbook.go): what SumVolume, AvgExecPrice, the maps of cumulated      *)
(* volumes and GetAsks/GetBids return.  Prices and volumes are whole       *)
(* numbers; what the decimal library divides is rounded to a multiple of   *)
(* 1/Precision (10^16 in the library).  A side b has the field side, "ask" *)
(* or "bid", and levels, a volume for each of its prices; the SeqIDs of    *)
(* the levels play no part here.                                           *)
(* Definitions whose name starts with Bad are faulty variants.             *)
(***************************************************************************)
EXTENDS Integers, Sequences, FiniteSets, FiniteSetsExt, Functions, Folds

CONSTANTS
    TickSize,     \* distance of two prices
    Precision     \* quotients are multiples of 1/Precision

ASSUME QueriesAssumption == TickSize \in Nat \ {0} /\ Precision \in Nat \ {0}
-----------------------------------------------------------------------------
(* The order of the tree: the best price first. *)
less(b, p, q) == IF b.side = "bid" THEN p > q ELSE p < q

(* The prices of the tree in its order; a price is there once. *)
prices(b) == CHOOSE s \in [1 .. Cardinality(DOMAIN b.levels) -> DOMAIN b.levels] :
                \A i, j \in DOMAIN s : i < j => less(b, s[i], s[j])

(* The levels <<price, volume>> as SortedRange visits them. *)
SortedRange(b) == LET s == prices(b) IN [i \in DOMAIN s |-> <<s[i], b.levels[s[i]]>>]

(* What a loop over levels computes that starts from base and runs op with *)
(* each level in turn.                                                     *)
Visit(op(_, _), base, levels) ==
    MapThenFoldSet(LAMBDA l, acc : op(acc, l), base, LAMBDA i : levels[i], Max, DOMAIN levels)

BadSumVolume(b, price) ==   \* the level at the price is left out
    Visit(LAMBDA sum, l : IF less(b, l[1], price) THEN sum + l[2] ELSE sum, 0, SortedRange(b))

(* SumVolume: the volume of the levels up to the price.                    *)
SumVolume(b, price) ==
    Visit(LAMBDA sum, l : IF less(b, price, l[1]) THEN sum ELSE sum + l[2], 0, SortedRange(b))

(* The loop of AvgExecPrice: it takes whole levels, and of the last one    *)
(* the quantity that remains.                                              *)
weightedSum(b, qty) ==
    Visit(LAMBDA s, l : IF s.qty <= l[2] THEN [qty |-> 0, sum |-> s.sum + l[1] * s.qty]
                        ELSE [qty |-> s.qty - l[2], sum |-> s.sum + l[1] * l[2]],
          [qty |-> qty, sum |-> 0], SortedRange(b)).sum

(* decimal.Div: the quotient of two decimals, in multiples of 1/Precision. *)
Div(a, b) == (2 * a * Precision + b) \div (2 * b)

BadRoundToTickSize(price) ==   \* to the nearest
    ((price + (TickSize * Precision) \div 2) \div (TickSize * Precision)) * TickSize

(* RoundToTickSize, of a price in multiples of 1/Precision. *)
RoundToTickSize(price) == (Div(price, TickSize * Precision) \div Precision) * TickSize

(* AvgExecPrice of the book, and AvgExecPriceBySide. *)
AvgExecPrice(b, qty) == RoundToTickSize(Div(weightedSum(b, qty), qty))

(* CalculateAsksVolSumMap and CalculateBidsVolSumMap: the running sum is   *)
(* set at each price.                                                      *)
CalculateVolSumMap(b) ==
    LET sums == Visit(LAMBDA s, l : [vol |-> s.vol + l[2],
                                     map |-> s.map \union {<<l[1], s.vol + l[2]>>}],
                      [vol |-> 0, map |-> {}], SortedRange(b)).map
    IN [p \in {e[1] : e \in sums} |-> (CHOOSE e \in sums : e[1] = p)[2]]

BadGetLevels(b, depth) ==   \* one level too many
    Visit(LAMBDA s, l : IF Len(s) > depth THEN s ELSE Append(s, l), << >>, SortedRange(b))

(* GetAsks and GetBids: a level is appended before the depth is looked at. *)
GetLevels(b, depth) ==
    Visit(LAMBDA s, l : IF s # << >> /\ Len(s) >= depth THEN s ELSE Append(s, l), << >>, SortedRange(b))
-----------------------------------------------------------------------------
Total(b) == SumFunction(b.levels)

(* The best that an order of this quantity can pay or receive, over all    *)
(* ways to take it from the levels.                                        *)
Takes(b, qty) == {t \in [DOMAIN b.levels -> 0 .. qty] :
                     SumFunction(t) = qty /\ \A p \in DOMAIN t : t[p] <= b.levels[p]}
Cost(t) == SumFunction([p \in DOMAIN t |-> p * t[p]])
BestCost(b, qty) == LET costs == {Cost(t) : t \in Takes(b, qty)}
                    IN IF b.side = "ask" THEN Min(costs) ELSE Max(costs)

(* AvgExecPrice is "the average execution price for a market order with    *)
(* the specified quantity", "rounded down to the order book tick size",    *)
(* for a quantity that the side can fill: the tick at or just below the    *)
(* average over the best way to take it from the levels.  (For a larger    *)
(* quantity the code divides the cost of the whole side by it, and the     *)
(* result may be better than the best price.)  The two quotients are       *)
(* rounded to the precision of decimals before the tick is taken, so it is *)
(* the right one only while the precision is finer than an average can be  *)
(* close to a tick.                                                        *)
RoundsDown(b) ==
    \A qty \in 1 .. Total(b) : qty * (TickSize + 1) < 2 * Precision =>
       LET avg == AvgExecPrice(b, qty) IN
       avg * qty <= BestCost(b, qty) /\ BestCost(b, qty) < (avg + TickSize) * qty

(* SumVolume is "the total market order quantity required to fully execute *)
(* the limit order resting at the specified price": by the sums of         *)
(* AvgExecPrice, that quantity executes at the price or better and         *)
(* what comes after it does not.                                           *)
FillsUpTo(b, price) ==
    \A qty \in 1 .. Total(b) :
       qty <= SumVolume(b, price) <=> ~less(b, price, weightedSum(b, qty) - weightedSum(b, qty - 1))

(* The queries agree, so that a caller may use any of them: the map of     *)
(* cumulated volumes has the prices of the book and at each what SumVolume *)
(* returns; GetAsks and GetBids return the best levels of the side, as     *)
(* many as asked for or all, and their volumes add up to SumVolume.        *)
MapAgrees(b) == CalculateVolSumMap(b) = [p \in DOMAIN b.levels |-> SumVolume(b, p)]
VolumeOf(levels) == Visit(LAMBDA s, l : s + l[2], 0, levels)
LevelsAgree(b, depth) ==
    LET got == GetLevels(b, depth) IN
    /\ Len(got) = Min({depth, Cardinality(DOMAIN b.levels)})
    /\ \A i \in 1 .. Len(got) : VolumeOf(SubSeq(got, 1, i)) = SumVolume(b, got[i][1])
=============================================================================
