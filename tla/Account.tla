------------------------------ MODULE Account -------------------------------
(***************************************************************************)
(* What the Dealer keeps about the account besides the strategy's orders:  *)
(* CurrentPosition and UnrelatedOrders, the orders of manual trading and   *)
(* of other bots.  Both follow frames of the private channel, translated   *)
(* for each exchange and handled one after the other by the loop of the    *)
(* channel.  Frames that were on their way when a connection breaks are    *)
(* lost.  Orders have one or more units, which are filled one by one.      *)
(* Orders and a position may be there before the process starts.           *)
(* Definitions whose name starts with Bad are faulty variants.             *)
(***************************************************************************)
EXTENDS Integers, Sequences

CONSTANTS
    Others,      \* orders of others, named by their public IDs
    Size,        \* units of an order
    Holdings,    \* positions that may be held when the process starts
    StartTimes,  \* the process's clock then, the exchange's being at 0
    MaxClock,    \* bound: the exchange's clock
    MaxLosses,   \* bound: connections lost
    MaxWire      \* bound: frames on their way when another is sent

ASSUME AccountAssumption ==
    /\ Size \in Nat \ {0}
    /\ Holdings \subseteq Int /\ StartTimes \subseteq Nat
    /\ {MaxClock, MaxLosses, MaxWire} \subseteq Nat

VARIABLES
    exchange,        \* "coinex" or "bybit"
    book,            \* the exchange's view of the orders
    held,            \* the position at the exchange
    clock,           \* the exchange's clock
    wire,            \* frames on their way, in order
    losses,          \* connections lost so far
    reportedAt,      \* when the position was last reported, -1 before the first time
    missed,          \* "order": a frame was lost; "position": the last report was lost or spoilt
    startedAt,       \* the process's clock at its start
    UnrelatedOrders, \* DealerImpl.UnrelatedOrders
    doneOrders,      \* DealerImpl.doneOrders, the orders of others in it
    value,           \* CurrentPosition.value
    lastUpdateAt     \* CurrentPosition.lastUpdateAt

exchangeVars == <<exchange, book, held, clock, reportedAt, startedAt>>
dealerVars == <<UnrelatedOrders, doneOrders, value, lastUpdateAt>>
vars == <<exchangeVars, wire, losses, missed, dealerVars>>

(* told: a frame said that the order rests in the book. *)
NotSent == [at |-> "none", side |-> 0, filled |-> 0, told |-> FALSE, client |-> FALSE]
SentBefore == [at : {"open"}, side : {-1, 1}, filled : 0 .. Size - 1, told : {FALSE}, client : {FALSE}]

(* NewPosition starts at zero, whatever is held, and takes the local time: *)
(* no exchange time before it counts.                                      *)
Init ==
    /\ exchange \in {"coinex", "bybit"}
    /\ book \in [Others -> {NotSent} \union SentBefore]
    /\ held \in Holdings /\ clock = 0 /\ reportedAt = -1
    /\ wire = <<>> /\ losses = 0 /\ missed = {}
    /\ UnrelatedOrders = {} /\ doneOrders = <<>>
    /\ startedAt \in StartTimes
    /\ value = 0 /\ lastUpdateAt = startedAt
-----------------------------------------------------------------------------
(* The exchange.  An order frame tells the event and how much is filled; a *)
(* position frame has one or more data, each with an index for its mode,   *)
(* side and quantity of the whole position.                                *)

orderFrame(u, event, o) ==
    [kind |-> "order", id |-> u, client |-> o.client, event |-> event, filled |-> o.filled]
positionFrame(idxs, pos) ==
    [kind |-> "position", idxs |-> idxs, at |-> clock,
     side |-> IF pos > 0 THEN "buy" ELSE IF pos < 0 THEN "sell" ELSE "none",
     qty  |-> IF pos > 0 THEN pos ELSE -pos]

(* What an event is called: on CoinEx every end is a finish. *)
eventName(e) ==
    CASE exchange = "coinex" -> [new |-> "put", fill |-> "update", amend |-> "modify",
                                 full |-> "finish", cancel |-> "finish", reject |-> "finish"][e]
      [] exchange = "bybit"  -> [new |-> "New", fill |-> "PartiallyFilled", amend |-> "New",
                                 full |-> "Filled", cancel |-> "Cancelled",
                                 reject |-> "Rejected"][e]

(* A fill is reported by a frame with one datum of one-way mode.  Bybit's  *)
(* frames have room for more, so two reports may come as one.              *)
Reports == IF exchange = "bybit" THEN {<< 0 >>, <<0, 0>>} ELSE {<< 0 >>}

(* Order u becomes o, with units filled, and the frames are sent. *)
change(u, o, e, units, idxs) ==
    /\ Len(wire) < MaxWire
    /\ book' = [book EXCEPT ![u] = o]
    /\ held' = held + o.side * units
    /\ wire' = wire \o <<orderFrame(u, eventName(e), o)>>
                    \o (IF units = 0 THEN <<>> ELSE <<positionFrame(idxs, held')>>)
    /\ reportedAt' = IF units = 0 THEN reportedAt ELSE clock
    /\ missed' = IF units = 0 THEN missed
                 ELSE IF idxs = << 0 >> THEN missed \ {"position"} ELSE missed \union {"position"}
    /\ UNCHANGED <<exchange, clock, startedAt, losses, dealerVars>>

Enter(u, side, client, f, idxs) ==
    LET o == [at |-> IF f = Size THEN "done" ELSE "open", side |-> side, filled |-> f,
              told |-> f = 0, client |-> client]
    IN  /\ book[u].at = "none"
        /\ change(u, o,
                  IF f = Size THEN "full" ELSE IF f = 0 \/ exchange = "coinex" THEN "new" ELSE "fill",
                  f, idxs)

Fill(u, idxs) ==
    LET f == book[u].filled + 1
    IN  /\ book[u].at = "open"
        /\ change(u, [book[u] EXCEPT !.filled = f, !.at = IF f = Size THEN "done" ELSE "open"],
                  IF f = Size THEN "full" ELSE "fill", 1, idxs)

(* Bybit goes on to call an order with fills PartiallyFilled. *)
Amend(u) ==
    LET resting == exchange = "coinex" \/ book[u].filled = 0
    IN  /\ book[u].at = "open"
        /\ change(u, [book[u] EXCEPT !.told = @ \/ resting],
                  IF resting THEN "amend" ELSE "fill", 0, <<>>)

End(u, e) ==
    /\ book[u].at = "open"
    /\ change(u, [book[u] EXCEPT !.at = "done"], e, 0, <<>>)

(* A report in hedge mode: one datum or both, or one beside a one-way one. *)
HedgeReports == {<< 1 >>, << 2 >>, <<1, 2>>, <<0, 1>>}

Hedge ==
    /\ exchange = "bybit" /\ Len(wire) < MaxWire
    /\ \E idxs \in HedgeReports : wire' = Append(wire, positionFrame(idxs, 1))
    /\ UNCHANGED <<exchangeVars, losses, missed, dealerVars>>

Tick ==
    /\ clock < MaxClock /\ clock' = clock + 1
    /\ UNCHANGED <<exchange, book, held, reportedAt, startedAt, wire, losses, missed, dealerVars>>

(* A connection breaks with all that is on its way. *)
Lose ==
    /\ losses < MaxLosses /\ wire # <<>>
    /\ losses' = losses + 1
    /\ missed' = missed \union {wire[k].kind : k \in DOMAIN wire}
    /\ wire' = <<>>
    /\ UNCHANGED <<exchangeVars, dealerVars>>
-----------------------------------------------------------------------------
BadTranslateCoinEx(event, filled) ==   \* every finish is a fill
    CASE event = "put" -> IF filled = 0 THEN "Opened" ELSE "PartiallyFilled"
      [] event = "update" -> "PartiallyFilled"
      [] event = "modify" -> "Opened"
      [] event = "finish" -> IF filled > 0 THEN "Filled" ELSE "Unknown"

(* The status translators; nothing else is sent of these orders. *)
TranslateCoinEx(event, filled) ==
    CASE event = "put" -> IF filled = 0 THEN "Opened" ELSE "PartiallyFilled"
      [] event = "update" -> "PartiallyFilled"
      [] event = "modify" -> "Opened"
      [] event = "finish" -> IF filled = Size THEN "Filled" ELSE "Canceled"

TranslateBybit(status) ==
    CASE status = "New" -> "Opened"
      [] status \in {"Rejected", "PartiallyFilled", "Filled"} -> status
      [] status = "Cancelled" -> "Canceled"

(* TranslateToData, for orders and for positions. *)
OrderData(f) ==
    [HasID |-> f.client, PublicID |-> f.id,
     Status |-> IF exchange = "coinex" THEN TranslateCoinEx(f.event, f.filled)
                                       ELSE TranslateBybit(f.event)]

PositionMode(idx) ==
    CASE idx = 0 -> "oneWay" [] idx = 1 -> "hedgeBuy" [] idx = 2 -> "hedgeSell"

PositionData(f) ==
    [k \in DOMAIN f.idxs |->
       [Timestamp |-> f.at, Side |-> f.side, Qty |-> f.qty,
        PositionMode |-> IF exchange = "coinex" THEN "oneWay" ELSE PositionMode(f.idxs[k])]]

isDone(data) == data.Status \in {"Filled", "Canceled", "Rejected"}
isUnrelated(data) == ~data.HasID

BadHandleOrderData ==   \* the order stays in UnrelatedOrders
    /\ wire # <<>> /\ Head(wire).kind = "order"
    /\ LET data == OrderData(Head(wire))
           id   == data.PublicID
       IN  IF isUnrelated(data)
           THEN /\ UnrelatedOrders' = IF data.Status = "Opened"
                                      THEN UnrelatedOrders \union {id} ELSE UnrelatedOrders
                /\ doneOrders' = IF isDone(data) /\ id \in UnrelatedOrders
                                 THEN Append(doneOrders, id) ELSE doneOrders
           ELSE UNCHANGED <<UnrelatedOrders, doneOrders>>
    /\ wire' = Tail(wire)
    /\ UNCHANGED <<exchangeVars, losses, missed, value, lastUpdateAt>>

(* HandleOrderData, for the orders of others. *)
HandleOrderData ==
    /\ wire # <<>> /\ Head(wire).kind = "order"
    /\ LET data == OrderData(Head(wire))
           id   == data.PublicID
       IN  \/ /\ isUnrelated(data) /\ data.Status = "Opened"
              /\ UnrelatedOrders' = UnrelatedOrders \union {id}
              /\ UNCHANGED doneOrders
           \/ /\ isUnrelated(data) /\ isDone(data) /\ id \in UnrelatedOrders
              /\ UnrelatedOrders' = UnrelatedOrders \ {id}
              /\ doneOrders' = Append(doneOrders, id)
           \/ /\ \/ ~isUnrelated(data)
                 \/ data.Status # "Opened" /\ ~(isDone(data) /\ id \in UnrelatedOrders)
              /\ UNCHANGED <<UnrelatedOrders, doneOrders>>
    /\ wire' = Tail(wire)
    /\ UNCHANGED <<exchangeVars, losses, missed, value, lastUpdateAt>>

ToSize(side, qty) == IF side = "buy" THEN qty ELSE IF side = "sell" THEN -qty ELSE 0

BadUpdateAllowed(data) == data.Timestamp > lastUpdateAt   \* of two changes in one moment the first stays

UpdateAllowed(data) == data.Timestamp >= lastUpdateAt

(* extractPositionData wants one datum of one-way mode and nothing else. *)
extractable(datas) ==
    LET oneWayDatas == {k \in DOMAIN datas : datas[k].PositionMode = "oneWay"}
    IN  DOMAIN datas = oneWayDatas /\ oneWayDatas = {1}

HandlePositionData ==
    /\ wire # <<>> /\ Head(wire).kind = "position"
    /\ LET datas == PositionData(Head(wire))
           data  == datas[1] IN
          IF extractable(datas) /\ UpdateAllowed(data)
          THEN value' = ToSize(data.Side, data.Qty) /\ lastUpdateAt' = data.Timestamp
          ELSE UNCHANGED <<value, lastUpdateAt>>
    /\ wire' = Tail(wire)
    /\ UNCHANGED <<exchangeVars, losses, missed, UnrelatedOrders, doneOrders>>
-----------------------------------------------------------------------------
Next ==
    \/ \E u \in Others :
          \/ \E side \in {-1, 1}, client \in BOOLEAN, f \in 0 .. Size, idxs \in Reports :
                Enter(u, side, client, f, idxs)
          \/ \E idxs \in Reports : Fill(u, idxs)
          \/ Amend(u)
          \/ \E e \in {"cancel", "reject"} : End(u, e)
    \/ Hedge \/ Tick \/ Lose
    \/ HandleOrderData \/ HandlePositionData

Spec == Init /\ [][Next]_vars

-----------------------------------------------------------------------------
(* Type invariant. *)
TypeOK ==
    /\ exchange \in {"coinex", "bybit"}
    /\ book \in [Others -> [at : {"none", "open", "done"}, side : {-1, 0, 1}, filled : 0 .. Size,
                            told : BOOLEAN, client : BOOLEAN]]
    /\ held \in Int /\ clock \in 0 .. MaxClock /\ losses \in 0 .. MaxLosses
    /\ reportedAt \in -1 .. MaxClock /\ startedAt \in StartTimes
    /\ missed \subseteq {"order", "position"}
    /\ UnrelatedOrders \subseteq Others
    /\ doneOrders \in Seq(Others)
    /\ value \in Int /\ lastUpdateAt \in (0 .. MaxClock) \union {startedAt}

pending(kind) == \E k \in DOMAIN wire : wire[k].kind = kind

(* When no position frame is on its way, CurrentPosition is the position   *)
(* at the exchange, whatever fills, hedge reports, lost connections and    *)
(* changes within one moment came before.  The code has these exceptions:  *)
(* a position nobody has reported since the process started, or that was   *)
(* last reported with a time before the process's own start, by a clock    *)
(* that is behind; a last report that was lost with its connection, or     *)
(* came in one frame with another, both of which HandlePositionData drops. *)
PositionFollows ==
    ~pending("position") /\ "position" \notin missed /\ reportedAt >= startedAt => value = held

(* When no order frame is on its way or was lost, UnrelatedOrders are the  *)
(* orders of manual trading that are open at the exchange and that a frame *)
(* has told to rest there.  The code's exceptions are thus an order that   *)
(* carries a client ID, as one of another bot may, and one that was there  *)
(* before the process or was partly filled as it entered the book: it is   *)
(* tracked from an amendment on (on Bybit, only one before any fill).      *)
TracksOthers ==
    ~pending("order") /\ "order" \notin missed =>
       UnrelatedOrders = {u \in Others : book[u].at = "open" /\ ~book[u].client /\ book[u].told}

(* An order of others is handed over as done at most once, and not while   *)
(* it is still tracked, lost frames or not.                                *)
DoneOnce ==
    /\ \A i, j \in DOMAIN doneOrders : doneOrders[i] = doneOrders[j] => i = j
    /\ \A i \in DOMAIN doneOrders : doneOrders[i] \notin UnrelatedOrders
=============================================================================
