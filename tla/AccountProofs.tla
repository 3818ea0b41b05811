--------------------------- MODULE AccountProofs ---------------------------
(***************************************************************************)
(* What holds of CurrentPosition, UnrelatedOrders and doneOrders for any   *)
(* number of orders, of any size, and any number of lost connections.  The *)
(* invariant says what the frames on their way tell: the last report of    *)
(* the position is the position (Positions), an order's end is its last    *)
(* frame (Ends), and as long as no frame was lost UnrelatedOrders and the  *)
(* frames still to come agree with the exchange's book (Tracking).         *)
(***************************************************************************)
EXTENDS Account, TLAPS

Events == IF exchange = "coinex" THEN {"put", "update", "modify", "finish"}
          ELSE {"New", "PartiallyFilled", "Filled", "Cancelled", "Rejected"}
OrderFrames == [kind : {"order"}, id : Others, client : BOOLEAN, event : Events, filled : 0 .. Size]
IdxLists == {<< 0 >>, <<0, 0>>} \union HedgeReports
PositionFrames == [kind : {"position"}, idxs : IdxLists, at : Nat, side : {"buy", "sell", "none"},
                   qty : Nat]

Order == [at : {"none", "open", "done"}, side : {-1, 0, 1}, filled : 0 .. Size, told : BOOLEAN,
          client : BOOLEAN]

Typed ==
    /\ exchange \in {"coinex", "bybit"}
    /\ book \in [Others -> Order]
    /\ held \in Int /\ clock \in Nat /\ value \in Int /\ lastUpdateAt \in Nat
    /\ reportedAt \in Int /\ startedAt \in Nat
    /\ wire \in Seq(OrderFrames \union PositionFrames)
    /\ doneOrders \in Seq(Others)
    /\ UnrelatedOrders \subseteq Others

(* The k-th frame on its way: a report of the position HandlePositionData  *)
(* applies; a frame of order u, and what HandleOrderData sees in it.       *)
Report(k) == wire[k].kind = "position" /\ wire[k].idxs = << 0 >>
Of(k, u) == wire[k].kind = "order" /\ wire[k].id = u
Opened(k) == OrderData(wire[k]).Status = "Opened"
Done(k) == isDone(OrderData(wire[k]))

(* Reports come in the order of the clock, so only those of before the     *)
(* process's own start are refused as too old; the last one tells the      *)
(* position, unless it was lost or spoilt, and after it CurrentPosition    *)
(* does.                                                                   *)
Positions ==
    /\ lastUpdateAt <= clock \/ lastUpdateAt = startedAt
    /\ \A k \in DOMAIN wire : wire[k].kind = "position" =>
          /\ lastUpdateAt <= wire[k].at \/ lastUpdateAt = startedAt
          /\ wire[k].at <= clock
          /\ exchange = "coinex" => wire[k].idxs = << 0 >>
          /\ \A j \in DOMAIN wire : wire[j].kind = "position" /\ j < k => wire[j].at <= wire[k].at
    /\ \A k \in DOMAIN wire :
          /\ "position" \notin missed
          /\ Report(k) /\ (\A j \in DOMAIN wire : Report(j) => j <= k)
          => ToSize(wire[k].side, wire[k].qty) = held /\ wire[k].at = reportedAt
    /\ (\A k \in DOMAIN wire : ~Report(k)) /\ "position" \notin missed /\ reportedAt >= startedAt
          => value = held

(* An order that is tracked was sent without a client ID and told to rest  *)
(* in the book; the others have no frame that opens them.                  *)
Trackable(u) == book[u].at # "none" /\ ~book[u].client /\ book[u].told

Kinds ==
    /\ \A u \in Others : book[u].at = "open" => book[u].filled < Size
    /\ \A u \in UnrelatedOrders : Trackable(u)
    /\ \A k \in DOMAIN wire, u \in Others : Of(k, u) =>
          /\ book[u].at # "none" /\ wire[k].client = book[u].client
          /\ Opened(k) => book[u].told

(* The end of an order is its last frame, and is told by it; what is in    *)
(* doneOrders has no frame any more.                                       *)
Ended(u) ==
    /\ \A k \in DOMAIN wire : Of(k, u) /\ Done(k) =>
          book[u].at = "done" /\ \A j \in DOMAIN wire : Of(j, u) => j <= k
    /\ \A k \in DOMAIN wire : Of(k, u) /\ book[u].at = "done" =>
          \E j \in DOMAIN wire : Of(j, u) /\ Done(j)

Ends ==
    /\ \A u \in Others : Ended(u)
    /\ \A i \in DOMAIN doneOrders :
          /\ book[doneOrders[i]].at = "done"
          /\ \A k \in DOMAIN wire : ~Of(k, doneOrders[i])

(* Without losses: an order not tracked yet has a frame that opens it on   *)
(* its way, and one that is tracked is open or its end is on its way.      *)
Tracked(u) ==
    /\ u \notin UnrelatedOrders =>
          \/ \E k \in DOMAIN wire : Of(k, u) /\ Opened(k)
          \/ book[u].at = "done" /\ \A k \in DOMAIN wire : ~Of(k, u)
    /\ u \in UnrelatedOrders =>
          book[u].at = "open" \/ \E k \in DOMAIN wire : Of(k, u) /\ Done(k)

Tracking == "order" \notin missed => \A u \in Others : Trackable(u) => Tracked(u)

Inv == Typed /\ Positions /\ Kinds /\ Ends /\ DoneOnce /\ Tracking
-----------------------------------------------------------------------------
(* Nothing on its way, nothing tracked. *)
LEMMA InitInv == Init => Inv
<1> SUFFICES ASSUME Init PROVE Inv
    BY Zenon
<1>1. Typed
  <2>1. 0 \in 0 .. Size /\ 0 .. Size - 1 \subseteq 0 .. Size
      BY AccountAssumption
  <2>2. NotSent \in Order /\ SentBefore \subseteq Order
      BY <2>1, Zenon DEF NotSent, SentBefore, Order
  <2>3. book \in [Others -> Order]
      BY <2>2 DEF Init
  <2>4. held \in Int /\ startedAt \in Nat
      BY AccountAssumption, Zenon DEF Init
  <2> QED
      BY <2>3, <2>4 DEF Init, Typed
<1>2. wire = <<>> /\ DOMAIN wire = {} /\ doneOrders = <<>> /\ DOMAIN doneOrders = {}
    BY DEF Init
<1>3. \A u \in Others : ~book[u].told /\ (book[u].at = "open" => book[u].filled < Size)
  <2>1. \A o \in SentBefore : ~o.told /\ o.filled \in 0 .. Size - 1
      BY Zenon DEF SentBefore
  <2>2. \A x \in 0 .. Size - 1 : x < Size
      BY AccountAssumption
  <2>3. ~NotSent.told /\ NotSent.at # "open"
      BY DEF NotSent
  <2>4. ASSUME NEW u \in Others PROVE book[u] = NotSent \/ book[u] \in SentBefore
      BY Zenon DEF Init
  <2> QED
      BY <2>1, <2>2, <2>3, <2>4, Zenon
<1>4. Positions
  <2>1. reportedAt = -1 /\ startedAt \in Nat /\ lastUpdateAt = startedAt
      BY <1>1, Zenon DEF Init, Typed
  <2>2. ~(reportedAt >= startedAt)
      BY <2>1
  <2> QED
      BY <1>2, <2>1, <2>2, Zenon DEF Positions
<1>5. Kinds /\ Ends
    BY <1>2, <1>3, Zenon DEF Init, Kinds, Ends, Ended
<1>6. DoneOnce /\ Tracking
    BY <1>2, <1>3, Zenon DEF DoneOnce, Tracking, Trackable
<1> QED
    BY <1>1, <1>4, <1>5, <1>6, Zenon DEF Inv

(* The wire is a sequence of frames. *)
LEMMA WireTyped ==
    ASSUME Typed
    PROVE /\ Len(wire) \in Nat /\ DOMAIN wire = 1 .. Len(wire)
          /\ \A k \in DOMAIN wire : wire[k] \in OrderFrames \/ wire[k] \in PositionFrames
BY DEF Typed

(* The exchange, and with it the translation of frames, stays the same. *)
LEMMA SameFrames ==
    ASSUME exchange' = exchange
    PROVE OrderFrames' = OrderFrames /\ PositionFrames' = PositionFrames
BY Zenon DEF OrderFrames, PositionFrames, Events

(* What HandleOrderData makes of the frame of an event e of an order o. *)
LEMMA Translated ==
    ASSUME exchange \in {"coinex", "bybit"}, NEW u \in Others, NEW o \in Order,
           NEW e \in {"new", "fill", "amend", "full", "cancel", "reject"},
           e = "new" /\ exchange = "bybit" => o.filled = 0
    PROVE LET f == orderFrame(u, eventName(e), o) IN
          /\ f \in OrderFrames /\ f.kind = "order" /\ f.id = u /\ f.client = o.client
          /\ OrderData(f).Status = "Opened" <=> (e = "new" /\ o.filled = 0) \/ e = "amend"
          /\ isDone(OrderData(f)) <=> e \in {"full", "cancel", "reject"}
<1> DEFINE f == orderFrame(u, eventName(e), o)
<1>1. f.kind = "order" /\ f.id = u /\ f.client = o.client /\ f.event = eventName(e)
         /\ f.filled = o.filled
    BY Zenon DEF orderFrame
<1>2. CASE exchange = "coinex"
  <2>1. /\ e = "new" => eventName(e) = "put"
        /\ e = "fill" => eventName(e) = "update"
        /\ e = "amend" => eventName(e) = "modify"
        /\ e \in {"full", "cancel", "reject"} => eventName(e) = "finish"
      BY <1>2 DEF eventName
  <2>2. f \in OrderFrames
      BY <1>2, <2>1, Zenon DEF orderFrame, OrderFrames, Events, Order
  <2>3. OrderData(f).Status = TranslateCoinEx(eventName(e), o.filled)
      BY <1>1, <1>2, Zenon DEF OrderData
  <2>4. /\ OrderData(f).Status = "Opened" <=> (e = "new" /\ o.filled = 0) \/ e = "amend"
        /\ isDone(OrderData(f)) <=> e \in {"full", "cancel", "reject"}
      BY <2>1, <2>3, Zenon DEF TranslateCoinEx, isDone
  <2> QED
      BY <1>1, <2>2, <2>4, Zenon
<1>3. CASE exchange = "bybit"
  <2>1. /\ e = "new" \/ e = "amend" => eventName(e) = "New"
        /\ e = "fill" => eventName(e) = "PartiallyFilled"
        /\ e = "full" => eventName(e) = "Filled"
        /\ e = "cancel" => eventName(e) = "Cancelled"
        /\ e = "reject" => eventName(e) = "Rejected"
      BY <1>3 DEF eventName
  <2>2. f \in OrderFrames
      BY <1>3, <2>1, Zenon DEF orderFrame, OrderFrames, Events, Order
  <2>3. OrderData(f).Status = TranslateBybit(eventName(e))
      BY <1>1, <1>3, Zenon DEF OrderData
  <2>4. /\ OrderData(f).Status = "Opened" <=> (e = "new" /\ o.filled = 0) \/ e = "amend"
        /\ isDone(OrderData(f)) <=> e \in {"full", "cancel", "reject"}
      BY <1>3, <2>1, <2>3, Zenon DEF TranslateBybit, isDone
  <2> QED
      BY <1>1, <2>2, <2>4
<1> QED
    BY <1>2, <1>3, Zenon

(* A frame of a position tells it: TranslateToData and ToSize undo what     *)
(* the exchange reports as a side and a quantity.                           *)
LEMMA ReportTells ==
    ASSUME Typed, NEW idxs \in IdxLists, NEW pos \in Int
    PROVE LET f == positionFrame(idxs, pos) IN
          /\ f \in PositionFrames /\ f.kind = "position" /\ f.idxs = idxs /\ f.at = clock
          /\ ToSize(f.side, f.qty) = pos
<1> DEFINE side == IF pos > 0 THEN "buy" ELSE IF pos < 0 THEN "sell" ELSE "none"
           qty == IF pos > 0 THEN pos ELSE -pos
<1>1. side \in {"buy", "sell", "none"} /\ qty \in Nat /\ ToSize(side, qty) = pos
    BY DEF ToSize
<1>2. positionFrame(idxs, pos)
         = [kind |-> "position", idxs |-> idxs, at |-> clock, side |-> side, qty |-> qty]
    BY Zenon DEF positionFrame
<1>3. clock \in Nat
    BY Zenon DEF Typed
<1> HIDE DEF side, qty
<1> QED
    BY <1>1, <1>2, <1>3 DEF PositionFrames

(* HandlePositionData applies a frame with one datum of one-way mode. *)
LEMMA Extracted ==
    ASSUME Typed, NEW f \in PositionFrames, exchange = "coinex" => f.idxs = << 0 >>
    PROVE /\ extractable(PositionData(f)) <=> f.idxs = << 0 >>
          /\ f.idxs = << 0 >> => /\ PositionData(f)[1].Timestamp = f.at
                                 /\ PositionData(f)[1].Side = f.side
                                 /\ PositionData(f)[1].Qty = f.qty
<1>1. f.idxs \in {<< 0 >>, <<0, 0>>, << 1 >>, << 2 >>, <<1, 2>>, <<0, 1>>} /\ exchange \in {"coinex", "bybit"}
    BY Zenon DEF PositionFrames, IdxLists, HedgeReports, Typed
<1>2. CASE f.idxs = << 0 >>
  <2>1. DOMAIN PositionData(f) = {1}
      BY <1>2 DEF PositionData
  <2>2. /\ PositionData(f)[1].PositionMode = "oneWay" /\ PositionData(f)[1].Timestamp = f.at
        /\ PositionData(f)[1].Side = f.side /\ PositionData(f)[1].Qty = f.qty
      BY <1>1, <1>2 DEF PositionData, PositionMode
  <2> QED
      BY <1>2, <2>1, <2>2 DEF extractable
<1>3. CASE f.idxs # << 0 >>
  <2>1. exchange = "bybit"
      BY <1>1, <1>3, Zenon
  <2>2. CASE f.idxs = << 1 >> \/ f.idxs = << 2 >>
    <3>1. 1 \in DOMAIN PositionData(f) /\ PositionData(f)[1].PositionMode # "oneWay"
        BY <2>1, <2>2 DEF PositionData, PositionMode
    <3> QED
        BY <1>3, <3>1, Zenon DEF extractable
  <2>3. CASE f.idxs = <<0, 0>> \/ f.idxs = <<1, 2>> \/ f.idxs = <<0, 1>>
    <3>1. 2 \in DOMAIN PositionData(f)
        BY <2>3 DEF PositionData
    <3>2. 2 \notin {1}
        OBVIOUS
    <3> QED
        BY <1>3, <3>1, <3>2, Zenon DEF extractable
  <2> QED
      BY <1>1, <1>3, <2>2, <2>3, Zenon
<1> QED
    BY <1>2, <1>3, Zenon

(* A step of the exchange with order u: o is what u becomes, e the event    *)
(* its frame tells, units how much was filled, idxs how that is reported.   *)
Sends(u, o, e, units, idxs) ==
    /\ u \in Others /\ o \in Order /\ units \in 0 .. Size
    /\ units # 0 => idxs \in Reports
    /\ e \in {"new", "fill", "amend", "full", "cancel", "reject"}
    /\ e = "new" /\ exchange = "bybit" => o.filled = 0
    /\ e \in {"full", "cancel", "reject"} <=> o.at = "done"
    /\ o.at # "none" /\ (o.at = "open" => o.filled < Size)
    /\ \/ /\ book[u].at = "none"
          /\ e # "amend" /\ (o.told <=> e = "new" /\ o.filled = 0)
       \/ /\ book[u].at = "open" /\ e # "new"
          /\ o.client = book[u].client /\ (o.told <=> book[u].told \/ e = "amend")
    /\ change(u, o, e, units, idxs)

(* Enter, Fill, Amend and End are such steps. *)
LEMMA ExchangeSends ==
    ASSUME Typed, Kinds, NEW u \in Others,
           \/ \E side \in {-1, 1}, client \in BOOLEAN, f \in 0 .. Size, idxs \in Reports :
                 Enter(u, side, client, f, idxs)
           \/ \E idxs \in Reports : Fill(u, idxs)
           \/ Amend(u)
           \/ \E e \in {"cancel", "reject"} : End(u, e)
    PROVE \E o, e, units, idxs : Sends(u, o, e, units, idxs)
<1>0. /\ Size \in Nat /\ Size > 0 /\ 0 \in 0 .. Size /\ 1 \in 0 .. Size
      /\ book[u] \in Order /\ book[u].filled \in 0 .. Size
      /\ book[u].at = "open" => book[u].filled < Size
    BY AccountAssumption DEF Typed, Order, Kinds
<1>1. ASSUME NEW side \in {-1, 1}, NEW client \in BOOLEAN, NEW f \in 0 .. Size, NEW idxs \in Reports,
             Enter(u, side, client, f, idxs)
      PROVE \E o, e, units : Sends(u, o, e, units, idxs)
  <2> DEFINE o == [at |-> IF f = Size THEN "done" ELSE "open", side |-> side, filled |-> f,
                   told |-> f = 0, client |-> client]
             e == IF f = Size THEN "full" ELSE IF f = 0 \/ exchange = "coinex" THEN "new" ELSE "fill"
  <2>1. book[u].at = "none" /\ change(u, o, e, f, idxs)
      BY <1>1, Zenon DEF Enter
  <2>2. o \in Order /\ o.at = (IF f = Size THEN "done" ELSE "open") /\ o.filled = f /\ (o.told <=> f = 0)
      BY Zenon DEF Order
  <2>3. /\ e \in {"new", "fill", "full"} /\ (f = 0 => e = "new") /\ (e = "full" <=> f = Size)
        /\ e = "new" /\ exchange = "bybit" => f = 0
        /\ f # Size => f < Size
      BY <1>0 DEF Typed
  <2> HIDE DEF o, e
  <2>4. Sends(u, o, e, f, idxs)
      BY <1>0, <2>1, <2>2, <2>3 DEF Sends
  <2> QED
      BY <2>4, Zenon
<1>2. ASSUME NEW idxs \in Reports, Fill(u, idxs)
      PROVE \E o, e, units : Sends(u, o, e, units, idxs)
  <2> DEFINE f == book[u].filled + 1
             o == [book[u] EXCEPT !.filled = f, !.at = IF f = Size THEN "done" ELSE "open"]
             e == IF f = Size THEN "full" ELSE "fill"
  <2>1. book[u].at = "open" /\ change(u, o, e, 1, idxs)
      BY <1>2, Zenon DEF Fill
  <2>2. f \in 0 .. Size
      BY <1>0, <2>1
  <2>3. /\ o \in Order /\ o.at = (IF f = Size THEN "done" ELSE "open") /\ o.filled = f
        /\ o.told = book[u].told /\ o.client = book[u].client
      BY <1>0, <2>2, Zenon DEF Order
  <2>4. /\ e \in {"fill", "full"} /\ (e = "full" <=> f = Size)
        /\ o.at = "open" => o.filled < Size
      BY <1>0, <2>2, <2>3
  <2> HIDE DEF o, e
  <2>5. Sends(u, o, e, 1, idxs)
      BY <1>0, <2>1, <2>3, <2>4, Zenon DEF Sends
  <2> QED
      BY <2>5, Zenon
<1>3. CASE Amend(u)
  <2> DEFINE resting == exchange = "coinex" \/ book[u].filled = 0
             o == [book[u] EXCEPT !.told = @ \/ resting]
             e == IF resting THEN "amend" ELSE "fill"
  <2>1. book[u].at = "open" /\ change(u, o, e, 0, <<>>)
      BY <1>3, Zenon DEF Amend
  <2>2. /\ o \in Order /\ o.at = book[u].at /\ o.filled = book[u].filled /\ o.client = book[u].client
        /\ o.told <=> book[u].told \/ resting
      BY <1>0, Zenon DEF Order
  <2>3. e \in {"amend", "fill"} /\ (e = "amend" <=> resting)
      BY Zenon
  <2> HIDE DEF o, e, resting
  <2>4. Sends(u, o, e, 0, <<>>)
      BY <1>0, <2>1, <2>2, <2>3, Zenon DEF Sends
  <2> QED
      BY <2>4, Zenon
<1>4. ASSUME NEW e \in {"cancel", "reject"}, End(u, e)
      PROVE \E o, units, idxs : Sends(u, o, e, units, idxs)
  <2> DEFINE o == [book[u] EXCEPT !.at = "done"]
  <2>1. book[u].at = "open" /\ change(u, o, e, 0, <<>>)
      BY <1>4, Zenon DEF End
  <2>2. /\ o \in Order /\ o.at = "done" /\ o.filled = book[u].filled
        /\ o.told = book[u].told /\ o.client = book[u].client
      BY <1>0, Zenon DEF Order
  <2> HIDE DEF o
  <2>3. Sends(u, o, e, 0, <<>>)
      BY <1>0, <2>1, <2>2, Zenon DEF Sends
  <2> QED
      BY <2>3, Zenon
<1> QED
    BY <1>1, <1>2, <1>3, <1>4, Zenon

(* Append as the proofs use it: the old frames keep their places. *)
LEMMA OneMore ==
    ASSUME NEW S, NEW w \in Seq(S), NEW x \in S, NEW n \in Nat, DOMAIN w = 1 .. n
    PROVE /\ Append(w, x) \in Seq(S) /\ DOMAIN Append(w, x) = 1 .. n + 1
          /\ \A k \in 1 .. n : Append(w, x)[k] = w[k]
          /\ Append(w, x)[n + 1] = x
<1>1. Len(w) = n
    OBVIOUS
<1> QED
    BY <1>1

(* What such a step puts on the wire: the order's frame, and a report of    *)
(* the position when something was filled.                                  *)
LEMMA FramesSent ==
    ASSUME Typed, NEW u, NEW o, NEW e, NEW units, NEW idxs, Sends(u, o, e, units, idxs)
    PROVE /\ wire' \in Seq(OrderFrames \union PositionFrames) /\ held' \in Int
          /\ units = 0 => held' = held /\ reportedAt' = reportedAt /\ missed' = missed
          /\ units # 0 => /\ idxs \in Reports /\ reportedAt' = clock
                          /\ "position" \notin missed' <=> idxs = << 0 >>
          /\ \E n \in Nat :
                /\ DOMAIN wire = 1 .. n /\ \A k \in 1 .. n : wire'[k] = wire[k]
                /\ wire'[n + 1] = orderFrame(u, eventName(e), o)
                /\ units = 0 => DOMAIN wire' = 1 .. n + 1
                /\ units # 0 => /\ DOMAIN wire' = 1 .. n + 2
                                /\ wire'[n + 2] = positionFrame(idxs, held')
<1> DEFINE F == OrderFrames \union PositionFrames
           f == orderFrame(u, eventName(e), o)
           r == positionFrame(idxs, held')
<1>1. wire \in Seq(F) /\ f \in OrderFrames
    BY Translated DEF Typed, Sends
<1>2. o.side \in Int /\ units \in Int /\ held \in Int
    BY AccountAssumption DEF Sends, Order, Typed
<1>3. /\ held' = held + o.side * units
      /\ wire' = wire \o <<f>> \o (IF units = 0 THEN <<>> ELSE <<r>>)
      /\ units = 0 => reportedAt' = reportedAt /\ missed' = missed
      /\ units # 0 => /\ idxs \in Reports /\ reportedAt' = clock
                      /\ "position" \notin missed' <=> idxs = << 0 >>
    BY Zenon DEF Sends, change
<1>4. held' \in Int /\ (units = 0 => held' = held)
    BY <1>2, <1>3
<1>5. units # 0 => r \in PositionFrames
    BY <1>3, <1>4, ReportTells, Zenon DEF Reports, IdxLists
<1> HIDE DEF F, f, r
<1>6. f \in F /\ (units # 0 => r \in F)
    BY <1>1, <1>5, Zenon DEF F
<1>7. PICK n \in Nat : DOMAIN wire = 1 .. n
    BY <1>1
<1>8. \A w \in Seq(F), x \in F : w \o <<x>> = Append(w, x) /\ Append(w, x) \o <<>> = Append(w, x)
    OBVIOUS
<1>9. /\ Append(wire, f) \in Seq(F) /\ DOMAIN Append(wire, f) = 1 .. n + 1
      /\ \A k \in 1 .. n : Append(wire, f)[k] = wire[k]
      /\ Append(wire, f)[n + 1] = f
    BY <1>1, <1>6, <1>7, OneMore
<1>10. ASSUME units = 0
       PROVE /\ wire' \in Seq(F) /\ DOMAIN wire' = 1 .. n + 1
             /\ \A k \in 1 .. n : wire'[k] = wire[k]
             /\ wire'[n + 1] = f
  <2>1. wire' = Append(wire, f)
      BY <1>1, <1>3, <1>6, <1>8, <1>10, Zenon
  <2> QED
      BY <1>9, <2>1, Zenon
<1>11. ASSUME units # 0
       PROVE /\ wire' \in Seq(F) /\ DOMAIN wire' = 1 .. n + 2
             /\ \A k \in 1 .. n : wire'[k] = wire[k]
             /\ wire'[n + 1] = f /\ wire'[n + 2] = r
  <2> DEFINE w == Append(wire, f)
  <2>1. wire' = Append(w, r)
      BY <1>1, <1>3, <1>6, <1>8, <1>9, <1>11, Zenon
  <2>2. n + 1 \in Nat /\ n + 1 + 1 = n + 2 /\ \A k \in 1 .. n : k \in 1 .. n + 1
      BY <1>7
  <2> HIDE DEF w
  <2>3. /\ Append(w, r) \in Seq(F) /\ DOMAIN Append(w, r) = 1 .. n + 1 + 1
        /\ \A k \in 1 .. n + 1 : Append(w, r)[k] = w[k]
        /\ Append(w, r)[n + 1 + 1] = r
      BY <1>6, <1>9, <1>11, <2>2, OneMore DEF w
  <2>4. n + 1 \in 1 .. n + 1
      BY <1>7
  <2> QED
      BY <1>9, <2>1, <2>2, <2>3, <2>4, Zenon DEF w
<1>12. wire' \in Seq(F)
    BY <1>10, <1>11, Zenon
<1>13. /\ \A k \in 1 .. n : wire'[k] = wire[k]
       /\ wire'[n + 1] = f
       /\ units = 0 => DOMAIN wire' = 1 .. n + 1
       /\ units # 0 => DOMAIN wire' = 1 .. n + 2 /\ wire'[n + 2] = r
    BY <1>10, <1>11, Zenon
<1> QED
    BY <1>3, <1>4, <1>7, <1>12, <1>13, Zenon DEF F, f, r

(* The same in the terms of the invariant: n is the order's new frame. *)
Grows(n, u, o, e) ==
    /\ n \in Nat /\ n \in DOMAIN wire' /\ n \notin DOMAIN wire
    /\ \A k \in DOMAIN wire : k \in Nat /\ k < n /\ k \in DOMAIN wire'
    /\ \A k \in DOMAIN wire', x \in Others :
          Of(k, x)' <=> (k \in DOMAIN wire /\ Of(k, x)) \/ (k = n /\ x = u)
    /\ \A k \in DOMAIN wire : /\ Opened(k)' <=> Opened(k)
                              /\ Done(k)' <=> Done(k)
                              /\ wire'[k] = wire[k]
    /\ wire'[n].client = o.client
    /\ Opened(n)' <=> (e = "new" /\ o.filled = 0) \/ e = "amend"
    /\ Done(n)' <=> o.at = "done"

LEMMA SentFrames ==
    ASSUME Typed, NEW u, NEW o, NEW e, NEW units, NEW idxs, Sends(u, o, e, units, idxs)
    PROVE \E n : Grows(n, u, o, e)
<1> DEFINE f == orderFrame(u, eventName(e), o)
           r == positionFrame(idxs, held')
<1>1. PICK n \in Nat :
         /\ DOMAIN wire = 1 .. n /\ \A k \in 1 .. n : wire'[k] = wire[k]
         /\ wire'[n + 1] = f
         /\ units = 0 => DOMAIN wire' = 1 .. n + 1
         /\ units # 0 => DOMAIN wire' = 1 .. n + 2 /\ wire'[n + 2] = r
    BY FramesSent
<1>2. /\ f.kind = "order" /\ f.id = u /\ f.client = o.client
      /\ OrderData(f).Status = "Opened" <=> (e = "new" /\ o.filled = 0) \/ e = "amend"
      /\ isDone(OrderData(f)) <=> e \in {"full", "cancel", "reject"}
    BY Translated, SMTT(30) DEF Sends, Typed
<1>3. r.kind = "position"
    BY Zenon DEF positionFrame
<1> HIDE DEF f, r
<1>4. /\ n + 1 \in Nat /\ n + 1 \in DOMAIN wire' /\ n + 1 \notin DOMAIN wire
      /\ n + 2 \notin DOMAIN wire /\ n + 1 # n + 2
      /\ \A k \in DOMAIN wire : k \in Nat /\ k < n + 1 /\ k \in DOMAIN wire'
      /\ \A k \in DOMAIN wire' : k \in DOMAIN wire \/ k = n + 1 \/ (k = n + 2 /\ units # 0)
    BY <1>1
<1>5. exchange' = exchange /\ u \in Others
    BY Zenon DEF Sends, change
<1>6. \A k \in DOMAIN wire : (Opened(k)' <=> Opened(k)) /\ (Done(k)' <=> Done(k))
    BY <1>1, <1>5, ZenonT(40) DEF Opened, Done, OrderData, TranslateCoinEx, TranslateBybit, isDone
<1>7. /\ Opened(n + 1)' <=> OrderData(f).Status = "Opened"
      /\ Done(n + 1)' <=> isDone(OrderData(f))
    BY <1>1, <1>5, Zenon DEF Opened, Done, OrderData, TranslateCoinEx, TranslateBybit, isDone
<1>8. /\ Opened(n + 1)' <=> (e = "new" /\ o.filled = 0) \/ e = "amend"
      /\ Done(n + 1)' <=> o.at = "done"
    BY <1>2, <1>7, Zenon DEF Sends
<1>9. ASSUME NEW k \in DOMAIN wire', NEW x \in Others
       PROVE  Of(k, x)' <=> (k \in DOMAIN wire /\ Of(k, x)) \/ (k = n + 1 /\ x = u)
  <2>1. CASE k \in DOMAIN wire
      BY <1>1, <1>4, <2>1, Zenon DEF Of
  <2>2. CASE k = n + 1
      BY <1>1, <1>2, <1>4, <2>2, Zenon DEF Of
  <2>3. CASE k = n + 2 /\ units # 0
      BY <1>1, <1>3, <1>4, <2>3, Zenon DEF Of
  <2> QED
      BY <1>4, <2>1, <2>2, <2>3, Zenon
<1>10. wire'[n + 1].client = o.client /\ \A k \in DOMAIN wire : wire'[k] = wire[k]
    BY <1>1, <1>2, Zenon
<1>11. Grows(n + 1, u, o, e)
    BY <1>4, <1>6, <1>8, <1>9, <1>10, Zenon DEF Grows
<1> QED
    BY <1>11, Zenon

(* What the exchange's step does to its own book, and what it leaves. *)
LEMMA SentBook ==
    ASSUME Typed, NEW u, NEW o, NEW e, NEW units, NEW idxs, Sends(u, o, e, units, idxs)
    PROVE /\ u \in Others /\ book'[u] = o /\ DOMAIN book' = Others
          /\ \A x \in Others : x # u => book'[x] = book[x]
          /\ UNCHANGED <<exchange, clock, startedAt, UnrelatedOrders, doneOrders, value, lastUpdateAt>>
          /\ "order" \in missed' <=> "order" \in missed
BY Zenon DEF Sends, change, dealerVars, Typed

(* A step of the exchange keeps what is known of the orders. *)
LEMMA SendsKeepsOrders ==
    ASSUME Inv, NEW u, NEW o, NEW e, NEW units, NEW idxs, Sends(u, o, e, units, idxs)
    PROVE  Kinds' /\ Ends' /\ DoneOnce' /\ Tracking'
<1> USE DEF Inv
<1>1. PICK n : Grows(n, u, o, e)
    BY SentFrames, Zenon
<1>2. /\ u \in Others /\ book'[u] = o /\ DOMAIN book' = Others
      /\ \A x \in Others : x # u => book'[x] = book[x]
      /\ UNCHANGED <<UnrelatedOrders, doneOrders>>
      /\ "order" \in missed' <=> "order" \in missed
    BY SentBook, Zenon
<1>3. o \in Order /\ Size \in Nat
    BY AccountAssumption, Zenon DEF Sends
<1>4. /\ o.at # "none" /\ (o.at = "open" => o.filled < Size)
      /\ book[u].at = "none" \/ book[u].at = "open"
      /\ book[u].at = "none" => e # "amend" /\ (o.told <=> e = "new" /\ o.filled = 0)
      /\ book[u].at = "open" => /\ o.client = book[u].client /\ e # "new"
                                /\ o.told <=> book[u].told \/ e = "amend"
    BY <1>3, Zenon DEF Sends, Order
<1>5. \A k \in DOMAIN wire : ~(book[u].at = "none" /\ Of(k, u)) /\ ~(Of(k, u) /\ Done(k))
    BY <1>2, <1>4, Zenon DEF Kinds, Ends, Ended
<1>6. book[u].at = "none" => u \notin UnrelatedOrders
    BY Zenon DEF Kinds, Trackable
<1>7. \A i \in DOMAIN doneOrders : doneOrders[i] \in Others /\ doneOrders[i] # u
    BY <1>4, SMTT(30) DEF Ends, Ended, Typed
<1>8. Kinds'
  <2>1. \A x \in Others : book'[x].at = "open" => book'[x].filled < Size
      BY <1>2, <1>4, Zenon DEF Kinds
  <2>2. \A x \in UnrelatedOrders' : Trackable(x)'
      BY <1>2, <1>4, <1>6 DEF Kinds, Trackable, Typed
  <2>3. ASSUME NEW k \in DOMAIN wire', NEW x \in Others, Of(k, x)'
        PROVE  /\ book'[x].at # "none" /\ wire'[k].client = book'[x].client
               /\ Opened(k)' => book'[x].told
    <3>1. CASE k \in DOMAIN wire /\ Of(k, x)
        BY <1>1, <1>2, <1>4, <1>5, <3>1 DEF Grows, Kinds
    <3>2. CASE k = n /\ x = u
        BY <1>1, <1>2, <1>4, <3>2 DEF Grows
    <3> QED
        BY <1>1, <2>3, <3>1, <3>2, Zenon DEF Grows
  <2> QED
      BY <2>1, <2>2, <2>3, Zenon DEF Kinds
<1>9. Ends'
  <2>1. ASSUME NEW k \in DOMAIN wire', NEW x \in Others, Of(k, x)', Done(k)'
        PROVE  book'[x].at = "done" /\ \A j \in DOMAIN wire' : Of(j, x)' => j <= k
    <3>1. CASE k \in DOMAIN wire /\ Of(k, x)
        BY <1>1, <1>2, <1>5, <2>1, <3>1, SMTT(30) DEF Grows, Ends, Ended
    <3>2. CASE k = n /\ x = u
        BY <1>1, <1>2, <2>1, <3>2 DEF Grows
    <3> QED
        BY <1>1, <2>1, <3>1, <3>2, Zenon DEF Grows
  <2>2. ASSUME NEW k \in DOMAIN wire', NEW x \in Others, Of(k, x)', book'[x].at = "done"
        PROVE  \E j \in DOMAIN wire' : Of(j, x)' /\ Done(j)'
    <3>1. CASE x = u
        BY <1>1, <1>2, <2>2, <3>1, Zenon DEF Grows
    <3>2. CASE x # u
        BY <1>1, <1>2, <2>2, <3>2 DEF Grows, Ends, Ended
    <3> QED
        BY <3>1, <3>2, Zenon
  <2>3. ASSUME NEW i \in DOMAIN doneOrders
        PROVE  /\ book'[doneOrders[i]].at = "done"
               /\ \A k \in DOMAIN wire' : ~Of(k, doneOrders[i])'
      BY <1>1, <1>2, <1>7, SMTT(30) DEF Grows, Ends, Ended
  <2> QED
      BY <1>2, <2>1, <2>2, <2>3, Zenon DEF Ends, Ended
<1>10. DoneOnce'
    BY <1>2, Zenon DEF DoneOnce
<1>11. Tracking'
  <2> SUFFICES ASSUME NEW x \in Others, "order" \notin missed, Trackable(x)'
               PROVE  /\ x \notin UnrelatedOrders =>
                           \/ \E k \in DOMAIN wire' : Of(k, x)' /\ Opened(k)'
                           \/ book'[x].at = "done" /\ \A k \in DOMAIN wire' : ~Of(k, x)'
                      /\ x \in UnrelatedOrders =>
                           book'[x].at = "open" \/ \E k \in DOMAIN wire' : Of(k, x)' /\ Done(k)'
      BY <1>2, Zenon DEF Tracking, Tracked
  <2>1. CASE x # u
    <3>1. Trackable(x)
        BY <1>2, <2>1 DEF Trackable
    <3> QED
        BY <1>1, <1>2, <2>1, <3>1, Zenon DEF Grows, Tracking, Tracked
  <2>2. CASE x = u /\ book[u].at = "none"
    <3>1. Opened(n)' /\ Of(n, u)'
        BY <1>1, <1>2, <1>4, <2>2, Zenon DEF Grows, Trackable
    <3> QED
        BY <1>1, <1>6, <2>2, <3>1, Zenon DEF Grows
  <2>3. CASE x = u /\ book[u].at = "open"
    <3>1. CASE u \in UnrelatedOrders
        BY <1>1, <1>2, <1>3, <1>4, <2>3, <3>1, Zenon DEF Grows, Order
    <3>2. CASE u \notin UnrelatedOrders /\ e = "amend"
        BY <1>1, <1>2, <2>3, <3>2, Zenon DEF Grows
    <3>3. CASE u \notin UnrelatedOrders /\ e # "amend"
      <4>1. Trackable(u)
          BY <1>2, <1>4, <2>3, <3>3, Zenon DEF Trackable
      <4>2. PICK k \in DOMAIN wire : Of(k, u) /\ Opened(k)
          BY <1>2, <2>3, <3>3, <4>1, Zenon DEF Tracking, Tracked
      <4> QED
          BY <1>1, <1>2, <2>3, <3>3, <4>2, Zenon DEF Grows
    <3> QED
        BY <3>1, <3>2, <3>3, Zenon
  <2> QED
      BY <1>4, <2>1, <2>2, <2>3, Zenon
<1> QED
    BY <1>8, <1>9, <1>10, <1>11, Zenon

(* A step of the exchange keeps what is known of the position: what was     *)
(* filled is in the report it sends.                                        *)
LEMMA SendsKeepsPositions ==
    ASSUME Inv, NEW u, NEW o, NEW e, NEW units, NEW idxs, Sends(u, o, e, units, idxs)
    PROVE  Typed' /\ Positions'
<1> USE DEF Inv
<1> DEFINE f == orderFrame(u, eventName(e), o)
           r == positionFrame(idxs, held')
<1>1. PICK n \in Nat :
         /\ DOMAIN wire = 1 .. n /\ \A k \in 1 .. n : wire'[k] = wire[k]
         /\ wire'[n + 1] = f
         /\ units = 0 => DOMAIN wire' = 1 .. n + 1
         /\ units # 0 => DOMAIN wire' = 1 .. n + 2 /\ wire'[n + 2] = r
    BY FramesSent
<1>2. f.kind = "order"
    BY Zenon DEF orderFrame
<1>3. /\ held' \in Int /\ wire' \in Seq(OrderFrames \union PositionFrames)
      /\ units = 0 => held' = held /\ reportedAt' = reportedAt /\ missed' = missed
      /\ units # 0 => /\ idxs \in Reports /\ reportedAt' = clock
                      /\ "position" \notin missed' <=> idxs = << 0 >>
    BY FramesSent
<1>4. units # 0 => /\ r.kind = "position" /\ r.idxs = idxs /\ r.at = clock
                   /\ ToSize(r.side, r.qty) = held'
    BY <1>3, ReportTells, Zenon DEF Reports, IdxLists
<1> HIDE DEF f, r
<1>5. UNCHANGED <<exchange, clock, startedAt, UnrelatedOrders, doneOrders, value, lastUpdateAt>>
    BY SentBook, Zenon
<1>6. Typed'
  <2>1. book' \in [Others -> Order]
      BY Zenon DEF Sends, change, Typed
  <2>2. OrderFrames' = OrderFrames /\ PositionFrames' = PositionFrames
      BY <1>5, SameFrames, Zenon
  <2>3. reportedAt' \in Int
      BY <1>3 DEF Typed
  <2> QED
      BY <1>3, <1>5, <2>1, <2>2, <2>3, Zenon DEF Typed
<1>7. /\ clock \in Nat /\ lastUpdateAt \in Nat
      /\ \A k \in DOMAIN wire : wire[k].kind = "position" => wire[k].at \in Nat
    BY WireTyped, Zenon DEF Typed, OrderFrames, PositionFrames
<1>8. CASE units = 0
  <2>1. /\ DOMAIN wire' = DOMAIN wire \union {n + 1} /\ n + 1 \notin DOMAIN wire
        /\ \A k \in DOMAIN wire : wire'[k] = wire[k] /\ k \in Nat /\ k < n + 1
      BY <1>1, <1>8
  <2>2. wire'[n + 1].kind = "order"
      BY <1>1, <1>2, Zenon
  <2>3. held' = held /\ missed' = missed /\ reportedAt' = reportedAt
      BY <1>3, <1>8, Zenon
  <2>4. \A k \in DOMAIN wire' : Report(k)' <=> k \in DOMAIN wire /\ Report(k)
      BY <2>1, <2>2, Zenon DEF Report
  <2>5. ASSUME NEW k \in DOMAIN wire', wire'[k].kind = "position"
        PROVE  /\ k \in DOMAIN wire /\ wire'[k] = wire[k]
               /\ \A j \in DOMAIN wire' : j < k => j \in DOMAIN wire
      BY <1>1, <2>1, <2>2, <2>5
  <2>6. \A k \in DOMAIN wire' :
           /\ "position" \notin missed'
           /\ Report(k)' /\ (\A j \in DOMAIN wire' : Report(j)' => j <= k)
           => ToSize(wire'[k].side, wire'[k].qty) = held' /\ wire'[k].at = reportedAt'
      BY <2>1, <2>3, <2>4, Zenon DEF Positions
  <2>7. /\ \A k \in DOMAIN wire' : ~Report(k)'
        /\ "position" \notin missed' /\ reportedAt' >= startedAt'
        => value' = held'
      BY <1>5, <2>1, <2>3, <2>4, Zenon DEF Positions
  <2>8. ASSUME NEW k \in DOMAIN wire', wire'[k].kind = "position"
        PROVE  /\ lastUpdateAt' <= wire'[k].at \/ lastUpdateAt' = startedAt'
               /\ wire'[k].at <= clock'
               /\ exchange' = "coinex" => wire'[k].idxs = << 0 >>
               /\ \A j \in DOMAIN wire' : wire'[j].kind = "position" /\ j < k
                                            => wire'[j].at <= wire'[k].at
      BY <1>5, <2>1, <2>5, <2>8, Zenon DEF Positions
  <2>9. lastUpdateAt' <= clock' \/ lastUpdateAt' = startedAt'
      BY <1>5, Zenon DEF Positions
  <2> QED
      BY <1>6, <2>6, <2>7, <2>8, <2>9, Zenon DEF Positions
<1>9. CASE units # 0
  <2>1. /\ DOMAIN wire' = DOMAIN wire \union {n + 1, n + 2}
        /\ n + 1 \notin DOMAIN wire /\ n + 2 \notin DOMAIN wire
        /\ \A k \in DOMAIN wire : wire'[k] = wire[k] /\ k \in Nat /\ k < n + 1 /\ k < n + 2
      BY <1>1, <1>9
  <2>2. wire'[n + 1].kind = "order" /\ wire'[n + 2] = r
      BY <1>1, <1>2, <1>9, Zenon
  <2>3. /\ n + 2 \in DOMAIN wire' /\ \A k \in DOMAIN wire' : k >= n + 2 => k = n + 2
        /\ Report(n + 2)' <=> idxs = << 0 >>
        /\ \A k \in DOMAIN wire' : k <= n + 2 /\ k # n + 2 => ~(n + 2 <= k)
    <3>1. /\ n + 2 \in DOMAIN wire' /\ \A k \in DOMAIN wire' : k >= n + 2 => k = n + 2
          /\ \A k \in DOMAIN wire' : k <= n + 2 /\ k # n + 2 => ~(n + 2 <= k)
        BY <1>1, <2>1
    <3> QED
        BY <1>4, <1>9, <2>2, <3>1, Zenon DEF Report
  <2>4. \A k \in DOMAIN wire' :
           /\ "position" \notin missed'
           /\ Report(k)' /\ (\A j \in DOMAIN wire' : Report(j)' => j <= k)
           => ToSize(wire'[k].side, wire'[k].qty) = held' /\ wire'[k].at = reportedAt'
    <3> SUFFICES ASSUME NEW k \in DOMAIN wire', "position" \notin missed', Report(k)',
                        \A j \in DOMAIN wire' : Report(j)' => j <= k
                 PROVE  ToSize(wire'[k].side, wire'[k].qty) = held' /\ wire'[k].at = reportedAt'
        BY Zenon
    <3>1. Report(n + 2)' /\ reportedAt' = clock
        BY <1>3, <1>9, <2>3, Zenon
    <3>2. n + 2 <= k
        BY <2>3, <3>1, Zenon
    <3>3. k = n + 2
        BY <1>1, <1>9, <3>2
    <3> QED
        BY <1>4, <1>9, <2>2, <3>1, <3>3, Zenon
  <2>5. ASSUME NEW k \in DOMAIN wire', wire'[k].kind = "position"
        PROVE  /\ lastUpdateAt' <= wire'[k].at \/ lastUpdateAt' = startedAt'
               /\ wire'[k].at <= clock'
               /\ exchange' = "coinex" => wire'[k].idxs = << 0 >>
               /\ \A j \in DOMAIN wire' : wire'[j].kind = "position" /\ j < k
                                            => wire'[j].at <= wire'[k].at
    <3>1. CASE k \in DOMAIN wire
      <4>1. wire'[k] = wire[k] /\ \A j \in DOMAIN wire' : j < k => j \in DOMAIN wire
          BY <1>1, <2>1, <3>1
      <4> QED
          BY <1>5, <2>1, <2>5, <3>1, <4>1, Zenon DEF Positions
    <3>2. CASE k = n + 2
      <4>1. \A j \in DOMAIN wire' : wire'[j].kind = "position" /\ j < n + 2 => j \in DOMAIN wire
          BY <1>1, <2>1, <2>2
      <4> QED
          BY <1>3, <1>4, <1>5, <1>7, <1>9, <2>1, <2>2, <3>2, <4>1, SMTT(30) DEF Positions, Reports
    <3> QED
        BY <2>1, <2>2, <2>5, <3>1, <3>2, Zenon
  <2>6. lastUpdateAt' <= clock' \/ lastUpdateAt' = startedAt'
      BY <1>5, Zenon DEF Positions
  <2> QED
      BY <1>3, <1>6, <1>9, <2>3, <2>4, <2>5, <2>6, Zenon DEF Positions
<1> QED
    BY <1>8, <1>9, Zenon

(* What is known of the orders rests on the frames of orders alone. *)
LEMMA SameOrders ==
    ASSUME Inv, UNCHANGED <<book, UnrelatedOrders, doneOrders, missed>>,
           \A k \in DOMAIN wire : k \in DOMAIN wire',
           \A k \in DOMAIN wire', x \in Others : Of(k, x)' <=> k \in DOMAIN wire /\ Of(k, x),
           \A k \in DOMAIN wire : /\ wire'[k] = wire[k]
                                  /\ Opened(k)' <=> Opened(k)
                                  /\ Done(k)' <=> Done(k)
    PROVE  Kinds' /\ Ends' /\ DoneOnce' /\ Tracking'
<1> USE DEF Inv
<1>1. \A x : Trackable(x)' <=> Trackable(x)
    BY Zenon DEF Trackable
<1>2. Kinds'
    BY <1>1 DEF Kinds
<1>3. Ends'
  <2>1. \A i \in DOMAIN doneOrders : doneOrders[i] \in Others
      BY DEF Typed
  <2> QED
      BY <2>1, Zenon DEF Ends, Ended
<1>4. DoneOnce'
    BY Zenon DEF DoneOnce
<1>5. Tracking'
    BY <1>1, Zenon DEF Tracking, Tracked
<1> QED
    BY <1>2, <1>3, <1>4, <1>5, Zenon

(* A report in hedge mode is nothing HandlePositionData applies. *)
LEMMA HedgeKeeps == Inv /\ Hedge => Inv'
<1> SUFFICES ASSUME Inv, Hedge PROVE Inv'
    BY Zenon
<1> USE DEF Inv
<1>1. PICK idxs \in HedgeReports : wire' = Append(wire, positionFrame(idxs, 1))
    BY Zenon DEF Hedge
<1>2. UNCHANGED <<exchange, book, held, clock, reportedAt, startedAt, missed, UnrelatedOrders, doneOrders,
                 value, lastUpdateAt>>
         /\ exchange = "bybit"
    BY Zenon DEF Hedge, exchangeVars, dealerVars
<1> DEFINE r == positionFrame(idxs, 1)
           F == OrderFrames \union PositionFrames
<1>3. /\ r \in PositionFrames /\ r.kind = "position" /\ r.idxs = idxs /\ r.at = clock
      /\ idxs # << 0 >>
  <2>1. 1 \in Int /\ idxs # << 0 >>
      BY DEF HedgeReports
  <2> QED
      BY <2>1, ReportTells, Zenon DEF IdxLists
<1>4. wire \in Seq(F)
    BY Zenon DEF Typed
<1>5. r \in F
    BY <1>3, Zenon
<1> HIDE DEF r, F
<1>6. PICK n \in Nat : DOMAIN wire = 1 .. n
    BY <1>4
<1>7. /\ wire' \in Seq(F) /\ DOMAIN wire' = 1 .. n + 1
      /\ \A k \in 1 .. n : wire'[k] = wire[k]
      /\ wire'[n + 1] = r
    BY <1>1, <1>4, <1>5, <1>6, OneMore DEF r
<1>8. /\ DOMAIN wire' = DOMAIN wire \union {n + 1} /\ n + 1 \notin DOMAIN wire
      /\ \A k \in DOMAIN wire : wire'[k] = wire[k] /\ k \in Nat /\ k < n + 1
    BY <1>6, <1>7
<1>9. \A k \in DOMAIN wire : (Opened(k)' <=> Opened(k)) /\ (Done(k)' <=> Done(k))
    BY <1>2, <1>8, Zenon DEF Opened, Done, OrderData, TranslateCoinEx, TranslateBybit, isDone
<1>10. \A k \in DOMAIN wire', x \in Others : Of(k, x)' <=> k \in DOMAIN wire /\ Of(k, x)
    BY <1>3, <1>7, <1>8, Zenon DEF Of
<1>11. Kinds' /\ Ends' /\ DoneOnce' /\ Tracking'
    BY <1>2, <1>8, <1>9, <1>10, SameOrders, Zenon
<1>12. Typed'
  <2>1. OrderFrames' = OrderFrames /\ PositionFrames' = PositionFrames
      BY <1>2, SameFrames, Zenon
  <2> QED
      BY <1>2, <1>7, <2>1, Zenon DEF Typed, F
<1>13. Positions'
  <2>1. \A k \in DOMAIN wire' : Report(k)' <=> k \in DOMAIN wire /\ Report(k)
      BY <1>3, <1>7, <1>8, Zenon DEF Report
  <2>2. clock \in Nat /\ lastUpdateAt \in Nat
      BY Zenon DEF Typed
  <2>3. ASSUME NEW k \in DOMAIN wire', wire'[k].kind = "position"
        PROVE  /\ lastUpdateAt' <= wire'[k].at \/ lastUpdateAt' = startedAt'
               /\ wire'[k].at <= clock'
               /\ exchange' = "coinex" => wire'[k].idxs = << 0 >>
               /\ \A j \in DOMAIN wire' : wire'[j].kind = "position" /\ j < k
                                            => wire'[j].at <= wire'[k].at
    <3>1. CASE k \in DOMAIN wire
      <4>1. \A j \in DOMAIN wire' : j < k => j \in DOMAIN wire
          BY <1>6, <1>8, <3>1
      <4> QED
          BY <1>2, <1>8, <2>3, <3>1, <4>1, Zenon DEF Positions
    <3>2. CASE k = n + 1
      <4>1. \A j \in DOMAIN wire' : j < n + 1 => j \in DOMAIN wire
          BY <1>6, <1>8
      <4> QED
          BY <1>2, <1>3, <1>7, <1>8, <2>2, <3>2, <4>1, SMTT(30) DEF Positions
    <3> QED
        BY <1>8, <3>1, <3>2, Zenon
  <2>4. \A k \in DOMAIN wire' :
           /\ "position" \notin missed'
           /\ Report(k)' /\ (\A j \in DOMAIN wire' : Report(j)' => j <= k)
           => ToSize(wire'[k].side, wire'[k].qty) = held' /\ wire'[k].at = reportedAt'
      BY <1>2, <1>8, <2>1, Zenon DEF Positions
  <2>5. /\ \A k \in DOMAIN wire' : ~Report(k)'
        /\ "position" \notin missed' /\ reportedAt' >= startedAt'
        => value' = held'
      BY <1>2, <1>8, <2>1, Zenon DEF Positions
  <2>6. lastUpdateAt' <= clock' \/ lastUpdateAt' = startedAt'
      BY <1>2, Zenon DEF Positions
  <2> QED
      BY <2>3, <2>4, <2>5, <2>6, Zenon DEF Positions
<1> QED
    BY <1>11, <1>12, <1>13, Zenon

(* Time passes, and what was reported stays in the past. *)
LEMMA TickKeeps == Inv /\ Tick => Inv'
<1> SUFFICES ASSUME Inv, Tick PROVE Inv'
    BY Zenon
<1> USE DEF Inv
<1>1. UNCHANGED <<exchange, book, held, reportedAt, startedAt, wire, missed, UnrelatedOrders,
                 doneOrders, value, lastUpdateAt>>
         /\ clock' = clock + 1
    BY Zenon DEF Tick, dealerVars
<1>2. \A k \in DOMAIN wire : (Opened(k)' <=> Opened(k)) /\ (Done(k)' <=> Done(k))
    BY <1>1, Zenon DEF Opened, Done, OrderData, TranslateCoinEx, TranslateBybit, isDone
<1>3. \A k \in DOMAIN wire', x \in Others : Of(k, x)' <=> k \in DOMAIN wire /\ Of(k, x)
    BY <1>1, Zenon DEF Of
<1>4. Kinds' /\ Ends' /\ DoneOnce' /\ Tracking'
    BY <1>1, <1>2, <1>3, SameOrders, Zenon
<1>5. Typed'
  <2>1. OrderFrames' = OrderFrames /\ PositionFrames' = PositionFrames
      BY <1>1, SameFrames, Zenon
  <2> QED
      BY <1>1, <2>1 DEF Typed
<1>6. Positions'
  <2>1. /\ clock \in Nat /\ lastUpdateAt \in Nat
        /\ \A k \in DOMAIN wire : wire[k].kind = "position" => wire[k].at \in Nat
      BY WireTyped, Zenon DEF Typed, OrderFrames, PositionFrames
  <2>2. \A k : Report(k)' <=> Report(k)
      BY <1>1, Zenon DEF Report
  <2> QED
      BY <1>1, <2>1, <2>2 DEF Positions
<1> QED
    BY <1>4, <1>5, <1>6, Zenon

(* A lost connection takes all the frames; what was among them is in        *)
(* missed.                                                                  *)
LEMMA LoseKeeps == Inv /\ Lose => Inv'
<1> SUFFICES ASSUME Inv, Lose PROVE Inv'
    OBVIOUS
<1> USE DEF Inv
<1>1. /\ UNCHANGED <<exchange, book, held, clock, reportedAt, startedAt, UnrelatedOrders, doneOrders,
                   value, lastUpdateAt>>
      /\ wire' = <<>> /\ DOMAIN wire' = {}
      /\ missed' = missed \union {wire[k].kind : k \in DOMAIN wire}
    BY DEF Lose, exchangeVars, dealerVars
<1>2. Typed'
    BY <1>1 DEF Typed
<1>3. Positions'
  <2>1. "position" \notin missed' =>
           "position" \notin missed /\ \A k \in DOMAIN wire : ~Report(k)
      BY <1>1, Zenon DEF Report
  <2> QED
      BY <1>1, <2>1, Zenon DEF Positions
<1>4. \A x : Trackable(x)' <=> Trackable(x)
    BY <1>1, Zenon DEF Trackable
<1>5. Kinds' /\ Ends'
    BY <1>1, <1>4, Zenon DEF Kinds, Ends, Ended
<1>6. DoneOnce'
    BY <1>1, Zenon DEF DoneOnce
<1>7. Tracking'
  <2>1. "order" \notin missed' =>
           "order" \notin missed /\ \A k \in DOMAIN wire, x \in Others : ~Of(k, x)
      BY <1>1, Zenon DEF Of
  <2> QED
      BY <1>1, <1>4, <2>1, Zenon DEF Tracking, Tracked
<1> QED
    BY <1>2, <1>3, <1>5, <1>6, <1>7, Zenon

(* The first frame was taken from the wire: the others move up. *)
Shrinks ==
    /\ 1 \in DOMAIN wire /\ wire[1] = Head(wire)
    /\ \A k \in DOMAIN wire' : k \in Nat /\ k >= 1 /\ k + 1 \in DOMAIN wire /\ wire'[k] = wire[k + 1]
    /\ \A j \in DOMAIN wire : j = 1 \/ \E k \in DOMAIN wire' : j = k + 1
    /\ \A k \in DOMAIN wire' : /\ Report(k)' <=> Report(k + 1)
                               /\ Opened(k)' <=> Opened(k + 1)
                               /\ Done(k)' <=> Done(k + 1)
                               /\ \A x \in Others : Of(k, x)' <=> Of(k + 1, x)

LEMMA FrameTaken ==
    ASSUME Typed, wire # <<>>, wire' = Tail(wire), exchange' = exchange
    PROVE  Shrinks /\ wire' \in Seq(OrderFrames \union PositionFrames)
<1> DEFINE F == OrderFrames \union PositionFrames
<1>1. wire \in Seq(F)
    BY Zenon DEF Typed
<1> HIDE DEF F
<1>2. PICK n \in Nat : DOMAIN wire = 1 .. n + 1
  <2>1. Len(wire) \in Nat /\ Len(wire) # 0 /\ DOMAIN wire = 1 .. Len(wire)
      BY <1>1
  <2>2. Len(wire) - 1 \in Nat /\ Len(wire) = (Len(wire) - 1) + 1
      BY <2>1
  <2> QED
      BY <2>1, <2>2, Zenon
<1>3. Len(wire) = n + 1
    BY <1>1, <1>2
<1>4. /\ wire' \in Seq(F) /\ DOMAIN wire' = 1 .. n
      /\ \A k \in 1 .. n : wire'[k] = wire[k + 1]
      /\ Head(wire) = wire[1]
    BY <1>1, <1>3
<1>5. /\ 1 \in DOMAIN wire
      /\ \A k \in DOMAIN wire' : k \in Nat /\ k >= 1 /\ k + 1 \in DOMAIN wire
    BY <1>2, <1>4
<1>6. \A j \in DOMAIN wire : j = 1 \/ \E k \in DOMAIN wire' : j = k + 1
  <2>1. \A j \in 1 .. n + 1 : j = 1 \/ (j - 1 \in 1 .. n /\ j = (j - 1) + 1)
      BY <1>2
  <2> QED
      BY <1>2, <1>4, <2>1, Zenon
<1>7. \A k \in DOMAIN wire' : wire'[k] = wire[k + 1]
    BY <1>4, Zenon
<1>8. \A k \in DOMAIN wire' : (Opened(k)' <=> Opened(k + 1)) /\ (Done(k)' <=> Done(k + 1))
  <2>1. ASSUME NEW k, NEW j, wire'[k] = wire[j]
        PROVE  (Opened(k)' <=> Opened(j)) /\ (Done(k)' <=> Done(j))
      BY <2>1, Zenon DEF Opened, Done, OrderData
  <2> QED
      BY <1>7, <2>1, Zenon
<1>9. \A k \in DOMAIN wire' : /\ Report(k)' <=> Report(k + 1)
                              /\ \A x \in Others : Of(k, x)' <=> Of(k + 1, x)
    BY <1>7, Zenon DEF Report, Of
<1>10. Shrinks
    BY <1>4, <1>5, <1>6, <1>7, <1>8, <1>9, Zenon DEF Shrinks
<1> QED
    BY <1>4, <1>10, Zenon DEF F

(* An order's end stays its last frame, whichever frame is taken. *)
LEMMA EndMoved ==
    ASSUME Shrinks, NEW x \in Others, book'[x] = book[x], Ended(x)
    PROVE  Ended(x)'
<1>1. ASSUME NEW k \in DOMAIN wire', Of(k, x)', Done(k)'
      PROVE  book'[x].at = "done" /\ \A j \in DOMAIN wire' : Of(j, x)' => j <= k
  <2>1. k + 1 \in DOMAIN wire /\ Of(k + 1, x) /\ Done(k + 1)
      BY <1>1, Zenon DEF Shrinks
  <2>2. book[x].at = "done" /\ \A j \in DOMAIN wire : Of(j, x) => j <= k + 1
      BY <2>1, Zenon DEF Ended
  <2> QED
      BY <2>2 DEF Shrinks
<1>2. ASSUME NEW k \in DOMAIN wire', Of(k, x)', book'[x].at = "done"
      PROVE  \E j \in DOMAIN wire' : Of(j, x)' /\ Done(j)'
  <2>1. k + 1 \in DOMAIN wire /\ Of(k + 1, x) /\ ~(k + 1 <= 1)
      BY <1>2 DEF Shrinks
  <2>2. PICK j \in DOMAIN wire : Of(j, x) /\ Done(j)
      BY <1>2, <2>1, Zenon DEF Ended
  <2>3. j # 1
      BY <2>1, <2>2, Zenon DEF Ended
  <2> QED
      BY <2>2, <2>3, Zenon DEF Shrinks
<1> QED
    BY <1>1, <1>2, Zenon DEF Ended

(* When the first frame is not one of order x, what x's frames tell is as   *)
(* before.                                                                  *)
LEMMA OtherTracked ==
    ASSUME Shrinks, NEW x \in Others, ~Of(1, x), book'[x] = book[x],
           x \in UnrelatedOrders' <=> x \in UnrelatedOrders, Tracked(x)
    PROVE  Tracked(x)'
<1>1. CASE x \in UnrelatedOrders
    BY <1>1, Zenon DEF Tracked, Shrinks
<1>2. CASE x \notin UnrelatedOrders /\ \E k \in DOMAIN wire : Of(k, x) /\ Opened(k)
    BY <1>2, Zenon DEF Tracked, Shrinks
<1>3. CASE x \notin UnrelatedOrders /\ book[x].at = "done" /\ \A k \in DOMAIN wire : ~Of(k, x)
    BY <1>3, Zenon DEF Tracked, Shrinks
<1> QED
    BY <1>1, <1>2, <1>3, Zenon DEF Tracked

(* Handling an order frame leaves the position, and the reports on their    *)
(* way, as they were.                                                       *)
LEMMA SamePositions ==
    ASSUME Inv, Shrinks, ~Report(1),
           UNCHANGED <<exchange, held, clock, reportedAt, startedAt, missed, value, lastUpdateAt>>
    PROVE  Positions'
<1> USE DEF Inv
<1>1. ASSUME NEW k \in DOMAIN wire', wire'[k].kind = "position"
      PROVE  /\ lastUpdateAt' <= wire'[k].at \/ lastUpdateAt' = startedAt'
             /\ wire'[k].at <= clock'
             /\ exchange' = "coinex" => wire'[k].idxs = << 0 >>
             /\ \A j \in DOMAIN wire' : wire'[j].kind = "position" /\ j < k
                                          => wire'[j].at <= wire'[k].at
  <2>1. /\ k + 1 \in DOMAIN wire /\ wire'[k] = wire[k + 1]
        /\ \A j \in DOMAIN wire' : /\ j + 1 \in DOMAIN wire /\ wire'[j] = wire[j + 1]
                                   /\ j < k => j + 1 < k + 1
      BY DEF Shrinks
  <2> QED
      BY <1>1, <2>1, Zenon DEF Positions
<1>2. ASSUME NEW k \in DOMAIN wire', "position" \notin missed', Report(k)',
             \A j \in DOMAIN wire' : Report(j)' => j <= k
      PROVE  ToSize(wire'[k].side, wire'[k].qty) = held' /\ wire'[k].at = reportedAt'
  <2>1. k + 1 \in DOMAIN wire /\ wire'[k] = wire[k + 1] /\ Report(k + 1)
      BY <1>2, Zenon DEF Shrinks
  <2>2. \A j \in DOMAIN wire : Report(j) => j <= k + 1
      BY <1>2 DEF Shrinks
  <2> QED
      BY <1>2, <2>1, <2>2, Zenon DEF Positions
<1>3. ASSUME \A k \in DOMAIN wire' : ~Report(k)', "position" \notin missed', reportedAt' >= startedAt'
      PROVE  value' = held'
  <2>1. \A j \in DOMAIN wire : ~Report(j)
      BY <1>3, Zenon DEF Shrinks
  <2> QED
      BY <1>3, <2>1, Zenon DEF Positions
<1> QED
    BY <1>1, <1>2, <1>3, Zenon DEF Positions

(* Handling a report: it is the newest seen, so it is applied. *)
LEMMA PositionKeeps == Inv /\ HandlePositionData => Inv'
<1> SUFFICES ASSUME Inv, HandlePositionData PROVE Inv'
    BY Zenon
<1> USE DEF Inv
<1>1. /\ UNCHANGED <<exchange, book, held, clock, reportedAt, startedAt, missed, UnrelatedOrders,
                   doneOrders>>
      /\ wire # <<>> /\ wire' = Tail(wire)
    BY Zenon DEF HandlePositionData, exchangeVars
<1>2. Shrinks /\ wire' \in Seq(OrderFrames \union PositionFrames)
    BY <1>1, FrameTaken, Zenon
<1>3. /\ wire[1].kind = "position" /\ wire[1] \in PositionFrames
      /\ exchange \in {"coinex", "bybit"} /\ clock \in Nat /\ lastUpdateAt \in Nat /\ value \in Int
      /\ \A k \in DOMAIN wire : k \in Nat /\ (wire[k].kind = "position" => wire[k].at \in Nat)
    BY <1>2, WireTyped DEF HandlePositionData, Shrinks, Typed, OrderFrames, PositionFrames
<1>4. /\ wire[1].at \in Nat /\ wire[1].qty \in Nat
      /\ lastUpdateAt <= wire[1].at \/ lastUpdateAt = startedAt
      /\ wire[1].at <= clock
      /\ exchange = "coinex" => wire[1].idxs = << 0 >>
    BY <1>2, <1>3, Zenon DEF Positions, Shrinks, PositionFrames
<1>5. /\ extractable(PositionData(wire[1])) <=> Report(1)
      /\ Report(1) => /\ PositionData(wire[1])[1].Timestamp = wire[1].at
                      /\ PositionData(wire[1])[1].Side = wire[1].side
                      /\ PositionData(wire[1])[1].Qty = wire[1].qty
    BY <1>3, <1>4, Extracted, Zenon DEF Report
<1>6. IF Report(1) /\ wire[1].at >= lastUpdateAt
      THEN value' = ToSize(wire[1].side, wire[1].qty) /\ lastUpdateAt' = wire[1].at
      ELSE UNCHANGED <<value, lastUpdateAt>>
    BY <1>2, <1>5, Zenon DEF HandlePositionData, Shrinks, UpdateAllowed
<1>7. Typed'
  <2>1. value' \in Int /\ lastUpdateAt' \in Nat
      BY <1>3, <1>4, <1>6 DEF ToSize
  <2>2. OrderFrames' = OrderFrames /\ PositionFrames' = PositionFrames
      BY <1>1, SameFrames, Zenon
  <2> QED
      BY <1>1, <1>2, <2>1, <2>2, Zenon DEF Typed
<1>8. Positions'
  <2>1. /\ lastUpdateAt' \in Nat /\ (lastUpdateAt' <= wire[1].at \/ lastUpdateAt' = startedAt')
        /\ lastUpdateAt' <= clock' \/ lastUpdateAt' = startedAt'
      BY <1>1, <1>3, <1>4, <1>6
  <2>2. ASSUME NEW k \in DOMAIN wire', wire'[k].kind = "position"
        PROVE  /\ lastUpdateAt' <= wire'[k].at \/ lastUpdateAt' = startedAt'
               /\ wire'[k].at <= clock'
               /\ exchange' = "coinex" => wire'[k].idxs = << 0 >>
               /\ \A j \in DOMAIN wire' : wire'[j].kind = "position" /\ j < k
                                            => wire'[j].at <= wire'[k].at
    <3>1. /\ k + 1 \in DOMAIN wire /\ wire'[k] = wire[k + 1] /\ 1 < k + 1 /\ 1 \in DOMAIN wire
          /\ \A j \in DOMAIN wire' : /\ j + 1 \in DOMAIN wire /\ wire'[j] = wire[j + 1]
                                     /\ j < k => j + 1 < k + 1
        BY <1>2 DEF Shrinks
    <3>2. wire[1].at <= wire[k + 1].at /\ wire[k + 1].at <= clock /\ wire[k + 1].at \in Nat
        BY <1>3, <2>2, <3>1, Zenon DEF Positions
    <3>3. /\ exchange = "coinex" => wire[k + 1].idxs = << 0 >>
          /\ \A j \in DOMAIN wire : wire[j].kind = "position" /\ j < k + 1 => wire[j].at <= wire[k + 1].at
        BY <2>2, <3>1, Zenon DEF Positions
    <3>4. lastUpdateAt' <= wire[k + 1].at \/ lastUpdateAt' = startedAt'
        BY <1>4, <2>1, <3>2
    <3> QED
        BY <1>1, <3>1, <3>2, <3>3, <3>4, Zenon
  <2>3. ASSUME NEW k \in DOMAIN wire', "position" \notin missed', Report(k)',
               \A j \in DOMAIN wire' : Report(j)' => j <= k
        PROVE  ToSize(wire'[k].side, wire'[k].qty) = held' /\ wire'[k].at = reportedAt'
    <3>1. k + 1 \in DOMAIN wire /\ wire'[k] = wire[k + 1] /\ Report(k + 1)
        BY <1>2, <2>3, Zenon DEF Shrinks
    <3>2. \A j \in DOMAIN wire : Report(j) => j <= k + 1
        BY <1>2, <2>3 DEF Shrinks
    <3> QED
        BY <1>1, <2>3, <3>1, <3>2, Zenon DEF Positions
  <2>4. ASSUME \A k \in DOMAIN wire' : ~Report(k)', "position" \notin missed', reportedAt' >= startedAt'
        PROVE  value' = held'
    <3>1. \A j \in DOMAIN wire : Report(j) => j = 1
        BY <1>2, <2>4, Zenon DEF Shrinks
    <3>2. CASE Report(1)
      <4>1. \A j \in DOMAIN wire : Report(j) => j <= 1
          BY <3>1
      <4>2. ToSize(wire[1].side, wire[1].qty) = held /\ wire[1].at = reportedAt
          BY <1>1, <1>2, <2>4, <3>2, <4>1, Zenon DEF Positions, Shrinks
      <4>3. wire[1].at >= lastUpdateAt
          BY <1>1, <1>3, <1>4, <2>4, <4>2 DEF Typed
      <4> QED
          BY <1>1, <1>6, <3>2, <4>2, <4>3, Zenon
    <3>3. CASE ~Report(1)
        BY <1>1, <1>6, <2>4, <3>1, <3>3, Zenon DEF Positions
    <3> QED
        BY <3>2, <3>3, Zenon
  <2> QED
      BY <2>1, <2>2, <2>3, <2>4, Zenon DEF Positions
<1>9. \A x \in Others : ~Of(1, x)
    BY <1>3, Zenon DEF Of
<1>10. \A x : Trackable(x)' <=> Trackable(x)
    BY <1>1, Zenon DEF Trackable
<1>11. Kinds'
    BY <1>1, <1>2, <1>10, SMTT(90) DEF Kinds, Shrinks
<1>12. Ends'
  <2>1. \A x \in Others : Ended(x)'
      BY <1>1, <1>2, EndMoved, Zenon DEF Ends
  <2>2. \A i \in DOMAIN doneOrders : doneOrders[i] \in Others
      BY DEF Typed
  <2>3. \A i \in DOMAIN doneOrders : \A k \in DOMAIN wire' : ~Of(k, doneOrders[i])'
      BY <1>1, <1>2, <2>2, Zenon DEF Ends, Shrinks
  <2> QED
      BY <1>1, <2>1, <2>3, Zenon DEF Ends
<1>13. DoneOnce'
    BY <1>1, Zenon DEF DoneOnce
<1>14. Tracking'
    BY <1>1, <1>2, <1>9, <1>10, OtherTracked, Zenon DEF Tracking
<1> QED
    BY <1>7, <1>8, <1>11, <1>12, <1>13, <1>14, Zenon

(* Handling an order frame: the first frame of an order opens it, the last  *)
(* one ends it, and none comes after that.                                  *)
LEMMA OrderKeeps == Inv /\ HandleOrderData => Inv'
<1> SUFFICES ASSUME Inv, HandleOrderData PROVE Inv'
    BY Zenon
<1> USE DEF Inv
<1>1. /\ UNCHANGED <<exchange, book, held, clock, reportedAt, startedAt, missed, value, lastUpdateAt>>
      /\ wire # <<>> /\ wire' = Tail(wire)
    BY Zenon DEF HandleOrderData, exchangeVars
<1>2. Shrinks /\ wire' \in Seq(OrderFrames \union PositionFrames)
    BY <1>1, FrameTaken, Zenon
<1>3. PICK u \in Others : wire[1].id = u /\ wire[1].kind = "order" /\ 1 \in DOMAIN wire /\ Of(1, u)
  <2>1. 1 \in DOMAIN wire /\ wire[1].kind = "order"
      BY <1>2, Zenon DEF HandleOrderData, Shrinks
  <2>2. wire[1].id \in Others
      BY <2>1, WireTyped, Zenon DEF OrderFrames, PositionFrames
  <2> QED
      BY <2>1, <2>2, Zenon DEF Of
<1>4. /\ OrderData(wire[1]).PublicID = u /\ OrderData(wire[1]).HasID = wire[1].client
      /\ isUnrelated(OrderData(wire[1])) <=> ~wire[1].client
      /\ Opened(1) => ~Done(1)
    BY <1>3, Zenon DEF OrderData, isUnrelated, Opened, Done, isDone
<1>5. \/ /\ ~wire[1].client /\ Opened(1)
         /\ UnrelatedOrders' = UnrelatedOrders \union {u} /\ doneOrders' = doneOrders
      \/ /\ Done(1) /\ u \in UnrelatedOrders
         /\ UnrelatedOrders' = UnrelatedOrders \ {u} /\ doneOrders' = Append(doneOrders, u)
      \/ /\ wire[1].client \/ (~Opened(1) /\ ~(Done(1) /\ u \in UnrelatedOrders))
         /\ UNCHANGED <<UnrelatedOrders, doneOrders>>
    BY <1>2, <1>4, Zenon DEF HandleOrderData, Shrinks, Opened, Done
<1>6. /\ book[u].at # "none" /\ wire[1].client = book[u].client
      /\ Opened(1) => book[u].told
      /\ book[u].at \in {"none", "open", "done"}
    BY <1>3, Zenon DEF Kinds, Typed, Order
<1>7. \A x \in Others : Of(1, x) <=> x = u
    BY <1>3, Zenon DEF Of
<1>8. /\ doneOrders \in Seq(Others) /\ UnrelatedOrders \subseteq Others
      /\ \A i \in DOMAIN doneOrders : doneOrders[i] \in Others /\ doneOrders[i] # u
    BY <1>3 DEF Typed, Ends
<1>9. Positions'
    BY <1>1, <1>2, <1>3, SamePositions, Zenon DEF Report
<1>10. \A x \in Others : Ended(x)'
    BY <1>1, <1>2, EndMoved, Zenon DEF Ends
<1>11. \A x : Trackable(x)' <=> Trackable(x)
    BY <1>1, Zenon DEF Trackable
<1>12. ASSUME NEW x \in Others, x # u, x \in UnrelatedOrders' <=> x \in UnrelatedOrders, Tracked(x)
       PROVE  Tracked(x)'
    BY <1>1, <1>2, <1>7, <1>12, OtherTracked, Zenon
<1>13. \A x \in Others : book'[x].at = "open" => book'[x].filled < Size
    BY <1>1, Zenon DEF Kinds
<1>14. ASSUME NEW k \in DOMAIN wire', NEW x \in Others, Of(k, x)'
       PROVE  /\ book'[x].at # "none" /\ wire'[k].client = book'[x].client
              /\ Opened(k)' => book'[x].told
    BY <1>1, <1>2, <1>14 DEF Kinds, Shrinks
<1>15. OrderFrames' = OrderFrames /\ PositionFrames' = PositionFrames
    BY <1>1, SameFrames, Zenon
<1>16. \A x \in Others : (\E i \in DOMAIN doneOrders : doneOrders[i] = x) =>
          book'[x].at = "done" /\ \A k \in DOMAIN wire' : ~Of(k, x)'
    BY <1>1, <1>2, <1>8 DEF Ends, Shrinks
<1>17. ASSUME ~wire[1].client, Opened(1),
              UnrelatedOrders' = UnrelatedOrders \union {u}, doneOrders' = doneOrders
       PROVE  Inv'
  <2>1. Typed'
      BY <1>1, <1>2, <1>3, <1>15, <1>17, Zenon DEF Typed
  <2>2. Kinds'
    <3>1. Trackable(u)
        BY <1>6, <1>17, Zenon DEF Trackable
    <3>2. \A x \in UnrelatedOrders' : Trackable(x)'
        BY <1>11, <1>17, <3>1, Zenon DEF Kinds
    <3> QED
        BY <1>13, <1>14, <3>2, Zenon DEF Kinds
  <2>3. Ends'
      BY <1>8, <1>10, <1>16, <1>17, Zenon DEF Ends, Of
  <2>4. DoneOnce'
      BY <1>8, <1>17, Zenon DEF DoneOnce
  <2>5. Tracked(u)'
    <3>1. CASE book[u].at = "open"
        BY <1>1, <1>17, <3>1, Zenon DEF Tracked
    <3>2. CASE book[u].at = "done"
      <4>1. PICK j \in DOMAIN wire : Of(j, u) /\ Done(j)
          BY <1>3, <3>2, Zenon DEF Ends, Ended
      <4>2. j # 1
          BY <1>4, <1>17, <4>1, Zenon
      <4> QED
          BY <1>2, <1>3, <1>17, <4>1, <4>2, Zenon DEF Tracked, Shrinks
    <3> QED
        BY <1>6, <3>1, <3>2, Zenon
  <2>6. Tracking'
      BY <1>1, <1>11, <1>12, <1>17, <2>5, Zenon DEF Tracking
  <2> QED
      BY <1>9, <2>1, <2>2, <2>3, <2>4, <2>6, Zenon
<1>18. ASSUME Done(1), u \in UnrelatedOrders,
              UnrelatedOrders' = UnrelatedOrders \ {u}, doneOrders' = Append(doneOrders, u)
       PROVE  Inv'
  <2>1. book[u].at = "done" /\ \A j \in DOMAIN wire : Of(j, u) => j <= 1
      BY <1>3, <1>18, Zenon DEF Ends, Ended
  <2>2. \A k \in DOMAIN wire' : ~Of(k, u)'
      BY <1>2, <1>3, <2>1 DEF Shrinks
  <2>3. PICK n \in Nat : DOMAIN doneOrders = 1 .. n
      BY <1>8
  <2>4. /\ doneOrders' \in Seq(Others) /\ DOMAIN doneOrders' = 1 .. n + 1
        /\ \A k \in 1 .. n : doneOrders'[k] = doneOrders[k]
        /\ doneOrders'[n + 1] = u
      BY <1>3, <1>8, <1>18, <2>3, OneMore
  <2>5. /\ DOMAIN doneOrders' = DOMAIN doneOrders \union {n + 1} /\ n + 1 \notin DOMAIN doneOrders
        /\ \A i \in DOMAIN doneOrders : doneOrders'[i] = doneOrders[i]
      BY <2>3, <2>4
  <2>6. Typed'
      BY <1>1, <1>2, <1>15, <1>18, <2>4, Zenon DEF Typed
  <2>7. Kinds'
    <3>1. \A x \in UnrelatedOrders' : Trackable(x)'
        BY <1>11, <1>18, Zenon DEF Kinds
    <3> QED
        BY <1>13, <1>14, <3>1, Zenon DEF Kinds
  <2>8. Ends'
    <3>1. ASSUME NEW i \in DOMAIN doneOrders', NEW x \in Others, doneOrders'[i] = x
          PROVE  book'[x].at = "done" /\ \A k \in DOMAIN wire' : ~Of(k, x)'
        BY <1>1, <1>16, <2>1, <2>2, <2>4, <2>5, <3>1, Zenon
    <3>2. \A i \in DOMAIN doneOrders' : doneOrders'[i] \in Others
        BY <2>4
    <3> QED
        BY <1>10, <3>1, <3>2, Zenon DEF Ends, Of
  <2>9. DoneOnce'
    <3>1. \A i, j \in DOMAIN doneOrders' : doneOrders'[i] = doneOrders'[j] => i = j
        BY <1>8, <2>4, <2>5, Zenon DEF DoneOnce
    <3>2. \A i \in DOMAIN doneOrders' : doneOrders'[i] \notin UnrelatedOrders'
        BY <1>18, <2>4, <2>5, Zenon DEF DoneOnce
    <3> QED
        BY <3>1, <3>2, Zenon DEF DoneOnce
  <2>10. Tracked(u)'
      BY <1>1, <1>18, <2>1, <2>2, Zenon DEF Tracked
  <2>11. Tracking'
      BY <1>1, <1>11, <1>12, <1>18, <2>10, Zenon DEF Tracking
  <2> QED
      BY <1>9, <2>6, <2>7, <2>8, <2>9, <2>11, Zenon
<1>19. ASSUME wire[1].client \/ (~Opened(1) /\ ~(Done(1) /\ u \in UnrelatedOrders)),
              UNCHANGED <<UnrelatedOrders, doneOrders>>
       PROVE  Inv'
  <2>1. Typed'
      BY <1>1, <1>2, <1>15, <1>19, Zenon DEF Typed
  <2>2. Kinds'
    <3>1. \A x \in UnrelatedOrders' : Trackable(x)'
        BY <1>11, <1>19, Zenon DEF Kinds
    <3> QED
        BY <1>13, <1>14, <3>1 DEF Kinds
  <2>3. Ends'
      BY <1>8, <1>10, <1>16, <1>19, Zenon DEF Ends, Of
  <2>4. DoneOnce'
      BY <1>19, Zenon DEF DoneOnce
  <2>5. ASSUME Trackable(u), Tracked(u) PROVE Tracked(u)'
    <3>1. ~Opened(1) /\ ~(Done(1) /\ u \in UnrelatedOrders)
        BY <1>6, <1>19, <2>5, Zenon DEF Trackable
    <3>2. CASE u \in UnrelatedOrders
        BY <1>1, <1>2, <1>3, <1>19, <2>5, <3>1, <3>2, Zenon DEF Tracked, Shrinks
    <3>3. CASE u \notin UnrelatedOrders
      <4>1. PICK k \in DOMAIN wire : Of(k, u) /\ Opened(k)
          BY <1>3, <2>5, <3>3, Zenon DEF Tracked
      <4>2. k # 1
          BY <3>1, <4>1, Zenon
      <4> QED
          BY <1>2, <1>19, <3>3, <4>1, <4>2, Zenon DEF Tracked, Shrinks
    <3> QED
        BY <3>2, <3>3, Zenon
  <2>6. Tracking'
      BY <1>1, <1>11, <1>12, <1>19, <2>5, Zenon DEF Tracking
  <2> QED
      BY <1>9, <2>1, <2>2, <2>3, <2>4, <2>6, Zenon
<1> QED
    BY <1>5, <1>17, <1>18, <1>19, Zenon

(* Everything the model does keeps the invariant. *)
THEOREM Invariance == Spec => []Inv
<1>1. Inv /\ UNCHANGED vars => Inv'
  <2> SUFFICES ASSUME Inv, UNCHANGED vars PROVE Inv'
      BY Zenon
  <2>1. UNCHANGED <<exchange, book, held, clock, reportedAt, startedAt, wire, missed, UnrelatedOrders,
                   doneOrders, value, lastUpdateAt>>
      BY Zenon DEF vars, exchangeVars, dealerVars
  <2>2. OrderFrames' = OrderFrames /\ PositionFrames' = PositionFrames
      BY <2>1, SameFrames, Zenon
  <2>3. Typed' /\ Positions'
      BY <2>1, <2>2, Zenon DEF Inv, Typed, Positions, Report
  <2>4. /\ \A k : (Opened(k)' <=> Opened(k)) /\ (Done(k)' <=> Done(k))
        /\ \A k, x : Of(k, x)' <=> Of(k, x)
      BY <2>1, Zenon DEF Opened, Done, OrderData, Of
  <2>5. Kinds' /\ Ends' /\ DoneOnce' /\ Tracking'
      BY <2>1, <2>4, SameOrders, Zenon
  <2> QED
      BY <2>3, <2>5, Zenon DEF Inv
<1>2. Inv /\ Next => Inv'
  <2> SUFFICES ASSUME Inv, Next PROVE Inv'
      BY Zenon
  <2>1. ASSUME NEW u \in Others,
               \/ \E side \in {-1, 1}, client \in BOOLEAN, f \in 0 .. Size, idxs \in Reports :
                     Enter(u, side, client, f, idxs)
               \/ \E idxs \in Reports : Fill(u, idxs)
               \/ Amend(u)
               \/ \E e \in {"cancel", "reject"} : End(u, e)
        PROVE  Inv'
    <3>1. \E o, e, units, idxs : Sends(u, o, e, units, idxs)
        BY <2>1, ExchangeSends, Zenon DEF Inv
    <3> QED
        BY <3>1, SendsKeepsOrders, SendsKeepsPositions, Zenon DEF Inv
  <2> QED
      BY <2>1, HedgeKeeps, TickKeeps, LoseKeeps, OrderKeeps, PositionKeeps, Zenon DEF Next
<1> QED
    BY <1>1, <1>2, InitInv, PTL DEF Spec

(* PositionFollows: without reports on their way, lost, spoilt or dated     *)
(* before the process's start, CurrentPosition is the position at the       *)
(* exchange, from its first report on, whatever was held before.            *)
THEOREM PositionIsFollowed == Spec => []PositionFollows
<1>1. Inv => PositionFollows
    BY Zenon DEF Inv, Positions, PositionFollows, pending, Report
<1> QED
    BY <1>1, Invariance, PTL

(* DoneOnce: an order of others is handed over as done at most once, and    *)
(* not while UnrelatedOrders holds it.                                      *)
THEOREM HandedOverOnce == Spec => []DoneOnce
<1>1. Inv => DoneOnce
    BY Zenon DEF Inv
<1> QED
    BY <1>1, Invariance, PTL

(* TracksOthers: without frames of orders on their way or lost,             *)
(* UnrelatedOrders are the open orders without a client ID that a frame has *)
(* told to rest in the book, those from before the start included.          *)
THEOREM OthersAreTracked == Spec => []TracksOthers
<1>1. Inv => TracksOthers
  <2> SUFFICES ASSUME Inv, ~pending("order"), "order" \notin missed, NEW u \in Others
               PROVE  u \in UnrelatedOrders
                         <=> book[u].at = "open" /\ ~book[u].client /\ book[u].told
      BY Zenon DEF TracksOthers, Inv, Typed
  <2>1. \A k \in DOMAIN wire : ~Of(k, u)
      BY Zenon DEF pending, Of
  <2> QED
      BY <2>1, Zenon DEF Inv, Kinds, Tracking, Tracked, Trackable
<1> QED
    BY <1>1, Invariance, PTL
=============================================================================
