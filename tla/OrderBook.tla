----------------------------- MODULE OrderBook -----------------------------
(***************************************************************************)
(* OrderBookImpl (orderbook.go, orderbook_handlers.go, price_level.go) fed *)
(* by the goroutines of a ChannelGroup.  The exchange's own book is part   *)
(* of the model: it publishes deltas and snapshots numbered by SeqID.  The *)
(* deduplicated messages are taken in the order of publication, each by    *)
(* one goroutine; the goroutines then race for the update handler's lock.  *)
(*                                                                         *)
(* A price level is its SeqID and its volume; an absent one has no volume. *)
(* Definitions whose name starts with Bad are faulty variants.             *)
(***************************************************************************)
EXTENDS Naturals, Sequences

CONSTANTS
    Handlers,   \* the goroutines that call UpdateByOBData
    MaxPrice,   \* prices are 1 .. MaxPrice ticks
    MaxVolume,  \* bound: volume of a level
    MaxSeq,     \* bound: changes of the exchange's book
    MaxMsgs     \* bound: messages published

ASSUME OrderBookAssumption == {MaxPrice, MaxVolume, MaxSeq, MaxMsgs} \subseteq Nat \ {0}

Sides == {"asks", "bids"}
Prices == 1 .. MaxPrice
Level == [seq : Nat, vol : Nat]
NoLevel == [seq |-> 0, vol |-> 0]

(* BestLevel of a side, the zero PriceLevel when it is empty. *)
Best == [price : Nat, level : Level]
Nil == [price |-> 0, level |-> [seq |-> 0, vol |-> 1]]   \* a nil *PriceLevel

VARIABLES
    rows,      \* AsksMap and BidsMap
    best,      \* currentBestAsk, currentBestBid
    before,    \* beforeBestAsk, beforeBestBid
    lock,      \* muLockToUpdateHandler is held
    work,      \* what a handler has to apply, and how far it is
    exchange,  \* external: volumes of the exchange's book
    seq,       \* external: SeqID of its last change
    sent,      \* external: messages published
    taken,     \* how many of them the handlers have taken
    applied,   \* history: the number of the last message applied
    inSync     \* history: since a snapshot, no message was lost or applied out of order

vars == <<rows, best, before, lock, work, exchange, seq, sent, taken, applied, inSync>>
syncVars == <<applied, inSync>>
bookVars == <<rows, best, before>>
exchangeVars == <<exchange, seq, sent>>

(* OrderBookData: the levels of each side by price; a record carries the   *)
(* SeqID of its message (translateRecords).                                *)
IsData(d) ==
    /\ d.type \in {"snapshot", "delta"}
    /\ d.seq \in Nat
    /\ \A s \in Sides : /\ DOMAIN d.levels[s] \subseteq Prices
                        /\ \A p \in DOMAIN d.levels[s] : d.levels[s][p] \in Nat

Idle == [at |-> "idle"]

Init ==
    /\ rows = [s \in Sides |-> [p \in Prices |-> NoLevel]]
    /\ best = [s \in Sides |-> Nil]
    /\ before = [s \in Sides |-> Nil]
    /\ lock = FALSE
    /\ work = [h \in Handlers |-> Idle]
    /\ exchange = [s \in Sides |-> [p \in Prices |-> 1]]
    /\ seq = 1
    /\ sent = <<>>
    /\ taken = 0
    /\ applied = 0
    /\ inSync = FALSE
-----------------------------------------------------------------------------
(* PriceLevelMap. *)

Has(R, p) == R[p].vol > 0

isOld(level, id) == level.seq < id

record(d, s, p) == IF d.levels[s][p] = 0 THEN NoLevel
                   ELSE [seq |-> d.seq, vol |-> d.levels[s][p]]

better(s, p, q) == IF s = "asks" THEN p < q ELSE p > q

BestLevel(R, s) ==
    IF \E p \in Prices : Has(R, p)
    THEN LET b == CHOOSE p \in Prices :
                     Has(R, p) /\ \A q \in Prices : Has(R, q) /\ q # p => better(s, p, q)
         IN [price |-> b, level |-> R[b]]
    ELSE [price |-> 0, level |-> NoLevel]

BadUpdateByDelta(R, d, s) ==   \* a level is overwritten whatever its SeqID
    [p \in Prices |-> IF p \in DOMAIN d.levels[s] THEN record(d, s, p) ELSE R[p]]

BadUpdateByDeltaZero(R, d, s) ==   \* a zero volume leaves the level
    [p \in Prices |->
        IF p \in DOMAIN d.levels[s] /\ d.levels[s][p] # 0 /\ (Has(R, p) => isOld(R[p], d.seq))
        THEN record(d, s, p) ELSE R[p]]

updateByDelta(R, d, s) ==
    [p \in Prices |->
        IF p \in DOMAIN d.levels[s] /\ (Has(R, p) => isOld(R[p], d.seq))
        THEN record(d, s, p) ELSE R[p]]

(* A side the snapshot has no records of is left as it is. *)
resetBySnapshot(R, d, s) ==
    IF DOMAIN d.levels[s] = {} THEN R
    ELSE [p \in Prices |->
             IF p \notin DOMAIN d.levels[s] THEN NoLevel
             ELSE IF Has(R, p) /\ record(d, s, p).vol > 0 /\ isOld(record(d, s, p), R[p].seq)
                  THEN R[p] ELSE record(d, s, p)]
-----------------------------------------------------------------------------
(* UpdateByOBData on handler h. *)

Take(h) ==
    /\ work[h] = Idle
    /\ taken < Len(sent)
    /\ taken' = taken + 1
    /\ work' = [work EXCEPT ![h] = [at |-> "lock", n |-> taken + 1, data |-> sent[taken + 1]]]
    /\ UNCHANGED <<bookVars, lock, exchangeVars, syncVars>>

BadLock(h) ==   \* without the handler's lock
    /\ work[h].at = "lock"
    /\ lock' = FALSE
    /\ before' = IF \E s \in Sides : best[s] = Nil THEN before ELSE best
    /\ work' = [work EXCEPT ![h] = [at |-> "apply", n |-> work[h].n, data |-> work[h].data]]
    /\ UNCHANGED <<rows, best, exchangeVars, taken, syncVars>>

Lock(h) ==
    /\ work[h].at = "lock"
    /\ ~lock
    /\ lock' = TRUE
    /\ before' = IF \E s \in Sides : best[s] = Nil THEN before ELSE best
    /\ work' = [work EXCEPT ![h] = [at |-> "apply", n |-> work[h].n, data |-> work[h].data]]
    /\ UNCHANGED <<rows, best, exchangeVars, taken, syncVars>>

Apply(h) ==
    /\ work[h].at = "apply"
    /\ LET d == work[h].data IN
          /\ rows' = [s \in Sides |-> IF d.type = "snapshot" THEN resetBySnapshot(rows[s], d, s)
                                      ELSE updateByDelta(rows[s], d, s)]
          /\ inSync' = \/ d.type = "snapshot" /\ work[h].n > applied
                       \/ inSync /\ work[h].n = applied + 1
    /\ applied' = IF work[h].n > applied THEN work[h].n ELSE applied
    /\ work' = [work EXCEPT ![h] = [at |-> "publish", n |-> work[h].n, data |-> work[h].data]]
    /\ UNCHANGED <<best, before, lock, exchangeVars, taken>>

(* Cache the best levels, run the callbacks, unlock. *)
Publish(h) ==
    /\ work[h].at = "publish"
    /\ best' = [s \in Sides |-> BestLevel(rows[s], s)]
    /\ lock' = FALSE
    /\ work' = [work EXCEPT ![h] = Idle]
    /\ UNCHANGED <<rows, before, exchangeVars, taken, syncVars>>

-----------------------------------------------------------------------------
(* The exchange: a level changes; neither side ever becomes empty. *)
Change(s, p, v) ==
    /\ seq < MaxSeq /\ Len(sent) < MaxMsgs
    /\ v # exchange[s][p]
    /\ v = 0 => \E q \in Prices \ {p} : exchange[s][q] > 0
    /\ exchange' = [exchange EXCEPT ![s][p] = v]
    /\ seq' = seq + 1
    /\ sent' = Append(sent, [type |-> "delta", seq |-> seq + 1,
                  levels |-> [x \in Sides |-> [q \in IF x = s THEN {p} ELSE {} |-> v]]])
    /\ UNCHANGED <<bookVars, lock, work, taken, syncVars>>

Snapshot ==
    /\ Len(sent) < MaxMsgs
    /\ sent' = Append(sent, [type |-> "snapshot", seq |-> seq,
                  levels |-> [s \in Sides |->
                      [p \in {q \in Prices : exchange[s][q] > 0} |-> exchange[s][p]]]])
    /\ UNCHANGED <<bookVars, lock, work, exchange, seq, taken, syncVars>>

(* All the channels are down: what was published is lost. *)
Lose ==
    /\ taken < Len(sent)
    /\ \A h \in Handlers : work[h] = Idle
    /\ taken' = Len(sent)
    /\ applied' = Len(sent)
    /\ inSync' = FALSE
    /\ UNCHANGED <<bookVars, lock, work, exchangeVars>>
-----------------------------------------------------------------------------
Next ==
    \/ \E h \in Handlers : Take(h) \/ Lock(h) \/ Apply(h) \/ Publish(h)
    \/ \E s \in Sides, p \in Prices, v \in 0 .. MaxVolume : Change(s, p, v)
    \/ Snapshot \/ Lose

Spec == Init /\ [][Next]_vars
-----------------------------------------------------------------------------
(* Type invariant of the book, the handlers and the exchange's book. *)
TypeOK ==
    /\ rows \in [Sides -> [Prices -> Level]]
    /\ best \in [Sides -> Best] /\ before \in [Sides -> Best]
    /\ lock \in BOOLEAN
    /\ DOMAIN work = Handlers
    /\ \A h \in Handlers : \/ work[h] = Idle
                           \/ /\ work[h].at \in {"lock", "apply", "publish"}
                              /\ IsData(work[h].data)
    /\ exchange \in [Sides -> [Prices -> Nat]]
    /\ seq \in Nat /\ taken \in 0 .. Len(sent)
    /\ \A i \in 1 .. Len(sent) : IsData(sent[i])
    /\ applied \in 0 .. taken /\ inSync \in BOOLEAN

(* UpdateByOBData locks "so that the best price and the order book do not  *)
(* get out of sync": between updates the cached best levels are the best   *)
(* of the maps, whichever goroutines applied which messages.               *)
BestInSync ==
    ~lock => \A s \in Sides : best[s] = Nil \/ best[s] = BestLevel(rows[s], s)

(* A level that stays in the book never goes back to an older record, in   *)
(* whatever order deltas and snapshots are applied.                        *)
LevelsNeverAge ==
    [][\A s \in Sides, p \in Prices :
          rows[s][p].vol > 0 /\ rows'[s][p].vol > 0 => rows'[s][p].seq >= rows[s][p].seq]_vars

(* Once a snapshot has been applied after a loss, and as long as the       *)
(* goroutines have applied the messages since then in their order, the     *)
(* book is the exchange's as soon as all that was published is applied.    *)
FollowsExchange ==
    inSync /\ taken = Len(sent) /\ (\A h \in Handlers : work[h] = Idle)
        => \A s \in Sides, p \in Prices : rows[s][p].vol = exchange[s][p]
=============================================================================
