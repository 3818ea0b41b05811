------------------------------- MODULE Quote --------------------------------
(***************************************************************************)
(* QuoteImpl (domains/insights/quote.go): the best prices as the book      *)
(* ticker reports them.  Update runs in the goroutine of the channel that  *)
(* received the message, one at a time (muLockToUpdateHandler), and sets   *)
(* the fields one by one, each under mu: whoever reads them in between     *)
(* sees every intermediate state.  Messages may come late and more than    *)
(* once.  A price level is the message it comes from; lastArrivedAt stands *)
(* for lastEventAt too.  The callbacks run inside Update.                  *)
(* Definitions whose name starts with Bad are faulty variants.             *)
(***************************************************************************)
EXTENDS Naturals, FiniteSets

CONSTANTS
    Handlers,   \* goroutines that call Update
    Msgs        \* what the exchange has sent: records with seq, exec and id

(* On CoinEx seq and exec are the same time stamp, on Bybit both grow from *)
(* message to message.  Messages may share them.                           *)
ASSUME QuoteAssumption ==
    /\ Msgs \subseteq [seq : Nat \ {0}, exec : Nat \ {0}, id : Nat]
    /\ \A a, b \in Msgs : a.seq < b.seq => a.exec <= b.exec

VARIABLES
    seqID, lastExecAt,              \* 0: not set
    lastArrivedAt,                  \* these five: a message, or Nil
    bestAsk, bestBid,
    beforeBestAsk, beforeBestBid,
    call,                           \* where each handler is in Update
    handled                         \* messages Update has finished with

levels == <<bestAsk, bestBid>>
before == <<beforeBestAsk, beforeBestBid>>
last == <<seqID, lastExecAt, lastArrivedAt>>
vars == <<last, levels, before, call, handled>>

Nil == [seq |-> 0, exec |-> 0, id |-> 0]
Idle == [at |-> "idle", msg |-> Nil]
Locked == {"beforeAsk", "beforeBid", "check", "seq", "exec", "arrived", "ask", "bid", "callbacks"}

Init ==
    /\ seqID = 0 /\ lastExecAt = 0
    /\ lastArrivedAt = Nil
    /\ bestAsk = Nil /\ bestBid = Nil
    /\ beforeBestAsk = Nil /\ beforeBestBid = Nil
    /\ call = [h \in Handlers |-> Idle]
    /\ handled = {}
-----------------------------------------------------------------------------
at(h, p) == call[h].at = p
goto(h, p) == call' = [call EXCEPT ![h] = [at |-> p, msg |-> call[h].msg]]
free == \A h \in Handlers : call[h].at \notin Locked

return(h) ==
    /\ call' = [call EXCEPT ![h] = Idle]
    /\ handled' = handled \union {call[h].msg}

Receive(h, m) ==
    /\ at(h, "idle")
    /\ call' = [call EXCEPT ![h] = [at |-> "called", msg |-> m]]
    /\ UNCHANGED <<last, levels, before, handled>>

(* muLockToUpdateHandler.Lock, then the test for previous best prices. *)
Lock(h) ==
    /\ at(h, "called") /\ free
    /\ goto(h, IF bestAsk # Nil /\ bestBid # Nil THEN "beforeAsk" ELSE "check")
    /\ UNCHANGED <<last, levels, before, handled>>

setBeforeBestAsk(h) ==
    /\ at(h, "beforeAsk")
    /\ beforeBestAsk' = bestAsk
    /\ goto(h, "beforeBid")
    /\ UNCHANGED <<last, levels, beforeBestBid, handled>>

BadSetBeforeBestBid(h) ==   \* of the wrong side
    /\ at(h, "beforeBid")
    /\ beforeBestBid' = call[h].msg
    /\ goto(h, "check")
    /\ UNCHANGED <<last, levels, beforeBestAsk, handled>>

setBeforeBestBid(h) ==
    /\ at(h, "beforeBid")
    /\ beforeBestBid' = bestBid
    /\ goto(h, "check")
    /\ UNCHANGED <<last, levels, beforeBestAsk, handled>>

BadOld(m) == m.exec <= lastExecAt \/ seqID > m.seq   \* not only older data

Old(m) == m.exec < lastExecAt \/ seqID > m.seq

(* Data older than the last, by time or by SeqID, ends the update. *)
Check(h) ==
    /\ at(h, "check")
    /\ IF Old(call[h].msg)
       THEN return(h)
       ELSE goto(h, "seq") /\ UNCHANGED handled
    /\ UNCHANGED <<last, levels, before>>

setSeqID(h) ==
    /\ at(h, "seq")
    /\ seqID' = call[h].msg.seq
    /\ goto(h, "exec")
    /\ UNCHANGED <<lastExecAt, lastArrivedAt, levels, before, handled>>

setLastExecAt(h) ==
    /\ at(h, "exec")
    /\ lastExecAt' = call[h].msg.exec
    /\ goto(h, "arrived")
    /\ UNCHANGED <<seqID, lastArrivedAt, levels, before, handled>>

BadSetLastArrivedAt(h) ==   \* set once
    /\ at(h, "arrived")
    /\ lastArrivedAt' = IF lastArrivedAt = Nil THEN call[h].msg ELSE lastArrivedAt
    /\ goto(h, "ask")
    /\ UNCHANGED <<seqID, lastExecAt, levels, before, handled>>

setLastArrivedAt(h) ==
    /\ at(h, "arrived")
    /\ lastArrivedAt' = call[h].msg
    /\ goto(h, "ask")
    /\ UNCHANGED <<seqID, lastExecAt, levels, before, handled>>

setBestAsk(h) ==
    /\ at(h, "ask")
    /\ bestAsk' = call[h].msg
    /\ goto(h, "bid")
    /\ UNCHANGED <<last, bestBid, before, handled>>

setBestBid(h) ==
    /\ at(h, "bid")
    /\ bestBid' = call[h].msg
    /\ goto(h, "callbacks")
    /\ UNCHANGED <<last, bestAsk, before, handled>>

(* The callbacks read the quote; then the lock is released. *)
Callbacks(h) ==
    /\ at(h, "callbacks")
    /\ return(h)
    /\ UNCHANGED <<last, levels, before>>
-----------------------------------------------------------------------------
Step(h) ==
    \/ Lock(h) \/ setBeforeBestAsk(h) \/ setBeforeBestBid(h) \/ Check(h)
    \/ setSeqID(h) \/ setLastExecAt(h) \/ setLastArrivedAt(h)
    \/ setBestAsk(h) \/ setBestBid(h) \/ Callbacks(h)

Next == \E h \in Handlers : Step(h) \/ \E m \in Msgs : Receive(h, m)

Spec == Init /\ [][Next]_vars
-----------------------------------------------------------------------------
Level == Msgs \union {Nil}

(* Type invariant. *)
TypeOK ==
    /\ seqID \in Nat /\ lastExecAt \in Nat
    /\ lastArrivedAt \in Level
    /\ bestAsk \in Level /\ bestBid \in Level
    /\ beforeBestAsk \in Level /\ beforeBestBid \in Level
    /\ call \in [Handlers -> [at : {"called"} \union Locked, msg : Msgs] \union {Idle}]
    /\ handled \subseteq Msgs

(* Whenever no update is running, and in every callback, both sides and    *)
(* the time stamps are those of one message: a late or repeated message    *)
(* never leaves the ask of one quote beside the bid of another.            *)
OneMessage ==
    free \/ (\E h \in Handlers : at(h, "callbacks")) =>
       /\ bestAsk = bestBid /\ bestAsk = lastArrivedAt
       /\ seqID = bestAsk.seq /\ lastExecAt = bestAsk.exec

(* Whenever no update is running, the quote is at least as new as every    *)
(* message handled so far, in whatever order they came.                    *)
NewestHandled ==
    free => \A m \in handled : m.seq <= bestAsk.seq /\ m.exec <= bestAsk.exec

(* GetDiffBestAsk and GetDiffBestBid never see a previous level that is    *)
(* newer than the present one, in the middle of an update either.          *)
DiffNeverBackward ==
    /\ beforeBestAsk.seq <= bestAsk.seq
    /\ beforeBestBid.seq <= bestBid.seq

(* The sequence number, the time and each side only ever move forward.     *)
NeverBackward ==
    [][/\ seqID' >= seqID /\ lastExecAt' >= lastExecAt
       /\ bestAsk'.seq >= bestAsk.seq /\ bestBid'.seq >= bestBid.seq]_vars
=============================================================================
