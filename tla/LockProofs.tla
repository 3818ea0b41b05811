---------------------------- MODULE LockProofs -----------------------------
(***************************************************************************)
(* What two locks of the process give, for any number of goroutines.       *)
(* muLockToUpdateHandler (Quote): the quote is one whole message between   *)
(* updates, the newest handled, and only moves forward, for any messages;  *)
(* the inductive invariant says which fields the running update has set    *)
(* already.  muOpe (OpLocks): the operation locks make sections atomic, so *)
(* OpLocks implements Sections, for any orders and batches.                *)
(***************************************************************************)
EXTENDS Quote, OpLocks, FiniteSetTheorems, TLAPS
-----------------------------------------------------------------------------
(* The quote. *)

(* The quote is one whole message. *)
Settled ==
    /\ bestAsk = bestBid /\ bestAsk = lastArrivedAt
    /\ seqID = bestAsk.seq /\ lastExecAt = bestAsk.exec

(* Both sides are not newer than message m. *)
NotNewer(m) == bestBid.seq <= m.seq /\ bestBid.exec <= m.exec

(* What the update with message m has set when it is at p. *)
Stage(p, m) ==
    /\ p \in {"beforeAsk", "beforeBid", "check", "callbacks", "seq"} => Settled
    /\ p \in {"seq", "exec", "arrived", "ask", "bid"} => NotNewer(m)
    /\ p \in {"exec", "arrived", "ask", "bid"} => seqID = m.seq
    /\ p \in {"arrived", "ask", "bid"} => lastExecAt = m.exec
    /\ p \in {"ask", "bid"} => lastArrivedAt = m
    /\ p \in {"bid", "callbacks"} => bestAsk = m
    /\ p \in {"exec", "arrived", "ask"} => bestAsk = bestBid
    /\ p \in {"exec", "arrived"} => lastArrivedAt = bestAsk
    /\ p = "exec" => lastExecAt = bestAsk.exec

Mutex == \A g, h \in Handlers : call[g].at \in Locked /\ call[h].at \in Locked => g = h

(* No message handled is newer than the ask. *)
Newest == \A m \in handled : m.seq <= bestAsk.seq /\ m.exec <= bestAsk.exec

Inv ==
    /\ TypeOK /\ Mutex /\ Newest /\ DiffNeverBackward
    /\ free => Settled
    /\ \A h \in Handlers : call[h].at \in Locked => Stage(call[h].at, call[h].msg)

(* The numbers of a level, set or not, are natural numbers. *)
LEMMA LevelNumbers == \A x \in Level : x.seq \in Nat /\ x.exec \in Nat
<1> SUFFICES ASSUME NEW x \in Level PROVE x.seq \in Nat /\ x.exec \in Nat
  BY Zenon
<1>1. CASE x = Nil
  BY <1>1, Zenon DEF Nil
<1>2. CASE x \in Msgs
  <2>1. x \in [seq : Nat \ {0}, exec : Nat \ {0}, id : Nat]
    BY <1>2, QuoteAssumption, Zenon
  <2> QED BY <2>1, Zenon
<1> QED BY <1>1, <1>2, Zenon DEF Level

(* Of two levels, the one with the greater seq is not the older. *)
LEMMA LevelOrder == \A x, y \in Level : x.seq < y.seq => x.exec <= y.exec
<1> SUFFICES ASSUME NEW x \in Level, NEW y \in Level, x.seq < y.seq PROVE x.exec <= y.exec
  BY Zenon
<1>1. x.seq \in Nat /\ y.seq \in Nat /\ y.exec \in Nat
  BY LevelNumbers, Zenon
<1>2. y # Nil
  BY <1>1 DEF Nil
<1>3. y \in Msgs
  BY <1>2, Zenon DEF Level
<1>4. CASE x = Nil
  BY <1>1, <1>4 DEF Nil
<1>5. CASE x \in Msgs
  BY <1>3, <1>5, QuoteAssumption, Zenon
<1> QED BY <1>4, <1>5, Zenon DEF Level

(* The invariant holds of a new quote. *)
LEMMA InitInv == Init => Inv
  BY DEF Init, Inv, TypeOK, Mutex, Newest, DiffNeverBackward, free, Settled, Idle, Nil, Level,
         Locked

(* A handler that is in Update has a message of the exchange. *)
LEMMA CallMessage ==
    ASSUME TypeOK, NEW h \in Handlers, call[h].at # "idle"
    PROVE  call[h].msg \in Msgs /\ call[h].msg \in Level
  BY DEF TypeOK, Idle, Level

(* A message that is not applied is not newer than a settled quote. *)
LEMMA OldIsNotNewer ==
    ASSUME TypeOK, Settled, NEW m \in Level, Old(m)
    PROVE  m.seq <= bestAsk.seq /\ m.exec <= bestAsk.exec
  BY LevelNumbers, LevelOrder DEF TypeOK, Settled, Old

(* A message that is applied is not older than a settled quote. *)
LEMMA NewIsNotOlder ==
    ASSUME TypeOK, Settled, NEW m \in Level, ~Old(m)
    PROVE  NotNewer(m)
  BY LevelNumbers DEF TypeOK, Settled, Old, NotNewer

Calls == [Handlers -> [at : {"called"} \union Locked, msg : Msgs] \union {Idle}]

(* A step inside Update keeps the handler the only one. *)
LEMMA Move ==
    ASSUME TypeOK, NEW h \in Handlers, call[h].at # "idle", NEW p \in Locked, goto(h, p),
           \A g \in Handlers : call[g].at \in Locked => g = h
    PROVE  /\ call' \in Calls /\ Mutex' /\ ~free'
           /\ call'[h] = [at |-> p, msg |-> call[h].msg]
           /\ \A g \in Handlers : call'[g].at \in Locked => g = h
<1>1. call[h].msg \in Msgs
  BY CallMessage, Zenon
<1>2. call \in Calls
  BY Zenon DEF TypeOK, Calls
<1>3. call' = [call EXCEPT ![h] = [at |-> p, msg |-> call[h].msg]]
  BY Zenon DEF goto
<1>4. call' \in Calls
  BY <1>1, <1>2, <1>3, Zenon DEF Calls
<1>5. call'[h] = [at |-> p, msg |-> call[h].msg]
  BY <1>2, <1>3, Zenon DEF Calls
<1>6. \A g \in Handlers : g # h => call'[g] = call[g]
  BY <1>2, <1>3, Zenon DEF Calls
<1>7. \A g \in Handlers : call'[g].at \in Locked => g = h
  BY <1>6, Zenon
<1>8. call'[h].at \in Locked
  BY <1>5
<1>9. ~free'
  BY <1>8, Zenon DEF free
<1>10. Mutex'
  BY <1>7, Zenon DEF Mutex
<1> QED BY <1>4, <1>5, <1>7, <1>9, <1>10, Zenon

(* The end of Update leaves the lock free. *)
LEMMA Back ==
    ASSUME TypeOK, NEW h \in Handlers, call[h].at # "idle", return(h),
           \A g \in Handlers : call[g].at \in Locked => g = h
    PROVE  /\ call' \in Calls /\ Mutex' /\ free'
           /\ handled' \subseteq Msgs
           /\ \A g \in Handlers : call'[g].at \notin Locked
<1>1. call[h].msg \in Msgs
  BY CallMessage, Zenon
<1>2. call \in Calls
  BY Zenon DEF TypeOK, Calls
<1>3. call' = [call EXCEPT ![h] = Idle]
  BY Zenon DEF return
<1>4. call' \in Calls
  BY <1>2, <1>3, Zenon DEF Calls
<1>5. call'[h].at = "idle"
  BY <1>2, <1>3, Zenon DEF Calls, Idle
<1>6. \A g \in Handlers : g # h => call'[g] = call[g]
  BY <1>2, <1>3, Zenon DEF Calls
<1>7. \A g \in Handlers : call'[g].at \notin Locked
  BY <1>5, <1>6, Zenon DEF Locked
<1>8. free' /\ Mutex'
  BY <1>7, Zenon DEF free, Mutex
<1>9. handled' \subseteq Msgs
  BY <1>1, Zenon DEF return, TypeOK
<1> QED BY <1>4, <1>7, <1>8, <1>9, Zenon

(* Outside the section the quote does not change. *)
LEMMA ReceiveInv ==
    ASSUME Inv, NEW h \in Handlers, NEW m \in Msgs, Receive(h, m)
    PROVE  Inv'
<1>1. call \in Calls
  BY Zenon DEF Inv, TypeOK, Calls
<1>2. call' = [call EXCEPT ![h] = [at |-> "called", msg |-> m]] /\ call[h].at = "idle"
  BY Zenon DEF Receive, at
<1>3. call' \in Calls
  BY <1>1, <1>2, Zenon DEF Calls
<1>4. call'[h].at \notin Locked /\ call[h].at \notin Locked
  BY <1>1, <1>2, Zenon DEF Calls, Locked
<1>5. \A g \in Handlers : g # h => call'[g] = call[g]
  BY <1>1, <1>2, Zenon DEF Calls
<1>6. UNCHANGED <<last, levels, before, handled>>
  BY Zenon DEF Receive
<1>7. free' => free
  BY <1>4, <1>5, Zenon DEF free
<1>8. Mutex'
  BY <1>4, <1>5, Zenon DEF Inv, Mutex
<1>9. \A g \in Handlers : call'[g].at \in Locked => Stage(call[g].at, call[g].msg) /\ call'[g] = call[g]
  BY <1>4, <1>5, Zenon DEF Inv
<1>10. \A g \in Handlers : call'[g].at \in Locked => Stage(call[g].at, call[g].msg)'
  BY <1>6, <1>9 DEF Stage, Settled, NotNewer, last, levels
<1> QED
  BY <1>3, <1>6, <1>7, <1>8, <1>10, Zenon DEF Inv, TypeOK, Calls, Newest, DiffNeverBackward, Settled,
     last, levels, before, Level

(* The types of the fields that Update sets. *)
Fields ==
    /\ seqID \in Nat /\ lastExecAt \in Nat
    /\ lastArrivedAt \in Level
    /\ bestAsk \in Level /\ bestBid \in Level
    /\ beforeBestAsk \in Level /\ beforeBestBid \in Level
    /\ handled \subseteq Msgs

(* What is left to show of a step to another place inside Update. *)
LEMMA Inside ==
    ASSUME Inv, NEW h \in Handlers, call[h].at # "idle", NEW p \in Locked, goto(h, p),
           \A g \in Handlers : call[g].at \in Locked => g = h,
           NEW m, m = call[h].msg, Stage(p, m)', Fields', Newest', DiffNeverBackward'
    PROVE  Inv'
<1>1. /\ call' \in Calls /\ Mutex' /\ ~free'
      /\ call'[h] = [at |-> p, msg |-> m]
      /\ \A g \in Handlers : call'[g].at \in Locked => g = h
  BY Move, Zenon DEF Inv
<1>2. call'[h].at = p /\ call'[h].msg = m
  BY <1>1
<1>3. \A g \in Handlers : call'[g].at \in Locked => Stage(call[g].at, call[g].msg)'
  BY <1>1, <1>2, Zenon DEF Stage, NotNewer
<1>4. TypeOK'
  BY <1>1, Zenon DEF TypeOK, Fields, Calls
<1> QED BY <1>1, <1>3, <1>4, Zenon DEF Inv

(* What is left to show of a step that ends Update. *)
LEMMA AtEnd ==
    ASSUME Inv, NEW h \in Handlers, call[h].at # "idle", return(h),
           \A g \in Handlers : call[g].at \in Locked => g = h,
           Settled', Fields', Newest', DiffNeverBackward'
    PROVE  Inv'
<1>1. /\ call' \in Calls /\ Mutex' /\ free'
      /\ \A g \in Handlers : call'[g].at \notin Locked
  BY Back, Zenon DEF Inv
<1>2. TypeOK'
  BY <1>1, Zenon DEF TypeOK, Fields, Calls
<1> QED BY <1>1, <1>2, Zenon DEF Inv

(* Every step of Update keeps the invariant. *)
LEMMA StepInv ==
    ASSUME Inv, NEW h \in Handlers, Step(h)
    PROVE  Inv'
<1>0. TypeOK /\ Mutex /\ Newest /\ DiffNeverBackward /\ Fields
  BY Zenon DEF Inv, TypeOK, Fields
<1>1. call[h].at # "idle"
  BY Zenon DEF Step, Lock, setBeforeBestAsk, setBeforeBestBid, Check, setSeqID, setLastExecAt,
         setLastArrivedAt, setBestAsk, setBestBid, Callbacks, at
<1> PICK m : m = call[h].msg
  BY Zenon
<1>2. m \in Msgs /\ m \in Level /\ m.seq \in Nat /\ m.exec \in Nat
  BY <1>0, <1>1, CallMessage, LevelNumbers, Zenon
<1>3. /\ bestAsk.seq \in Nat /\ bestAsk.exec \in Nat /\ bestBid.seq \in Nat /\ bestBid.exec \in Nat
      /\ beforeBestAsk.seq \in Nat /\ beforeBestBid.seq \in Nat
      /\ \A x \in handled : x.seq \in Nat /\ x.exec \in Nat
  BY <1>0, LevelNumbers, Zenon DEF Fields, Level
<1>4. call[h].at \in Locked =>
         Stage(call[h].at, m) /\ \A g \in Handlers : call[g].at \in Locked => g = h
  BY Zenon DEF Inv, Mutex
<1>5. CASE Lock(h)
  <2>1. free /\ Settled /\ UNCHANGED <<last, levels, before, handled>>
    BY <1>5, Zenon DEF Lock, Inv
  <2>2. \A g \in Handlers : call[g].at \in Locked => g = h
    BY <2>1, Zenon DEF free
  <2>3. PICK p \in {"beforeAsk", "check"} : goto(h, p)
    BY <1>5, Zenon DEF Lock
  <2>4. p \in Locked
    BY Zenon DEF Locked
  <2>5. Stage(p, m)'
    BY <2>1, Zenon DEF Stage, Settled, last, levels
  <2>6. Fields' /\ Newest' /\ DiffNeverBackward'
    BY <1>0, <2>1, Zenon DEF Fields, Newest, DiffNeverBackward, last, levels, before
  <2> QED BY <1>1, <2>2, <2>3, <2>4, <2>5, <2>6, Inside, Zenon
<1>6. CASE setBeforeBestAsk(h)
  <2>1. call[h].at = "beforeAsk" /\ call[h].at \in Locked /\ "beforeBid" \in Locked
    BY <1>6, Zenon DEF setBeforeBestAsk, at, Locked
  <2>2. Settled
    BY <1>4, <2>1, Zenon DEF Stage
  <2>3. Stage("beforeBid", m)' /\ Fields' /\ Newest' /\ DiffNeverBackward'
    BY <1>0, <1>3, <1>6, <2>2 DEF setBeforeBestAsk, Stage, Settled, Fields, Newest,
       DiffNeverBackward, last, levels
  <2> QED BY <1>1, <1>4, <1>6, <2>1, <2>3, Inside, Zenon DEF setBeforeBestAsk
<1>7. CASE setBeforeBestBid(h)
  <2>1. call[h].at = "beforeBid" /\ call[h].at \in Locked /\ "check" \in Locked
    BY <1>7, Zenon DEF setBeforeBestBid, at, Locked
  <2>2. Settled
    BY <1>4, <2>1, Zenon DEF Stage
  <2>3. Stage("check", m)' /\ Fields' /\ Newest' /\ DiffNeverBackward'
    BY <1>0, <1>3, <1>7, <2>2 DEF setBeforeBestBid, Stage, Settled, Fields, Newest,
       DiffNeverBackward, last, levels
  <2> QED BY <1>1, <1>4, <1>7, <2>1, <2>3, Inside, Zenon DEF setBeforeBestBid
<1>8. CASE Check(h)
  <2>1. call[h].at = "check" /\ call[h].at \in Locked /\ "seq" \in Locked
    BY <1>8, Zenon DEF Check, at, Locked
  <2>2. Settled /\ UNCHANGED <<last, levels, before>>
    BY <1>4, <1>8, <2>1, Zenon DEF Stage, Check
  <2>3. Settled' /\ DiffNeverBackward'
    BY <1>0, <2>2, Zenon DEF Settled, DiffNeverBackward, last, levels, before
  <2>4. CASE Old(m)
    <3>1. return(h) /\ handled' = handled \union {m}
      BY <1>8, <2>4, Zenon DEF Check, return
    <3>2. m.seq <= bestAsk.seq /\ m.exec <= bestAsk.exec
      BY <1>0, <1>2, <2>2, <2>4, OldIsNotNewer, Zenon
    <3>3. Newest' /\ Fields'
      BY <1>0, <1>2, <2>2, <3>1, <3>2, Zenon DEF Newest, Fields, last, levels, before
    <3> QED BY <1>1, <1>4, <2>1, <2>3, <3>1, <3>3, AtEnd, Zenon
  <2>5. CASE ~Old(m)
    <3>1. goto(h, "seq") /\ handled' = handled
      BY <1>8, <2>5, Zenon DEF Check
    <3>2. NotNewer(m)
      BY <1>0, <1>2, <2>2, <2>5, NewIsNotOlder, Zenon
    <3>3. Stage("seq", m)'
      BY <2>2, <2>3, <3>2, Zenon DEF Stage, NotNewer, levels
    <3>4. Newest' /\ Fields'
      BY <1>0, <2>2, <3>1, Zenon DEF Newest, Fields, last, levels, before
    <3> QED BY <1>1, <1>4, <2>1, <2>3, <3>1, <3>3, <3>4, Inside, Zenon
  <2> QED BY <2>4, <2>5, Zenon
<1>9. CASE setSeqID(h)
  <2>1. call[h].at = "seq" /\ call[h].at \in Locked /\ "exec" \in Locked
    BY <1>9, Zenon DEF setSeqID, at, Locked
  <2>2. Stage("seq", m)
    BY <1>4, <2>1, Zenon
  <2>3. Stage("exec", m)' /\ Fields' /\ Newest' /\ DiffNeverBackward'
    BY <1>0, <1>2, <1>9, <2>2, Zenon DEF setSeqID, Stage, Settled, NotNewer, Fields, Newest,
       DiffNeverBackward, levels, before
  <2> QED BY <1>1, <1>4, <1>9, <2>1, <2>3, Inside, Zenon DEF setSeqID
<1>10. CASE setLastExecAt(h)
  <2>1. call[h].at = "exec" /\ call[h].at \in Locked /\ "arrived" \in Locked
    BY <1>10, Zenon DEF setLastExecAt, at, Locked
  <2>2. Stage("exec", m)
    BY <1>4, <2>1, Zenon
  <2>3. Stage("arrived", m)' /\ Fields' /\ Newest' /\ DiffNeverBackward'
    BY <1>0, <1>2, <1>10, <2>2, Zenon DEF setLastExecAt, Stage, Settled, NotNewer, Fields, Newest,
       DiffNeverBackward, levels, before
  <2> QED BY <1>1, <1>4, <1>10, <2>1, <2>3, Inside, Zenon DEF setLastExecAt
<1>11. CASE setLastArrivedAt(h)
  <2>1. call[h].at = "arrived" /\ call[h].at \in Locked /\ "ask" \in Locked
    BY <1>11, Zenon DEF setLastArrivedAt, at, Locked
  <2>2. Stage("arrived", m)
    BY <1>4, <2>1, Zenon
  <2>3. Stage("ask", m)' /\ Fields' /\ Newest' /\ DiffNeverBackward'
    BY <1>0, <1>2, <1>11, <2>2, Zenon DEF setLastArrivedAt, Stage, Settled, NotNewer, Fields, Newest,
       DiffNeverBackward, levels, before
  <2> QED BY <1>1, <1>4, <1>11, <2>1, <2>3, Inside, Zenon DEF setLastArrivedAt
<1>12. CASE setBestAsk(h)
  <2>1. call[h].at = "ask" /\ call[h].at \in Locked /\ "bid" \in Locked
    BY <1>12, Zenon DEF setBestAsk, at, Locked
  <2>2. Stage("ask", m) /\ bestAsk.seq <= m.seq /\ bestAsk.exec <= m.exec
    BY <1>4, <2>1, Zenon DEF Stage, NotNewer
  <2>3. bestAsk' = m /\ UNCHANGED <<last, bestBid, before, handled>>
    BY <1>12, Zenon DEF setBestAsk
  <2>4. Stage("bid", m)' /\ Fields'
    BY <1>0, <1>2, <2>2, <2>3, Zenon DEF Stage, NotNewer, Fields, last, before
  <2>5. Newest' /\ DiffNeverBackward'
    BY <1>0, <1>2, <1>3, <2>2, <2>3 DEF Newest, DiffNeverBackward, before
  <2> QED BY <1>1, <1>4, <1>12, <2>1, <2>4, <2>5, Inside, Zenon DEF setBestAsk
<1>13. CASE setBestBid(h)
  <2>1. call[h].at = "bid" /\ call[h].at \in Locked /\ "callbacks" \in Locked
    BY <1>13, Zenon DEF setBestBid, at, Locked
  <2>2. Stage("bid", m) /\ bestBid.seq <= m.seq
    BY <1>4, <2>1, Zenon DEF Stage, NotNewer
  <2>3. bestBid' = m /\ UNCHANGED <<last, bestAsk, before, handled>>
    BY <1>13, Zenon DEF setBestBid
  <2>4. Stage("callbacks", m)' /\ Fields'
    BY <1>0, <1>2, <2>2, <2>3, Zenon DEF Stage, Settled, Fields, last, before
  <2>5. Newest' /\ DiffNeverBackward'
    BY <1>0, <1>2, <1>3, <2>2, <2>3 DEF Newest, DiffNeverBackward, before
  <2> QED BY <1>1, <1>4, <1>13, <2>1, <2>4, <2>5, Inside, Zenon DEF setBestBid
<1>14. CASE Callbacks(h)
  <2>1. call[h].at = "callbacks" /\ call[h].at \in Locked
    BY <1>14, Zenon DEF Callbacks, at, Locked
  <2>2. Settled /\ UNCHANGED <<last, levels, before>> /\ return(h)
    BY <1>4, <1>14, <2>1, Zenon DEF Stage, Callbacks
  <2>3. bestAsk = m /\ handled' = handled \union {m}
    BY <1>4, <2>1, <2>2, Zenon DEF Stage, return
  <2>4. Settled' /\ DiffNeverBackward'
    BY <1>0, <2>2, Zenon DEF Settled, DiffNeverBackward, last, levels, before
  <2>5. Newest' /\ Fields'
    BY <1>0, <1>2, <2>2, <2>3 DEF Newest, Fields, last, levels, before
  <2> QED BY <1>1, <1>4, <2>1, <2>2, <2>4, <2>5, AtEnd, Zenon
<1> QED
  BY <1>5, <1>6, <1>7, <1>8, <1>9, <1>10, <1>11, <1>12, <1>13, <1>14, Zenon DEF Step

(* The invariant holds in every reachable state. *)
THEOREM Invariance == Spec => []Inv
<1>1. Inv /\ [Next]_vars => Inv'
  <2> SUFFICES ASSUME Inv, [Next]_vars PROVE Inv'
    BY Zenon
  <2>1. CASE Next
    BY <2>1, StepInv, ReceiveInv, Zenon DEF Next
  <2>2. CASE UNCHANGED vars
    BY <2>2 DEF vars, last, levels, before, Inv, TypeOK, Mutex, Newest, DiffNeverBackward, free,
       Settled, Stage, NotNewer, Level
  <2> QED BY <2>1, <2>2, Zenon
<1> QED BY <1>1, InitInv, PTL DEF Spec

(* Between updates, and in every callback, the quote is one whole message: *)
(* Update (quote.go) never leaves a mixed state behind.                    *)
THEOREM QuoteIsOneMessage == Spec => []OneMessage
<1>1. Inv => OneMessage
  BY Zenon DEF Inv, OneMessage, Settled, Stage, at, Locked
<1> QED BY <1>1, Invariance, PTL

(* Between updates the quote is at least as new as every message Update    *)
(* has handled, in whatever order they came.                               *)
THEOREM QuoteIsNewest == Spec => []NewestHandled
<1>1. Inv => NewestHandled
  BY Zenon DEF Inv, NewestHandled, Newest
<1> QED BY <1>1, Invariance, PTL

(* GetDiffBestAsk and GetDiffBestBid compare with a level that is never    *)
(* newer than the present one, in the middle of an Update either: the      *)
(* previous level is saved under the lock before the present one moves on. *)
THEOREM DiffComparesWithOlder == Spec => []DiffNeverBackward
<1>1. Inv => DiffNeverBackward
  BY Zenon DEF Inv
<1> QED BY <1>1, Invariance, PTL

(* No step of Update moves the sequence number, the time or a side         *)
(* backward: the two checks of Update see to it under its lock.            *)
THEOREM QuoteMovesForward == Spec => NeverBackward
<1> DEFINE Forward ==
       /\ seqID' >= seqID /\ lastExecAt' >= lastExecAt
       /\ bestAsk'.seq >= bestAsk.seq /\ bestBid'.seq >= bestBid.seq
<1>1. Inv /\ [Next]_vars => [Forward]_vars
  <2> SUFFICES ASSUME Inv, Next PROVE Forward
    BY Zenon
  <2>1. seqID \in Nat /\ lastExecAt \in Nat /\ bestAsk.seq \in Nat /\ bestBid.seq \in Nat
    BY LevelNumbers, Zenon DEF Inv, TypeOK
  <2>2. CASE UNCHANGED <<last, levels>>
    BY <2>1, <2>2 DEF last, levels
  <2>3. ASSUME NEW h \in Handlers,
               setSeqID(h) \/ setLastExecAt(h) \/ setLastArrivedAt(h) \/ setBestAsk(h)
                  \/ setBestBid(h)
        PROVE  Forward
    <3>1. call[h].at \in {"seq", "exec", "arrived", "ask", "bid"} /\ call[h].at \in Locked
      BY <2>3, Zenon DEF setSeqID, setLastExecAt, setLastArrivedAt, setBestAsk, setBestBid, at, Locked
    <3>2. Stage(call[h].at, call[h].msg)
      BY <3>1, Zenon DEF Inv
    <3>3. call[h].msg.seq \in Nat /\ call[h].msg.exec \in Nat
      BY <3>1, CallMessage, LevelNumbers, Zenon DEF Inv
    <3> QED
      BY <2>1, <2>3, <3>1, <3>2, <3>3
      DEF Stage, Settled, NotNewer, setSeqID, setLastExecAt, setLastArrivedAt, setBestAsk,
          setBestBid, at, last, levels
  <2>4. UNCHANGED <<last, levels>> \/ \E h \in Handlers :
           setSeqID(h) \/ setLastExecAt(h) \/ setLastArrivedAt(h) \/ setBestAsk(h) \/ setBestBid(h)
    BY Zenon DEF Next, Step, Receive, Lock, setBeforeBestAsk, setBeforeBestBid, Check, Callbacks
  <2> QED BY <2>2, <2>3, <2>4, Zenon
<1>2. Spec => [][Forward]_vars
  BY <1>1, Invariance, PTL DEF Spec
<1> QED BY <1>2, Zenon DEF NeverBackward
-----------------------------------------------------------------------------
(* The operation locks. *)

(* The indices of the slice of t whose locks t holds. *)
Held(t) == {k \in 1 .. Len(orders[t]) : \/ pc[t] = "lock" /\ k < idx[t]
                                        \/ pc[t] = "run"
                                        \/ pc[t] = "unlock" /\ k >= idx[t]}

Distinct(q) == \A k, l \in 1 .. Len(q) : q[k] = q[l] => k = l

(* The inductive invariant: a thread owns the locks it has taken and not   *)
(* yet released.                                                           *)
Owned ==
    /\ \A t \in Threads : \A k \in Held(t) : owner[orders[t][k]] = t
    /\ \A t \in Threads : Distinct(orders[t])
    /\ \A t \in Threads : pc[t] # "idle" => Len(orders[t]) > 0

(* A thread in the middle of a call was given one of the batches. *)
ChoseBatch == \A t \in Threads : pc[t] # "idle" => elems(orders[t]) \in Batches

LocksInv == LocksTypeOK /\ Owned /\ ChoseBatch

(* The slice Unique returns is a sequence of distinct orders of S, and not *)
(* empty when S is not.                                                    *)
LEMMA UniqueIsDistinct ==
    ASSUME NEW S \in Batches, NEW q \in Unique(S)
    PROVE  q \in Seq(Orders) /\ Distinct(q) /\ Len(q) > 0 /\ elems(q) = S
<1>1. S \subseteq Orders /\ S # {} /\ IsFiniteSet(S)
  BY OpLocksAssumption, Zenon
<1> DEFINE n == Cardinality(S)
<1>2. n \in Nat
  BY <1>1, FS_CardinalityType, Zenon
<1>3. n # 0
  BY <1>1, FS_EmptySet, Zenon
<1> HIDE DEF n
<1>4. q \in [1 .. n -> S] /\ (\A k, l \in 1 .. n : q[k] = q[l] => k = l) /\ elems(q) = S
  BY Zenon DEF Unique, n
<1>5. q \in Seq(Orders) /\ Len(q) = n
  BY <1>1, <1>2, <1>4
<1> QED BY <1>2, <1>3, <1>4, <1>5 DEF Distinct

(* No thread holds a lock at the start. *)
LEMMA LocksInitInv == LocksInit => LocksInv
BY OpLocksAssumption DEF LocksInit, LocksInv, LocksTypeOK, Owned, ChoseBatch, Held, Distinct

(* A call starts with no lock held. *)
LEMMA BeginInv ==
    ASSUME LocksInv, NEW t \in Threads, NEW q \in Seq(Orders), Distinct(q), Len(q) > 0,
           elems(q) \in Batches, begin(t, q)
    PROVE  LocksInv'
<1>1. LocksTypeOK'
  BY DEF LocksInv, LocksTypeOK, begin
<1>2. Owned'
  BY DEF LocksInv, LocksTypeOK, Owned, Held, begin
<1>3. ChoseBatch'
  BY Zenon DEF LocksInv, LocksTypeOK, ChoseBatch, begin
<1> QED BY <1>1, <1>2, <1>3, Zenon DEF LocksInv

(* Every step of a thread keeps the invariant. *)
LEMMA LocksStepInv ==
    ASSUME LocksInv, NEW t \in Threads, LocksStep(t)
    PROVE  LocksInv'
<1> USE DEF LocksInv
<1>1. CASE Acquire(t)
  <2>1. LocksTypeOK'
    BY <1>1 DEF LocksTypeOK, Acquire
  <2>2. \A u \in Threads : \A k \in Held(u)' : owner'[orders'[u][k]] = u
    BY <1>1, OpLocksAssumption DEF LocksTypeOK, Owned, Held, Acquire
  <2>3. Owned'
    BY <1>1, <2>2, Zenon DEF Owned, Acquire, LocksTypeOK
  <2>4. ChoseBatch'
    BY <1>1, Zenon DEF ChoseBatch, Acquire, LocksTypeOK
  <2> QED BY <2>1, <2>3, <2>4, Zenon
<1>2. CASE Return(t)
  <2>1. LocksTypeOK'
    BY <1>2 DEF LocksTypeOK, Return, Owned
  <2>2. \A u \in Threads : \A k \in Held(u)' : owner'[orders'[u][k]] = u
    BY <1>2, Zenon DEF LocksTypeOK, Owned, Held, Return
  <2>3. Owned'
    BY <1>2, <2>2, Zenon DEF Owned, Return, LocksTypeOK
  <2>4. ChoseBatch'
    BY <1>2, Zenon DEF ChoseBatch, Return, LocksTypeOK
  <2> QED BY <2>1, <2>3, <2>4
<1>3. CASE Release(t)
  <2>1. LocksTypeOK'
    BY <1>3 DEF LocksTypeOK, Release
  <2>2. ASSUME NEW u \in Threads, NEW k \in Held(u)'
        PROVE  owner'[orders'[u][k]] = u
    <3>1. k \in Held(u) /\ orders'[u] = orders[u] /\ owner[orders[u][k]] = u
      BY <1>3 DEF LocksTypeOK, Owned, Held, Release
    <3>2. k \in 1 .. Len(orders[u])
      BY <3>1, Zenon DEF Held
    <3>3. orders[u][k] # orders[t][idx[t]]
      <4>1. CASE u = t
        <5>1. k # idx[t] /\ idx[t] \in 1 .. Len(orders[t])
          BY <1>3, <4>1 DEF LocksTypeOK, Held, Release
        <5> QED BY <4>1, <5>1, <3>1, <1>3, Zenon DEF Owned, Distinct, Held
      <4>2. CASE u # t
        <5>1. idx[t] \in Held(t)
          BY <1>3 DEF LocksTypeOK, Held, Release
        <5> QED BY <4>2, <5>1, <3>1, Zenon DEF Owned
      <4> QED BY <4>1, <4>2, Zenon
    <3> QED BY <3>1, <3>2, <3>3, <1>3 DEF LocksTypeOK, Release
  <2>3. Owned'
    BY <1>3, <2>2, Zenon DEF Owned, Release, LocksTypeOK
  <2>4. ChoseBatch'
    BY <1>3, Zenon DEF ChoseBatch, Release, LocksTypeOK
  <2> QED BY <2>1, <2>3, <2>4, Zenon
<1> QED BY <1>1, <1>2, <1>3, Zenon DEF LocksStep

(* The invariant is inductive. *)
LEMMA LocksNextInv == LocksInv /\ [LocksNext]_locksVars => LocksInv'
<1> SUFFICES ASSUME LocksInv, [LocksNext]_locksVars PROVE LocksInv'
  BY Zenon
<1>1. CASE UNCHANGED locksVars
  BY <1>1, Zenon DEF LocksInv, LocksTypeOK, Owned, ChoseBatch, Held, locksVars
<1>2. ASSUME NEW t \in Threads, NEW o \in Orders, WithOpLock(t, o) PROVE LocksInv'
  <2>1. <<o>> \in Seq(Orders) /\ Distinct(<<o>>) /\ Len(<<o>>) > 0
    BY DEF Distinct
  <2>2. elems(<<o>>) = {o}
    BY DEF elems
  <2> QED BY <1>2, <2>1, <2>2, BeginInv, Zenon DEF WithOpLock
<1>3. ASSUME NEW t \in Threads, NEW S \in Batches, WithOpeLocks(t, S) PROVE LocksInv'
  BY <1>3, BeginInv, UniqueIsDistinct, Zenon DEF WithOpeLocks
<1>4. ASSUME NEW t \in Threads, LocksStep(t) PROVE LocksInv'
  BY <1>4, LocksStepInv, Zenon
<1> QED BY <1>1, <1>2, <1>3, <1>4, Zenon DEF LocksNext

(* The initial state, and every step, of the locks is one of Sections. *)
LEMMA InitSections == LocksInit => Atomic!Init
BY Zenon DEF LocksInit, Atomic!Init, running

(* A section starts with the last lock: no other thread can then be in a   *)
(* section on one of these orders, since it would own a lock that t owns.  *)
LEMMA AcquireSections ==
    ASSUME LocksInv, NEW t \in Threads, Acquire(t), LocksInv'
    PROVE  [Atomic!Next]_running
<1>1. CASE idx[t] # Len(orders[t])
  <2>1. running' = running
    BY <1>1, Zenon DEF Acquire, running, LocksInv, LocksTypeOK
  <2> QED BY <2>1, Zenon
<1>2. CASE idx[t] = Len(orders[t])
  <2> DEFINE S == elems(orders[t])
  <2>1. pc'[t] = "run" /\ orders' = orders /\ \A u \in Threads \ {t} : pc'[u] = pc[u]
    BY <1>2, Zenon DEF Acquire, LocksInv, LocksTypeOK
  <2>2. S \in Batches
    BY Zenon DEF LocksInv, ChoseBatch, Acquire
  <2>3. running[t] = {}
    BY Zenon DEF Acquire, running
  <2>4. ASSUME NEW u \in Threads PROVE running[u] \intersect S = {}
    <3> SUFFICES ASSUME pc[u] = "run", u # t,
                        NEW k \in 1 .. Len(orders[u]), NEW l \in 1 .. Len(orders[t]),
                        orders[u][k] = orders[t][l]
                 PROVE  FALSE
      BY <2>3, Zenon DEF running, elems
    <3>1. k \in Held(u)' /\ l \in Held(t)'
      BY <2>1, Zenon DEF Held
    <3> QED BY <3>1, <2>1 DEF LocksInv, Owned
  <2>5. running' = [running EXCEPT ![t] = S]
    BY <2>1, Zenon DEF running
  <2>6. Atomic!Enter(t, S)
    BY <2>3, <2>4, <2>5, Zenon DEF Atomic!Enter
  <2> QED BY <2>2, <2>6, Zenon DEF Atomic!Next
<1> QED BY <1>1, <1>2, Zenon

(* Every step of the locks is a step of Sections or leaves it unchanged. *)
LEMMA StepSections == LocksInv /\ LocksInv' /\ [LocksNext]_locksVars => [Atomic!Next]_running
<1> SUFFICES ASSUME LocksInv, LocksInv', [LocksNext]_locksVars PROVE [Atomic!Next]_running
  BY Zenon
<1>1. CASE UNCHANGED locksVars
  BY <1>1, Zenon DEF locksVars, running
<1>2. ASSUME NEW t \in Threads, NEW q, begin(t, q) PROVE running' = running
  BY <1>2, Zenon DEF begin, running, LocksInv, LocksTypeOK
<1>3. ASSUME NEW t \in Threads, Return(t) PROVE Atomic!Leave(t)
  <2>1. running[t] # {}
    <3>1. pc[t] = "run" /\ Len(orders[t]) \in Nat /\ Len(orders[t]) > 0
      BY <1>3 DEF Return, LocksInv, Owned, LocksTypeOK
    <3>2. orders[t][1] \in elems(orders[t])
      BY <3>1 DEF elems
    <3> QED BY <3>1, <3>2, Zenon DEF running
  <2>2. running' = [running EXCEPT ![t] = {}]
    BY <1>3, Zenon DEF Return, running, LocksInv, LocksTypeOK
  <2> QED BY <2>1, <2>2, Zenon DEF Atomic!Leave
<1>4. ASSUME NEW t \in Threads, Release(t) PROVE running' = running
  BY <1>4, Zenon DEF Release, running, LocksInv, LocksTypeOK
<1> QED BY <1>1, <1>2, <1>3, <1>4, AcquireSections, Zenon
        DEF LocksNext, LocksStep, WithOpLock, WithOpeLocks, Atomic!Next

(* The operation locks implement atomic sections: WithOpLock and           *)
(* WithOpeLocks never run two sections that share an order at once.        *)
THEOREM LocksImplementSections == LocksSpec => ImplementsSections
<1>1. LocksSpec => []LocksInv
  BY LocksInitInv, LocksNextInv, PTL DEF LocksSpec
<1> QED BY <1>1, InitSections, StepSections, PTL DEF LocksSpec, ImplementsSections, Atomic!Spec
=============================================================================
