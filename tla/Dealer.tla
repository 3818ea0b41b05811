------------------------------- MODULE Dealer -------------------------------
(***************************************************************************)
(* The order state machine of domains/deals: DealerImpl (dealer.go), its   *)
(* response and websocket handlers (dealing_handlers.go) and the Order it  *)
(* drives (order.go), run against an exchange that answers over HTTP and   *)
(* reports fills over a websocket.                                         *)
(*                                                                         *)
(* Every goroutine is a task of the multiset "tasks": a client call        *)
(* between two acquisitions of an order's operation lock (muOpe), an HTTP  *)
(* request on its way to the exchange or its answer on the way back, a     *)
(* response handler that has looked its order up and waits for the lock,   *)
(* or a callback started with "go cb(o)".  One section under muOpe is one  *)
(* action, except where the deferred cancel, which takes no lock, can      *)
(* write the status in the middle of it: those sections are several        *)
(* actions with o in locked.  A section that ends an order is two: the     *)
(* append to doneOrders, in a slice with a mutex of its own, comes last.   *)
(*                                                                         *)
(* A definition whose name starts with Bad is the faulty variant of the    *)
(* one after it; no specification uses it, and the properties must fail    *)
(* when it takes that definition's place.                                  *)
(***************************************************************************)
EXTENDS Naturals, Sequences, Multisets

CONSTANTS
    Orders,       \* order objects of one dealer (one symbol)
    Details,      \* price/quantity pairs (AmendDetail)
    NoDetail,     \* the nil *AmendDetail
    OrderType,    \* domains.OrderType of every order
    FirstDetail,  \* price and quantity every order is created with
    Batches,      \* sets of orders the client passes to SendOrders/CancelOrders
    MaxCalls,     \* bound: client calls in a behaviour
    MaxRequests,  \* bound: requests the agent lets through (then: rate limited)
    MaxFrames     \* bound: websocket frames waiting for the handler

OrderTypes == {"Market", "Limit", "LimitFOK", "LimitIOC", "LimitMaker"}

ASSUME DealerAssumption ==
    /\ OrderType \in [Orders -> OrderTypes]
    /\ FirstDetail \in Details
    /\ NoDetail \notin Details
    /\ Batches \subseteq SUBSET Orders
    /\ MaxCalls \in Nat
    /\ MaxRequests \in Nat
    /\ MaxFrames \in Nat

VARIABLES
    acceptOrder,        \* the dealer takes new orders and amends
    living,             \* LivingOrders
    doneOrders,         \* occurrences of each order in the doneOrders slice
    exported,           \* occurrences in the slices ExportDoneOrders has handed out
    appending,          \* is a goroutine about to append the order to doneOrders
    amendingDetailMap,  \* the latest deferred amend of an order
    status,             \* Order.status
    reason,             \* Order.orderDoneReason
    price,              \* Order.price and Order.qty
    amendingDetail,     \* Order.amendingDetail
    createCallbacks,    \* deferred operations in Order.createCallbacks
    amendCallbacks,     \* deferred operations in Order.amendCallbacks
    locked,             \* orders whose muOpe is held across several actions
    tasks,              \* the goroutines, requests and answers in flight
    sendBatch,          \* orders of the SendOrders call in progress
    ws,                 \* websocket frames the handler has not read yet
    wsOrder,            \* frame whose order HandleOrderData has looked up
    missed,             \* history: orders whose fill was lost with the connection
    exch,               \* what the exchange knows about an order
    calls,              \* client calls made
    requests            \* requests let through by the agent

orderVars  == <<status, reason, price, amendingDetail, living, appending>>
doneVars   == <<doneOrders, exported>>
deferVars  == <<amendingDetailMap, createCallbacks, amendCallbacks>>
wsVars     == <<ws, wsOrder, missed>>
boundVars  == <<calls, requests>>
vars == <<acceptOrder, living, doneOrders, exported, appending, amendingDetailMap,
          status, reason, price, amendingDetail, createCallbacks, amendCallbacks,
          locked, tasks, sendBatch, ws, wsOrder, missed, exch, calls, requests>>

Statuses == {"Born", "Sending", "Pending", "Canceling", "Amending", "Done"}
Reasons  == {"None", "Filled", "PartiallyFilledAndCanceled", "Canceled",
             "Rejected", "Abandoned"}

IsTaker(o)    == OrderType[o] \in {"Market", "LimitFOK", "LimitIOC"}
IsAmenable(o) == OrderType[o] \in {"LimitMaker", "Limit"}
-----------------------------------------------------------------------------
(* Tasks.                                                                  *)

(* Steps of client calls and callbacks; "req", "resp" and "handle" are an  *)
(* HTTP request, its answer and its handler past the LivingOrders lookup.  *)
Steps == {"send", "batchSend", "batchMarked", "sendFail",
          "amend", "deferSet", "amendOrder", "amendLock", "amendReady", "amendSet",
          "amendFail", "cbAmend", "cbDelete",
          "cancelCheck", "cancelSet", "cancelUndo", "cancelsFail",
          "req", "resp", "handle"}

(* The endpoint a request goes to; "creates" and "cancels" are the batches. *)
Ops == {"none", "create", "creates", "amend", "cancel", "cancels"}

(* Outcomes of a request ("gone" is OrderIsNotExists, "reqErr" an error of  *)
(* a whole batch), and whether cancelOrder runs with or without muOpe.      *)
Tags == {"none", "ok", "gone", "err", "reqErr", "locked", "free"}

(* The steps that carry the detail of an amend. *)
DetailSteps == {"amend", "deferSet", "amendOrder", "amendLock", "amendReady",
                "amendSet", "cbAmend", "cbDelete"}

Task == {t \in [pc : Steps, op : Ops, o : Orders, d : Details \union {NoDetail}, tag : Tags] :
            /\ t.pc \in {"req", "resp", "handle"} <=> t.op # "none"
            /\ t.pc \in DetailSteps \/ t.op = "amend" => t.d \in Details}

Job(pc, o, d) == [pc |-> pc, op |-> "none", o |-> o, d |-> d, tag |-> "none"]
Cancel(pc, o, tag) == [pc |-> pc, op |-> "none", o |-> o, d |-> NoDetail, tag |-> tag]
Request(op, o, d) == [pc |-> "req", op |-> op, o |-> o, d |-> d, tag |-> "none"]
Answer(t, tag) == [t EXCEPT !.pc = "resp", !.tag = tag]

(* The callbacks AmendOrder and CancelOrder register. *)
AmendCb(o, d) == Job("cbAmend", o, d)
CancelCb(o)   == Cancel("cancelCheck", o, "free")

One(t) == Each({t})

(* Task t goes on as (or is replaced by) the tasks of next. *)
Becomes(t, next) == tasks' = Less(tasks, {t}) (+) next
Ends(t) == Becomes(t, Nothing)

Frames == [o : Orders, st : {"Filled", "PartiallyFilled", "Canceled"}]
NoFrame == [o |-> "none", st |-> "none"]
Ending(o) == [o |-> o, st |-> "Ending"]   \* the reader is about to append o
-----------------------------------------------------------------------------
Init ==
    /\ acceptOrder = TRUE
    /\ living = {}
    /\ doneOrders = [o \in Orders |-> 0]
    /\ exported = [o \in Orders |-> 0]
    /\ appending = [o \in Orders |-> "no"]
    /\ amendingDetailMap = [o \in Orders |-> NoDetail]
    /\ status = [o \in Orders |-> "Born"]
    /\ reason = [o \in Orders |-> "None"]
    /\ price = [o \in Orders |-> FirstDetail]
    /\ amendingDetail = [o \in Orders |-> NoDetail]
    /\ createCallbacks = [o \in Orders |-> Nothing]
    /\ amendCallbacks = [o \in Orders |-> Nothing]
    /\ locked = {}
    /\ tasks = Nothing
    /\ sendBatch = {}
    /\ ws = <<>>
    /\ wsOrder = NoFrame
    /\ missed = {}
    /\ exch = [o \in Orders |-> "None"]
    /\ calls = 0
    /\ requests = 0
-----------------------------------------------------------------------------
(* No goroutine holds muOpe of the order. *)
Free(o) == o \notin locked /\ appending[o] = "no"

(* State changes of an order: the accept*, reject* and abandon* methods.   *)
(* Each leaves an order's user callbacks out; the deferred operations that *)
(* acceptCreate and acceptAmend start are added to tasks by the handlers.  *)

BadFinish(o, why) ==   \* the order stays in LivingOrders
    /\ status' = [status EXCEPT ![o] = "Done"]
    /\ reason' = [reason EXCEPT ![o] = why]
    /\ appending' = [appending EXCEPT ![o] = "yes"]
    /\ UNCHANGED <<price, amendingDetail, living>>

(* The order is done and leaves LivingOrders; muOpe stays held, ... *)
finish(o, why) ==
    /\ status' = [status EXCEPT ![o] = "Done"]
    /\ reason' = [reason EXCEPT ![o] = why]
    /\ living' = living \ {o}
    /\ appending' = [appending EXCEPT ![o] = "yes"]
    /\ UNCHANGED <<price, amendingDetail>>

(* ... until doneOrders.Append: the field is read without the lock under   *)
(* which ExportDoneOrders replaces it, so the order may come into a slice  *)
(* that has been handed out.                                               *)
AppendDone(o) ==
    /\ appending[o] # "no"
    /\ \/ /\ doneOrders' = [doneOrders EXCEPT ![o] = @ + 1]
          /\ UNCHANGED exported
       \/ /\ appending[o] = "swapped"
          /\ exported' = [exported EXCEPT ![o] = @ + 1]
          /\ UNCHANGED doneOrders
    /\ appending' = [appending EXCEPT ![o] = "no"]
    /\ wsOrder' = IF wsOrder = Ending(o) THEN NoFrame ELSE wsOrder
    /\ UNCHANGED <<acceptOrder, deferVars, status, reason, price, amendingDetail,
                   living, locked, tasks, sendBatch, ws, missed, exch, boundVars>>

acceptFilled(o) == finish(o, "Filled")
acceptCancel(o) == finish(o, "Canceled")
rejectCreate(o) == finish(o, "Rejected")
abandonOrder(o) == finish(o, "Abandoned")

acceptPartiallyFilled(o) ==
    IF OrderType[o] = "LimitIOC"
    THEN finish(o, "PartiallyFilledAndCanceled")
    ELSE UNCHANGED orderVars

acceptCreate(o) ==
    /\ status' = [status EXCEPT ![o] = "Pending"]
    /\ UNCHANGED <<reason, price, amendingDetail, living, appending>>

acceptAmend(o, d) ==
    /\ status' = [status EXCEPT ![o] = "Pending"]
    /\ amendingDetail' = [amendingDetail EXCEPT ![o] = NoDetail]
    /\ price' = [price EXCEPT ![o] = d]
    /\ UNCHANGED <<reason, living, appending>>

rejectAmend(o) ==
    /\ status' = [status EXCEPT ![o] = "Pending"]
    /\ amendingDetail' = [amendingDetail EXCEPT ![o] = NoDetail]
    /\ UNCHANGED <<reason, price, living, appending>>

rejectCancel(o) ==
    /\ status' = [status EXCEPT ![o] = "Pending"]
    /\ UNCHANGED <<reason, price, amendingDetail, living, appending>>

markSending(o) ==
    /\ living' = living \union {o}
    /\ status' = [status EXCEPT ![o] = "Sending"]
    /\ UNCHANGED <<reason, price, amendingDetail, appending>>

(* Only critical errors stop the dealer; which errors are, is the          *)
(* translator's choice.                                                    *)
noticeError == acceptOrder' \in {acceptOrder, FALSE}

(* isNeedToAmend; isAmendAble is always true, since nothing counts amends. *)
isNeedToAmend(o, d) ==
    \/ status[o] = "Pending" /\ price[o] # d
    \/ status[o] = "Amending" /\ price[o] # d /\ amendingDetail[o] # d

(* The agent either lets a request through or fails at once (rate limit,   *)
(* no public ID yet, endpoint not implemented).                            *)
agentAccepts ==
    /\ requests < MaxRequests
    /\ requests' = requests + 1
agentFails == UNCHANGED requests
-----------------------------------------------------------------------------
(* SendOrder.  The client sends an order object once.                      *)

Unsent(o) ==
    /\ status[o] = "Born"
    /\ {"send", "batchSend"} \intersect {t.pc : t \in {u \in Elements(tasks) : u.o = o}} = {}

ClientCall ==
    /\ calls < MaxCalls
    /\ calls' = calls + 1

SendOrder(o) ==
    /\ ClientCall
    /\ Unsent(o)
    /\ acceptOrder
    /\ o \notin living
    /\ tasks' = tasks (+) One(Job("send", o, NoDetail))
    /\ UNCHANGED <<acceptOrder, doneVars, deferVars, orderVars, locked, sendBatch,
                   wsVars, exch, requests>>

SendLocked(t) ==
    /\ t.pc = "send"
    /\ Free(t.o)
    /\ markSending(t.o)
    /\ \/ agentAccepts /\ Becomes(t, One(Request("create", t.o, NoDetail)))
       \/ agentFails /\ Becomes(t, One(Job("sendFail", t.o, NoDetail)))
    /\ UNCHANGED <<acceptOrder, doneVars, deferVars, locked, sendBatch, wsVars,
                   exch, calls>>

BadSendFailed(t) ==   \* the error of agent.SendOrder(s) is only returned
    /\ t.pc = "sendFail"
    /\ Ends(t)
    /\ UNCHANGED <<acceptOrder, doneVars, deferVars, orderVars, locked, sendBatch,
                   wsVars, exch, boundVars>>

SendFailed(t) ==
    /\ t.pc = "sendFail"
    /\ Free(t.o)
    /\ rejectCreate(t.o)
    /\ Ends(t)
    /\ UNCHANGED <<acceptOrder, doneVars, deferVars, locked, sendBatch, wsVars,
                   exch, boundVars>>

(* SendOrders: check all, mark each under its own lock, then one request.  *)
(* One such call is in progress at a time (bound of the model).            *)
SendOrders(B) ==
    /\ ClientCall
    /\ sendBatch = {}
    /\ \A o \in B : Unsent(o)
    /\ acceptOrder
    /\ B \intersect living = {}
    /\ tasks' = tasks (+) Each({Job("batchSend", o, NoDetail) : o \in B})
    /\ sendBatch' = B
    /\ UNCHANGED <<acceptOrder, doneVars, deferVars, orderVars, locked, wsVars,
                   exch, requests>>

BatchMark(t) ==
    /\ t.pc = "batchSend"
    /\ Free(t.o)
    /\ markSending(t.o)
    /\ Becomes(t, One(Job("batchMarked", t.o, NoDetail)))
    /\ UNCHANGED <<acceptOrder, doneVars, deferVars, locked, sendBatch, wsVars,
                   exch, boundVars>>

BatchRequest ==
    LET marked == {Job("batchMarked", o, NoDetail) : o \in sendBatch} IN
    /\ sendBatch # {}
    /\ marked \subseteq Elements(tasks)
    /\ \/ /\ agentAccepts
          /\ tasks' = Less(tasks, marked)
                        (+) Each({Request("creates", o, NoDetail) : o \in sendBatch})
       \/ /\ agentFails
          /\ tasks' = Less(tasks, marked)
                        (+) Each({Job("sendFail", o, NoDetail) : o \in sendBatch})
    /\ sendBatch' = {}
    /\ UNCHANGED <<acceptOrder, doneVars, deferVars, orderVars, locked, wsVars,
                   exch, calls>>
-----------------------------------------------------------------------------
(* AmendOrder: the acceptOrder check, the section that looks at the status *)
(* and defers or decides to amend now, and amendOrder.                     *)

AmendOrder(o, d) ==
    /\ ClientCall
    /\ acceptOrder
    /\ tasks' = tasks (+) One(Job("amend", o, d))
    /\ UNCHANGED <<acceptOrder, doneVars, deferVars, orderVars, locked, sendBatch,
                   wsVars, exch, requests>>

(* A detail in the map means that the callback is registered, so only the  *)
(* first deferred amend registers one; SetCreateCallback and               *)
(* SetAmendCallback drop it for the types they do not support.             *)
defer(cbs, t, supported) ==
    IF amendingDetailMap[t.o] = NoDetail /\ supported
    THEN [cbs EXCEPT ![t.o] = @ (+) One(AmendCb(t.o, t.d))]
    ELSE cbs

AmendLocked(t) ==
    /\ t.pc = "amend"
    /\ Free(t.o)
    /\ \/ /\ status[t.o] = "Pending"
          /\ Becomes(t, One(Job("amendOrder", t.o, t.d)))
          /\ UNCHANGED <<createCallbacks, amendCallbacks, locked>>
       \/ /\ status[t.o] = "Sending"
          /\ createCallbacks' = defer(createCallbacks, t, ~IsTaker(t.o))
          /\ locked' = locked \union {t.o}
          /\ Becomes(t, One(Job("deferSet", t.o, t.d)))
          /\ UNCHANGED amendCallbacks
       \/ /\ status[t.o] = "Amending"
          /\ amendCallbacks' = defer(amendCallbacks, t, IsAmenable(t.o))
          /\ locked' = locked \union {t.o}
          /\ Becomes(t, One(Job("deferSet", t.o, t.d)))
          /\ UNCHANGED createCallbacks
       \/ /\ status[t.o] \in {"Born", "Canceling", "Done"}
          /\ Ends(t)
          /\ UNCHANGED <<createCallbacks, amendCallbacks, locked>>
    /\ UNCHANGED <<acceptOrder, doneVars, amendingDetailMap, orderVars, sendBatch,
                   wsVars, exch, boundVars>>

DeferSet(t) ==
    /\ t.pc = "deferSet"
    /\ amendingDetailMap' = [amendingDetailMap EXCEPT ![t.o] = t.d]
    /\ locked' = locked \ {t.o}
    /\ Ends(t)
    /\ UNCHANGED <<acceptOrder, doneVars, createCallbacks, amendCallbacks,
                   orderVars, sendBatch, wsVars, exch, boundVars>>

(* amendOrder: the LivingOrders lookup before the lock. *)
AmendLookup(t) ==
    /\ t.pc = "amendOrder"
    /\ IF t.o \in living THEN Becomes(t, One(Job("amendLock", t.o, t.d))) ELSE Ends(t)
    /\ UNCHANGED <<acceptOrder, doneVars, deferVars, orderVars, locked, sendBatch,
                   wsVars, exch, boundVars>>

(* amendOrder: isNeedToAmend, then the status check, then the assignments, *)
(* all under muOpe.                                                        *)
AmendBegin(t) ==
    /\ t.pc = "amendLock"
    /\ Free(t.o)
    /\ IF isNeedToAmend(t.o, t.d)
       THEN /\ locked' = locked \union {t.o}
            /\ Becomes(t, One(Job("amendReady", t.o, t.d)))
       ELSE /\ UNCHANGED locked
            /\ Ends(t)
    /\ UNCHANGED <<acceptOrder, doneVars, deferVars, orderVars, sendBatch, wsVars,
                   exch, boundVars>>

AmendCheck(t) ==
    /\ t.pc = "amendReady"
    /\ IF status[t.o] # "Pending"
       THEN /\ locked' = locked \ {t.o}
            /\ Becomes(t, One(Job("amendFail", t.o, NoDetail)))
       ELSE /\ UNCHANGED locked
            /\ Becomes(t, One(Job("amendSet", t.o, t.d)))
    /\ UNCHANGED <<acceptOrder, doneVars, deferVars, orderVars, sendBatch, wsVars,
                   exch, boundVars>>

BadAmendSet(t) ==   \* setAmendingDetail forgotten
    /\ t.pc = "amendSet"
    /\ status' = [status EXCEPT ![t.o] = "Amending"]
    /\ locked' = locked \ {t.o}
    /\ \/ agentAccepts /\ Becomes(t, One(Request("amend", t.o, t.d)))
       \/ agentFails /\ Becomes(t, One(Job("amendFail", t.o, NoDetail)))
    /\ UNCHANGED <<acceptOrder, doneVars, deferVars, reason, price, amendingDetail,
                   living, appending, sendBatch, wsVars, exch, calls>>

AmendSet(t) ==
    /\ t.pc = "amendSet"
    /\ status' = [status EXCEPT ![t.o] = "Amending"]
    /\ amendingDetail' = [amendingDetail EXCEPT ![t.o] = t.d]
    /\ locked' = locked \ {t.o}
    /\ \/ agentAccepts /\ Becomes(t, One(Request("amend", t.o, t.d)))
       \/ agentFails /\ Becomes(t, One(Job("amendFail", t.o, NoDetail)))
    /\ UNCHANGED <<acceptOrder, doneVars, deferVars, reason, price, living,
                   appending, sendBatch, wsVars, exch, calls>>

AmendFailed(t) ==
    /\ t.pc = "amendFail"
    /\ Free(t.o)
    /\ rejectAmend(t.o)
    /\ Ends(t)
    /\ UNCHANGED <<acceptOrder, doneVars, deferVars, locked, sendBatch, wsVars,
                   exch, boundVars>>

(* The callback of a deferred amend: read the latest detail, drop the map  *)
(* entry, then amendOrder.                                                 *)
CbAmendGet(t) ==
    /\ t.pc = "cbAmend"
    /\ LET latest == amendingDetailMap[t.o] IN
       Becomes(t, One(Job("cbDelete", t.o, IF latest = NoDetail THEN t.d ELSE latest)))
    /\ UNCHANGED <<acceptOrder, doneVars, deferVars, orderVars, locked, sendBatch,
                   wsVars, exch, boundVars>>

CbAmendDelete(t) ==
    /\ t.pc = "cbDelete"
    /\ amendingDetailMap' = [amendingDetailMap EXCEPT ![t.o] = NoDetail]
    /\ Becomes(t, One(Job("amendOrder", t.o, t.d)))
    /\ UNCHANGED <<acceptOrder, doneVars, createCallbacks, amendCallbacks,
                   orderVars, locked, sendBatch, wsVars, exch, boundVars>>
-----------------------------------------------------------------------------
(* CancelOrder and CancelOrders. *)

CancelOrder(o) ==
    /\ ClientCall
    /\ Free(o)
    /\ \/ /\ status[o] = "Pending"
          /\ locked' = locked \union {o}
          /\ tasks' = tasks (+) One(Cancel("cancelCheck", o, "locked"))
          /\ UNCHANGED deferVars
       \/ /\ status[o] = "Sending"
          /\ createCallbacks' = [createCallbacks EXCEPT ![o] = One(CancelCb(o))]
          /\ amendingDetailMap' = [amendingDetailMap EXCEPT ![o] = NoDetail]
          /\ UNCHANGED <<amendCallbacks, locked, tasks>>
       \/ /\ status[o] = "Amending"
          /\ amendCallbacks' = [amendCallbacks EXCEPT ![o] = One(CancelCb(o))]
          /\ amendingDetailMap' = [amendingDetailMap EXCEPT ![o] = NoDetail]
          /\ UNCHANGED <<createCallbacks, locked, tasks>>
    /\ UNCHANGED <<acceptOrder, doneVars, orderVars, sendBatch, wsVars, exch, requests>>

Unlock(t) ==
    IF t.tag = "locked" THEN locked' = locked \ {t.o} ELSE UNCHANGED locked

(* cancelOrder: under muOpe when CancelOrder calls it, without it when it  *)
(* runs as the callback of a deferred cancel.                              *)
CancelCheck(t) ==
    /\ t.pc = "cancelCheck"
    /\ IF status[t.o] = "Pending"
       THEN Becomes(t, One(Cancel("cancelSet", t.o, t.tag))) /\ UNCHANGED locked
       ELSE Ends(t) /\ Unlock(t)
    /\ UNCHANGED <<acceptOrder, doneVars, deferVars, orderVars, sendBatch, wsVars,
                   exch, boundVars>>

CancelSet(t) ==
    /\ t.pc = "cancelSet"
    /\ status' = [status EXCEPT ![t.o] = "Canceling"]
    /\ \/ /\ agentAccepts
          /\ Becomes(t, One(Request("cancel", t.o, NoDetail)))
          /\ Unlock(t)
       \/ /\ agentFails
          /\ Becomes(t, One(Cancel("cancelUndo", t.o, t.tag)))
          /\ UNCHANGED locked
    /\ UNCHANGED <<acceptOrder, doneVars, deferVars, reason, price, amendingDetail,
                   living, appending, sendBatch, wsVars, exch, calls>>

BadCancelUndo(t) ==   \* the error of agent.CancelOrder is only returned
    /\ t.pc = "cancelUndo"
    /\ Ends(t)
    /\ Unlock(t)
    /\ UNCHANGED <<acceptOrder, doneVars, deferVars, orderVars, sendBatch, wsVars,
                   exch, boundVars>>

CancelUndo(t) ==
    /\ t.pc = "cancelUndo"
    /\ rejectCancel(t.o)
    /\ Ends(t)
    /\ Unlock(t)
    /\ UNCHANGED <<acceptOrder, doneVars, deferVars, sendBatch, wsVars, exch,
                   boundVars>>

(* CancelOrders holds the locks of all its orders (WithOpeLocks) for the   *)
(* whole section; on an agent error every order is rejected afterwards,    *)
(* each under its own lock again.  The client cancels orders it has sent.  *)
CancelOrders(B) ==
    LET targets == {o \in B : status[o] = "Pending"}
        replaced(cbs, st) ==
            [o \in Orders |-> IF o \in B /\ status[o] = st THEN One(CancelCb(o)) ELSE cbs[o]]
        deferred == {o \in B : status[o] \in {"Sending", "Amending"}}
    IN
    /\ ClientCall
    /\ \A o \in B : Free(o) /\ status[o] # "Born"
    /\ createCallbacks' = replaced(createCallbacks, "Sending")
    /\ amendCallbacks' = replaced(amendCallbacks, "Amending")
    /\ amendingDetailMap' =
          [o \in Orders |-> IF o \in deferred THEN NoDetail ELSE amendingDetailMap[o]]
    /\ status' = [o \in Orders |-> IF o \in targets THEN "Canceling" ELSE status[o]]
    /\ \/ /\ targets = {}
          /\ UNCHANGED <<tasks, requests>>
       \/ /\ targets # {}
          /\ agentAccepts
          /\ tasks' = tasks (+) Each({Request("cancels", o, NoDetail) : o \in targets})
       \/ /\ targets # {}
          /\ agentFails
          /\ tasks' = tasks (+) Each({Job("cancelsFail", o, NoDetail) : o \in B})
    /\ UNCHANGED <<acceptOrder, doneVars, reason, price, amendingDetail, living,
                   appending, locked, sendBatch, wsVars, exch>>

BadCancelsFailed(t) ==   \* the error of agent.CancelOrders is dropped
    /\ t.pc = "cancelsFail"
    /\ Ends(t)
    /\ UNCHANGED <<acceptOrder, doneVars, deferVars, orderVars, locked, sendBatch,
                   wsVars, exch, boundVars>>

CancelsFailed(t) ==
    /\ t.pc = "cancelsFail"
    /\ Free(t.o)
    /\ rejectCancel(t.o)
    /\ Ends(t)
    /\ UNCHANGED <<acceptOrder, doneVars, deferVars, locked, sendBatch, wsVars,
                   exch, boundVars>>
-----------------------------------------------------------------------------
(* The exchange (external): it applies requests, answers them, and fills   *)
(* or cancels orders by itself.  A request that ends in an error may have  *)
(* been applied or not (HTTP timeout).                                     *)

Errors(t) == IF t.op \in {"creates", "cancels"} THEN {"err", "reqErr"} ELSE {"err"}

ExchangeServes(t) ==
    /\ t.pc = "req"
    /\ LET applied == CASE t.op \in {"create", "creates"} -> "Open"
                        [] t.op \in {"cancel", "cancels"} -> "Canceled"
                        [] OTHER -> exch[t.o]
           possible == IF t.op \in {"create", "creates"} THEN exch[t.o] = "None"
                                                         ELSE exch[t.o] = "Open"
       IN \/ /\ possible
             /\ exch' = [exch EXCEPT ![t.o] = applied]
             /\ \E tag \in {"ok"} \union Errors(t) : Becomes(t, One(Answer(t, tag)))
          \/ /\ UNCHANGED exch
             /\ \E tag \in Errors(t) \union (IF possible THEN {} ELSE {"gone"}) :
                   Becomes(t, One(Answer(t, tag)))
    /\ UNCHANGED <<acceptOrder, doneVars, deferVars, orderVars, locked, sendBatch,
                   wsVars, boundVars>>

(* It reports on the private channel, whose frames are lost when the       *)
(* connection is: nothing asks the exchange again.                         *)
ExchangeReports(o, st, after) ==
    /\ exch[o] = "Open"
    /\ exch' = [exch EXCEPT ![o] = after]
    /\ \/ /\ Len(ws) < MaxFrames
          /\ ws' = Append(ws, [o |-> o, st |-> st])
          /\ UNCHANGED missed
       \/ /\ missed' = IF st = "Filled" THEN missed \union {o} ELSE missed
          /\ UNCHANGED ws
    /\ UNCHANGED <<acceptOrder, doneVars, deferVars, orderVars, locked, tasks,
                   sendBatch, wsOrder, boundVars>>

ExchangeFills(o)          == ExchangeReports(o, "Filled", "Filled")
ExchangePartiallyFills(o) == ExchangeReports(o, "PartiallyFilled", "Open")
ExchangeCancels(o)        == ExchangeReports(o, "Canceled", "Canceled")
-----------------------------------------------------------------------------
(* HTTP responses: the lookup in LivingOrders by ID and status, outside    *)
(* the lock, then the handler's section.                                   *)

Awaited(op) == CASE op \in {"create", "creates"} -> "Sending"
                 [] op = "amend" -> "Amending"
                 [] OTHER -> "Canceling"

(* A batch answer is looked up once for the whole batch; then an error of  *)
(* the batch goes to rejectCreates/rejectCancels, and anything else to the *)
(* single handler, with its own lookup.                                    *)
Single(t) == [t EXCEPT !.op = IF t.op = "creates" THEN "create" ELSE "cancel"]

RespLookup(t) ==
    /\ t.pc = "resp"
    /\ IF t.o \in living /\ status[t.o] = Awaited(t.op)
       THEN /\ UNCHANGED acceptOrder
            /\ IF t.op \in {"creates", "cancels"} /\ t.tag # "reqErr"
               THEN Becomes(t, One(Single(t)))
               ELSE Becomes(t, One([t EXCEPT !.pc = "handle"]))
       ELSE /\ Ends(t)
            /\ IF t.tag = "reqErr" THEN noticeError ELSE UNCHANGED acceptOrder
    /\ UNCHANGED <<doneVars, deferVars, orderVars, locked, sendBatch, wsVars, exch,
                   boundVars>>

handleSendOrderResp(t) ==
    /\ t.pc = "handle" /\ t.op \in {"create", "creates"}
    /\ Free(t.o)
    /\ \/ /\ t.tag # "ok"
          /\ rejectCreate(t.o)
          /\ noticeError
          /\ Ends(t)
       \/ /\ t.tag = "ok"
          /\ status[t.o] = "Sending" /\ OrderType[t.o] # "Market"
          /\ acceptCreate(t.o)
          /\ Becomes(t, createCallbacks[t.o])
          /\ UNCHANGED acceptOrder
       \/ /\ t.tag = "ok"
          /\ status[t.o] # "Sending" \/ OrderType[t.o] = "Market"
          /\ Ends(t)
          /\ UNCHANGED <<acceptOrder, orderVars>>
    /\ UNCHANGED <<doneVars, deferVars, locked, sendBatch, wsVars, exch, boundVars>>

handleAmendOrderResp(t) ==
    /\ t.pc = "handle" /\ t.op = "amend"
    /\ Free(t.o)
    /\ \/ t.tag = "gone" /\ abandonOrder(t.o) /\ Ends(t) /\ UNCHANGED acceptOrder
       \/ t.tag = "err" /\ rejectAmend(t.o) /\ Ends(t) /\ noticeError
       \/ /\ t.tag = "ok"
          /\ acceptAmend(t.o, t.d)
          /\ Becomes(t, amendCallbacks[t.o])
          /\ UNCHANGED acceptOrder
    /\ UNCHANGED <<doneVars, deferVars, locked, sendBatch, wsVars, exch, boundVars>>

BadHandleCancelOrderResp(t) ==   \* an error other than OrderIsNotExists is ignored
    /\ t.pc = "handle" /\ t.op \in {"cancel", "cancels"}
    /\ Free(t.o)
    /\ IF t.tag = "gone" THEN abandonOrder(t.o) ELSE acceptCancel(t.o)
    /\ Ends(t)
    /\ UNCHANGED <<acceptOrder, doneVars, deferVars, locked, sendBatch, wsVars, exch,
                   boundVars>>

handleCancelOrderResp(t) ==
    /\ t.pc = "handle" /\ t.op \in {"cancel", "cancels"}
    /\ Free(t.o)
    /\ \/ t.tag = "gone" /\ abandonOrder(t.o) /\ UNCHANGED acceptOrder
       \/ t.tag \in {"err", "reqErr"} /\ rejectCancel(t.o) /\ noticeError
       \/ t.tag = "ok" /\ acceptCancel(t.o) /\ UNCHANGED acceptOrder
    /\ Ends(t)
    /\ UNCHANGED <<doneVars, deferVars, locked, sendBatch, wsVars, exch, boundVars>>
-----------------------------------------------------------------------------
(* HandleOrderData, run by the one goroutine that reads the private        *)
(* channel: the lookup, then the section.  Frames that are neither a fill  *)
(* nor a partial fill change nothing.                                      *)

BadWsLookup ==   \* a fill of an order that is still Sending is ignored
    /\ wsOrder = NoFrame
    /\ ws # <<>>
    /\ ws' = Tail(ws)
    /\ wsOrder' = IF /\ Head(ws).o \in living /\ Head(ws).st # "Canceled"
                     /\ status[Head(ws).o] # "Sending"
                  THEN Head(ws) ELSE NoFrame
    /\ UNCHANGED <<acceptOrder, doneVars, deferVars, orderVars, locked, tasks,
                   sendBatch, missed, exch, boundVars>>

WsLookup ==
    /\ wsOrder = NoFrame
    /\ ws # <<>>
    /\ ws' = Tail(ws)
    /\ wsOrder' = IF Head(ws).o \in living /\ Head(ws).st # "Canceled"
                  THEN Head(ws) ELSE NoFrame
    /\ UNCHANGED <<acceptOrder, doneVars, deferVars, orderVars, locked, tasks,
                   sendBatch, missed, exch, boundVars>>

HandleOrderData ==
    /\ wsOrder # NoFrame
    /\ Free(wsOrder.o)
    /\ \/ wsOrder.st = "Filled" /\ acceptFilled(wsOrder.o)
       \/ wsOrder.st = "PartiallyFilled" /\ acceptPartiallyFilled(wsOrder.o)
    /\ wsOrder' = IF appending' = appending THEN NoFrame ELSE Ending(wsOrder.o)
    /\ UNCHANGED <<acceptOrder, doneVars, deferVars, locked, tasks, sendBatch, ws,
                   missed, exch, boundVars>>

(* The slice is replaced under the dealer's lock, which appenders do not   *)
(* take.                                                                   *)
ExportDoneOrders ==
    /\ exported' = [o \in Orders |-> exported[o] + doneOrders[o]]
    /\ doneOrders' = [o \in Orders |-> 0]
    /\ appending' = [o \in Orders |-> IF appending[o] = "no" THEN "no" ELSE "swapped"]
    /\ UNCHANGED <<acceptOrder, deferVars, status, reason, price, amendingDetail,
                   living, locked, tasks, sendBatch, wsVars, exch, boundVars>>
-----------------------------------------------------------------------------
Client ==
    \/ ExportDoneOrders
    \/ \E o \in Orders : SendOrder(o) \/ CancelOrder(o)
    \/ \E o \in Orders, d \in Details : AmendOrder(o, d)
    \/ \E B \in Batches : SendOrders(B) \/ CancelOrders(B)

Exchange ==
    \/ \E t \in Elements(tasks) : ExchangeServes(t)
    \/ \E o \in Orders :
          ExchangeFills(o) \/ ExchangePartiallyFills(o) \/ ExchangeCancels(o)

Step(t) ==
    \/ SendLocked(t) \/ SendFailed(t) \/ BatchMark(t)
    \/ AmendLocked(t) \/ DeferSet(t) \/ AmendLookup(t) \/ AmendBegin(t) \/ AmendCheck(t)
    \/ AmendSet(t) \/ AmendFailed(t) \/ CbAmendGet(t) \/ CbAmendDelete(t)
    \/ CancelCheck(t) \/ CancelSet(t) \/ CancelUndo(t) \/ CancelsFailed(t)
    \/ RespLookup(t) \/ handleSendOrderResp(t) \/ handleAmendOrderResp(t)
    \/ handleCancelOrderResp(t)

Dealing ==
    \/ BatchRequest
    \/ \E t \in Elements(tasks) : Step(t)
    \/ \E o \in Orders : AppendDone(o)

OrderReader == WsLookup \/ HandleOrderData

Next == Client \/ Exchange \/ Dealing \/ OrderReader

Spec == Init /\ [][Next]_vars

(* Goroutines run, every HTTP request ends with an answer or an error, and  *)
(* the websocket reader handles the frames it receives. Bybit's client      *)
(* bounds a request by a timeout; CoinEx's sets none, so there the second   *)
(* is an assumption on the network. Nothing obliges the client to call or   *)
(* the exchange to trade.                                                   *)
Fairness == /\ WF_vars(Dealing)
            /\ WF_vars(OrderReader)
            /\ WF_vars(\E t \in Elements(tasks) : ExchangeServes(t))

FairSpec == Spec /\ Fairness
-----------------------------------------------------------------------------
OrderTypeOK ==
    /\ living \subseteq Orders
    /\ doneOrders \in [Orders -> Nat]
    /\ exported \in [Orders -> Nat]
    /\ appending \in [Orders -> {"no", "yes", "swapped"}]
    /\ status \in [Orders -> Statuses]
    /\ reason \in [Orders -> Reasons]
    /\ price \in [Orders -> Details]
    /\ amendingDetail \in [Orders -> Details \union {NoDetail}]

TasksOK(B) == IsMultiset(B) /\ Elements(B) \subseteq Task

DeferTypeOK ==
    /\ amendingDetailMap \in [Orders -> Details \union {NoDetail}]
    /\ DOMAIN createCallbacks = Orders /\ \A o \in Orders : TasksOK(createCallbacks[o])
    /\ DOMAIN amendCallbacks = Orders /\ \A o \in Orders : TasksOK(amendCallbacks[o])

RunTypeOK ==
    /\ acceptOrder \in BOOLEAN
    /\ locked \subseteq Orders
    /\ sendBatch \subseteq Orders
    /\ ws \in Seq(Frames)
    /\ wsOrder \in Frames \union {NoFrame} \union {Ending(o) : o \in Orders}
    /\ missed \subseteq Orders
    /\ exch \in [Orders -> {"None", "Open", "Filled", "Canceled"}]
    /\ calls \in Nat
    /\ requests \in Nat

(* Type invariant of the orders, of what is deferred, of the exchange and  *)
(* of every goroutine in flight.  A task that amends carries a detail.     *)
TypeOK == OrderTypeOK /\ DeferTypeOK /\ RunTypeOK /\ TasksOK(tasks)

(* Task t will take its order out of status st. *)
Answers(t, st) ==
    \/ t.pc \in {"req", "resp", "handle"} /\ Awaited(t.op) = st
    \/ t.pc \in {"batchMarked", "sendFail"} /\ st = "Sending"
    \/ t.pc = "amendFail" /\ st = "Amending"
    \/ t.pc \in {"cancelUndo", "cancelsFail"} /\ st = "Canceling"

Answered(o) ==
    \/ status[o] \notin {"Sending", "Amending", "Canceling"}
    \/ status[o] = "Sending" /\ OrderType[o] = "Market"
    \/ \E t \in Elements(tasks) : t.o = o /\ Answers(t, status[o])

(* No operation is left unanswered: an order in LivingOrders that is       *)
(* Sending, Amending or Canceling has a request, a response handler or an  *)
(* error path of that very operation still under way, whatever the other   *)
(* handlers, the websocket and the unlocked deferred cancel did to its     *)
(* status meanwhile.  (A market order waits for its fill instead.)         *)
OperationIsAnswered == \A o \in living : Answered(o)

(* isNeedToAmend dereferences amendingDetail of an Amending order: it is   *)
(* never nil there, although three paths reset it.                         *)
AmendingHasDetail ==
    \A o \in Orders : status[o] = "Amending" => amendingDetail[o] # NoDetail

Recorded(o) == doneOrders[o] + exported[o]

(* The order is in LivingOrders or in a slice of done orders, or on the    *)
(* way from one to the other.                                              *)
IsAccounted(o) == o \in living <=> appending[o] = "no" /\ Recorded(o) = 0

(* The steps from which a goroutine may still end its order. *)
EndingSteps == {"send", "batchSend", "batchMarked", "sendFail", "handle"}

(* No goroutine that looked the order up while it was living, or marked    *)
(* it, has still to end it.                                                *)
Settled(o) ==
    /\ status[o] # "Born" /\ o \notin living /\ appending[o] = "no"
    /\ wsOrder = NoFrame \/ wsOrder.o # o
    /\ \A t \in Elements(tasks) : t.o = o => t.pc \notin EndingSteps

(* Every order that was sent is in LivingOrders or done, never both and    *)
(* never neither, over all the paths that end an order and all the         *)
(* exports; and once it is settled its entry is final: it is not appended  *)
(* again, lost or given another reason, whatever answers and frames still  *)
(* arrive.  (Before, it may be appended twice, with the last reason: the   *)
(* handlers' error paths do not look at the order again under the lock.)   *)
SentIsAccounted ==
    [][\A o \in Orders :
          /\ status'[o] # "Born" => IsAccounted(o)'
          /\ Settled(o) => /\ Settled(o)' /\ reason'[o] = reason[o]
                           /\ Recorded(o)' = Recorded(o)]_vars

(* A fill that reaches the process is never missed: once the exchange has  *)
(* filled an order, the frame is still to be handled or the dealer has let *)
(* the order go, unless the frame was lost with its connection.            *)
FillIsNeverMissed ==
    \A o \in living \ missed : exch[o] = "Filled" =>
        \/ \E i \in DOMAIN ws : ws[i] = [o |-> o, st |-> "Filled"]
        \/ wsOrder = [o |-> o, st |-> "Filled"]

(* No CancelOrders call names this order together with others. *)
CanceledAlone(o) == \A B \in Batches : o \in B => B = {o}

(* An order the dealer reports as filled, canceled or abandoned (the three *)
(* reasons that say the exchange no longer has it) is not open there.      *)
(* Abandoned only if it is canceled alone: a CancelOrders whose request    *)
(* fails also rejects the orders that are still Sending, and a cancel that *)
(* follows finds no order at the exchange before the create arrives.       *)
DoneIsNotOpen ==
    \A o \in Orders :
        \/ reason[o] \in {"Canceled", "Filled"}
        \/ reason[o] = "Abandoned" /\ CanceledAlone(o)
        => exch[o] \in {"Filled", "Canceled"}

(* Liveness: a living limit order does not stay Sending, Amending or       *)
(* Canceling for ever.                                                     *)
OperationEnds ==
    \A o \in Orders :
        (o \in living /\ OrderType[o] # "Market" /\ status[o] \in {"Sending", "Amending", "Canceling"})
            ~> (o \notin living \/ status[o] = "Pending")

(* Liveness: an order the exchange has filled leaves LivingOrders, unless  *)
(* the fill was lost with the connection: the dealer then keeps it for     *)
(* ever, since nothing else reconciles it with the exchange.               *)
FillEndsOrder ==
    \A o \in Orders : exch[o] = "Filled" ~> (o \notin living \/ o \in missed)
-----------------------------------------------------------------------------
(* What the documentation and the comments of the code say, and the code   *)
(* does not always do.                                                     *)

(* README, state machine: no transition leaves Done. *)
DoneIsFinal == [][\A o \in Orders : status[o] = "Done" => status'[o] = "Done"]_vars

(* handleSendOrderResp and handleCancelOrderResp: "If the order was        *)
(* already confirmed via WebSocket, it is ignored": so an order is done    *)
(* once.                                                                   *)
AppendedOnce == \A o \in Orders : Recorded(o) <= 1

(* AmendOrder: "If the order is currently being sent or amended, the amend *)
(* is deferred to the operation's completion callback": so one amend of an *)
(* order is in flight at a time.                                           *)
OneAmendInFlight ==
    \A o \in Orders : \A t, u \in Elements(tasks) :
        /\ t.o = o /\ t.op = "amend" /\ u.o = o /\ u.op = "amend"
        => t = u /\ tasks[t] = 1

(* README: "Multiple Amend requests retain only the last one". *)
RetainsOnlyLastAmend ==
    \A o \in Orders : \A c, d \in {cb \in Elements(amendCallbacks[o]) : cb.pc = "cbAmend"} :
        c = d /\ amendCallbacks[o][c] = 1

(* HandleOrderData: "Status transitions for order placement                *)
(* (Sending->Pending) ... are driven by HTTP response callbacks            *)
(* (handleSendOrderResp, ...)".                                            *)
OpenedByAnswer ==
    [][\A o \in Orders :
          status[o] = "Sending" /\ status'[o] = "Pending"
              => \E t \in Elements(tasks) : t.o = o /\ handleSendOrderResp(t)]_vars

(* README: the dealer "reconciles asynchronous events (fills, cancels,     *)
(* expiries) internally": an order the exchange has filled or canceled     *)
(* leaves LivingOrders.                                                    *)
EventsAreReconciled ==
    \A o \in Orders : exch[o] \in {"Filled", "Canceled"} ~> o \notin living
=============================================================================
