---------------------------- MODULE DealerProofs ----------------------------
(***************************************************************************)
(* Proofs about Dealer for any set of orders, details, types and bounds:   *)
(* type correctness first, which every other proof rests on, then the      *)
(* invariants of amends and operations, then, with an inductive invariant  *)
(* of their own (AccountInv), those that account for every order, then     *)
(* (OpenInv) that an order reported as finished is not open, and last that *)
(* the entry of a settled order is final.                                  *)
(***************************************************************************)
EXTENDS Dealer, TLAPS

-----------------------------------------------------------------------------
(* Multisets. *)

(* The sum of two multisets is one, and holds what either of them holds. *)
LEMMA SumFacts ==
    ASSUME NEW M, IsMultiset(M), NEW N, IsMultiset(N)
    PROVE  /\ IsMultiset(M (+) N)
           /\ DOMAIN (M (+) N) = DOMAIN M \union DOMAIN N
BY DEF IsMultiset, (+), Copies

(* Taking one copy of the elements of S away leaves a multiset with every  *)
(* other element.                                                          *)
LEMMA LessFacts ==
    ASSUME NEW M, IsMultiset(M), NEW S
    PROVE  /\ IsMultiset(Less(M, S))
           /\ DOMAIN Less(M, S) \subseteq DOMAIN M
           /\ DOMAIN M \ S \subseteq DOMAIN Less(M, S)
BY DEF IsMultiset, Less

(* A set taken as a multiset. *)
LEMMA EachFacts ==
    ASSUME NEW S
    PROVE  IsMultiset(Each(S)) /\ DOMAIN Each(S) = S
BY DEF IsMultiset, Each

(* What Becomes does to the tasks: those of next are there, every other    *)
(* task but t stays, nothing else appears.                                 *)
LEMMA BecomesFacts ==
    ASSUME NEW t, NEW next, IsMultiset(tasks), IsMultiset(next), Becomes(t, next)
    PROVE  /\ IsMultiset(tasks')
           /\ DOMAIN next \subseteq DOMAIN tasks'
           /\ DOMAIN tasks \ {t} \subseteq DOMAIN tasks'
           /\ DOMAIN tasks' \subseteq DOMAIN tasks \union DOMAIN next
<1> DEFINE B == Less(tasks, {t})
<1>1. IsMultiset(B) /\ DOMAIN B \subseteq DOMAIN tasks /\ DOMAIN tasks \ {t} \subseteq DOMAIN B
    BY LessFacts, Zenon
<1>2. tasks' = B (+) next
    BY Zenon DEF Becomes
<1> HIDE DEF B
<1>3. IsMultiset(B (+) next) /\ DOMAIN (B (+) next) = DOMAIN B \union DOMAIN next
    BY <1>1, SumFacts, Zenon
<1> QED BY <1>1, <1>2, <1>3, Zenon
-----------------------------------------------------------------------------
(* Type correctness. *)

(* The steps of client calls and callbacks that carry no detail. *)
PlainSteps == Steps \ (DetailSteps \union {"req", "resp", "handle"})

(* The constructors build tasks. *)
LEMMA JobTask ==
    ASSUME NEW pc \in Steps, NEW o \in Orders, NEW d \in Details \union {NoDetail},
           pc \notin {"req", "resp", "handle"}, pc \in DetailSteps => d \in Details
    PROVE  Job(pc, o, d) \in Task
BY Zenon DEF Job, Task, Ops, Tags

(* A step of cancelOrder is a task, with or without the lock.              *)
LEMMA CancelTask ==
    ASSUME NEW pc \in {"cancelCheck", "cancelSet", "cancelUndo"}, NEW o \in Orders,
           NEW tag \in Tags
    PROVE  Cancel(pc, o, tag) \in Task
BY Zenon DEF Cancel, Task, Ops, Steps, DetailSteps

(* A request is a task, if one that amends has a detail.                   *)
LEMMA RequestTask ==
    ASSUME NEW op \in Ops \ {"none"}, NEW o \in Orders, NEW d \in Details \union {NoDetail},
           op = "amend" => d \in Details
    PROVE  Request(op, o, d) \in Task
BY Zenon DEF Request, Task, Steps, Tags, DetailSteps

(* What the fields of a task range over.                                   *)
LEMMA TaskFields ==
    ASSUME NEW t \in Task
    PROVE  /\ t.pc \in Steps /\ t.op \in Ops /\ t.o \in Orders /\ t.tag \in Tags
           /\ t.d \in Details \union {NoDetail}
           /\ t.pc \in {"req", "resp", "handle"} <=> t.op # "none"
           /\ t.pc \in DetailSteps \/ t.op = "amend" => t.d \in Details
BY Zenon DEF Task

(* Multisets of tasks. *)
LEMMA EachTasksOK ==
    ASSUME NEW S, S \subseteq Task
    PROVE  TasksOK(Each(S)) /\ TasksOK(Nothing)
BY EachFacts, Zenon DEF TasksOK, Elements, Nothing

(* One task is a well-typed multiset.                                      *)
LEMMA OneTasksOK ==
    ASSUME NEW t \in Task
    PROVE  TasksOK(One(t)) /\ DOMAIN One(t) = {t}
BY EachTasksOK, EachFacts, Zenon DEF One

(* Replacing a task by well-typed ones keeps tasks well typed.             *)
LEMMA BecomesTyped ==
    ASSUME TasksOK(tasks), NEW t, NEW next, TasksOK(next), Becomes(t, next)
    PROVE  TasksOK(tasks)'
BY BecomesFacts, Zenon DEF TasksOK, Elements

(* Starting goroutines keeps tasks well typed.                             *)
LEMMA SpawnTyped ==
    ASSUME NEW B, TasksOK(B), NEW N, TasksOK(N)
    PROVE  TasksOK(B (+) N)
BY SumFacts, Zenon DEF TasksOK, Elements

(* Every way a handler changes an order keeps its types. *)
LEMMA OrderChangeTyped ==
    ASSUME OrderTypeOK, UNCHANGED doneVars, NEW o \in Orders,
           \/ \E why \in Reasons : finish(o, why)
           \/ acceptCreate(o) \/ rejectAmend(o) \/ rejectCancel(o) \/ markSending(o)
           \/ \E d \in Details : acceptAmend(o, d)
           \/ UNCHANGED orderVars
    PROVE  OrderTypeOK'
<1>1. CASE \E why \in Reasons : finish(o, why)
    BY <1>1 DEF OrderTypeOK, finish, Statuses, doneVars
<1>2. CASE acceptCreate(o) \/ rejectCancel(o) \/ rejectAmend(o) \/ markSending(o)
    BY <1>2, Zenon DEF OrderTypeOK, acceptCreate, rejectCancel, rejectAmend, markSending, Statuses,
       doneVars
<1>3. CASE \E d \in Details : acceptAmend(o, d)
    BY <1>3 DEF OrderTypeOK, acceptAmend, Statuses, doneVars
<1>4. CASE UNCHANGED orderVars
    BY <1>4, Zenon DEF OrderTypeOK, orderVars, doneVars
<1> QED BY <1>1, <1>2, <1>3, <1>4, Zenon

(* Deferred operations that do not change keep their types. *)
LEMMA DeferUnchanged ==
    ASSUME DeferTypeOK, UNCHANGED deferVars
    PROVE  DeferTypeOK'
BY Zenon DEF DeferTypeOK, deferVars, TasksOK

(* Tasks that steps start, as multisets. *)
LEMMA StartedTyped ==
    ASSUME NEW o \in Orders
    PROVE  /\ \A pc \in DetailSteps, d \in Details : TasksOK(One(Job(pc, o, d)))
           /\ \A pc \in PlainSteps : TasksOK(One(Job(pc, o, NoDetail)))
           /\ \A op \in Ops \ {"none", "amend"} : TasksOK(One(Request(op, o, NoDetail)))
           /\ \A d \in Details : TasksOK(One(Request("amend", o, d)))
<1>1. ASSUME NEW pc \in DetailSteps, NEW d \in Details PROVE Job(pc, o, d) \in Task
    BY <1>1, JobTask, Zenon DEF Steps, DetailSteps
<1>2. ASSUME NEW pc \in PlainSteps PROVE Job(pc, o, NoDetail) \in Task
    BY <1>2, JobTask, Zenon DEF PlainSteps
<1>3. ASSUME NEW op \in Ops \ {"none", "amend"} PROVE Request(op, o, NoDetail) \in Task
    BY <1>3, RequestTask, Zenon
<1>4. ASSUME NEW d \in Details PROVE Request("amend", o, d) \in Task
    BY RequestTask, Zenon DEF Ops
<1> QED BY <1>1, <1>2, <1>3, <1>4, OneTasksOK, Zenon

(* The tasks a goroutine leaves behind are well typed: it ends, or goes on *)
(* as one task, or starts the deferred operations of its order.            *)
LEMMA StepTasksTyped ==
    ASSUME TypeOK, NEW t \in Elements(tasks), Step(t)
    PROVE  TasksOK(tasks)'
<1>1. t \in Task /\ TasksOK(tasks) /\ DeferTypeOK
    BY Zenon DEF TypeOK, TasksOK
<1>2. /\ t.o \in Orders /\ t.tag \in Tags
      /\ t.pc \in {"req", "resp", "handle"} <=> t.op # "none"
      /\ t.pc \in DetailSteps => t.d \in Details
    BY <1>1, TaskFields, Zenon
<1>3. ASSUME NEW next, TasksOK(next), Becomes(t, next) PROVE TasksOK(tasks)'
    BY <1>1, <1>3, BecomesTyped, Zenon
<1>4. TasksOK(Nothing)
    BY EachTasksOK, Zenon
<1>5. CASE SendLocked(t) \/ BatchMark(t) \/ CancelCheck(t) \/ CancelSet(t)
    <2>1. \/ \E pc \in {"sendFail", "batchMarked"} : Becomes(t, One(Job(pc, t.o, NoDetail)))
          \/ \E op \in {"create", "cancel"} : Becomes(t, One(Request(op, t.o, NoDetail)))
          \/ \E pc \in {"cancelSet", "cancelUndo"} : Becomes(t, One(Cancel(pc, t.o, t.tag)))
          \/ Becomes(t, Nothing)
        BY <1>5, Zenon DEF SendLocked, BatchMark, CancelCheck, CancelSet, Ends
    <2>2. /\ \A pc \in {"sendFail", "batchMarked"} : TasksOK(One(Job(pc, t.o, NoDetail)))
          /\ \A op \in {"create", "cancel"} : TasksOK(One(Request(op, t.o, NoDetail)))
        BY <1>2, StartedTyped, Zenon DEF Steps, PlainSteps, DetailSteps, Ops
    <2>3. \A pc \in {"cancelSet", "cancelUndo"} : TasksOK(One(Cancel(pc, t.o, t.tag)))
        BY <1>2, CancelTask, OneTasksOK, Zenon
    <2> QED BY <1>3, <1>4, <2>1, <2>2, <2>3, Zenon
<1>6. CASE \/ AmendLocked(t) \/ AmendLookup(t) \/ AmendBegin(t) \/ AmendCheck(t)
           \/ AmendSet(t) \/ CbAmendGet(t) \/ CbAmendDelete(t)
    <2>1. t.d \in Details /\ amendingDetailMap[t.o] \in Details \union {NoDetail}
        BY <1>1, <1>2, <1>6, Zenon DEF AmendLocked, AmendLookup, AmendBegin, AmendCheck, AmendSet,
           CbAmendGet, CbAmendDelete, DetailSteps, DeferTypeOK
    <2>2. \/ \E pc \in DetailSteps, d \in Details : Becomes(t, One(Job(pc, t.o, d)))
          \/ Becomes(t, One(Job("amendFail", t.o, NoDetail)))
          \/ Becomes(t, One(Request("amend", t.o, t.d)))
          \/ Becomes(t, Nothing)
        BY <1>6, <2>1, Zenon DEF AmendLocked, AmendLookup, AmendBegin, AmendCheck, AmendSet,
           CbAmendGet, CbAmendDelete, DetailSteps, Ends
    <2>3. /\ \A pc \in DetailSteps, d \in Details : TasksOK(One(Job(pc, t.o, d)))
          /\ TasksOK(One(Job("amendFail", t.o, NoDetail)))
          /\ TasksOK(One(Request("amend", t.o, t.d)))
        BY <1>2, <2>1, StartedTyped, Zenon DEF Steps, PlainSteps, DetailSteps
    <2> QED BY <1>3, <1>4, <2>2, <2>3, Zenon
<1>7. CASE RespLookup(t)
    <2>1. \/ t.op \in {"creates", "cancels"} /\ Becomes(t, One(Single(t)))
          \/ Becomes(t, One([t EXCEPT !.pc = "handle"]))
          \/ Becomes(t, Nothing)
        BY <1>7, Zenon DEF RespLookup, Ends
    <2>2. ASSUME t.op \in {"creates", "cancels"} PROVE Single(t) \in Task
        <3>1. \/ t.op = "creates" /\ Single(t) = [t EXCEPT !.op = "create"]
              \/ t.op = "cancels" /\ Single(t) = [t EXCEPT !.op = "cancel"]
            BY <2>2, Zenon DEF Single
        <3> QED BY <1>1, <3>1, Zenon DEF Task, Ops
    <2>3. [t EXCEPT !.pc = "handle"] \in Task
        <3>1. t.pc = "resp" /\ t.op # "none"
            BY <1>2, <1>7, Zenon DEF RespLookup
        <3> QED BY <1>1, <3>1, Zenon DEF Task, Steps, DetailSteps
    <2> QED BY <1>3, <1>4, <2>1, <2>2, <2>3, OneTasksOK, Zenon
<1>8. CASE handleSendOrderResp(t) \/ handleAmendOrderResp(t)
    <2>1. \/ Becomes(t, createCallbacks[t.o]) \/ Becomes(t, amendCallbacks[t.o])
          \/ Becomes(t, Nothing)
        BY <1>8, Zenon DEF handleSendOrderResp, handleAmendOrderResp, Ends
    <2>2. TasksOK(createCallbacks[t.o]) /\ TasksOK(amendCallbacks[t.o])
        BY <1>1, <1>2, Zenon DEF DeferTypeOK
    <2> QED BY <1>3, <1>4, <2>1, <2>2, Zenon
<1>9. CASE \/ SendFailed(t) \/ AmendFailed(t) \/ CancelsFailed(t) \/ CancelUndo(t)
           \/ DeferSet(t) \/ handleCancelOrderResp(t)
    BY <1>3, <1>4, <1>9, Zenon DEF SendFailed, AmendFailed, CancelsFailed, CancelUndo,
       DeferSet, handleCancelOrderResp, Ends
<1> QED BY <1>5, <1>6, <1>7, <1>8, <1>9, Zenon DEF Step

(* The orders a goroutine changes keep their types.                        *)
LEMMA StepOrdersTyped ==
    ASSUME TypeOK, NEW t \in Elements(tasks), Step(t)
    PROVE  OrderTypeOK'
<1>1. t \in Task /\ OrderTypeOK
    BY Zenon DEF TypeOK, TasksOK
<1>2. t.o \in Orders /\ (t.pc \in DetailSteps \/ t.op = "amend" => t.d \in Details)
    BY <1>1, TaskFields, Zenon
<1>3. CASE AmendSet(t) \/ CancelSet(t)
    BY <1>1, <1>2, <1>3, Zenon DEF AmendSet, CancelSet, OrderTypeOK, Statuses, DetailSteps, doneVars
<1>4. CASE \/ AmendLocked(t) \/ DeferSet(t) \/ AmendLookup(t) \/ AmendBegin(t) \/ AmendCheck(t)
           \/ CbAmendGet(t) \/ CbAmendDelete(t) \/ CancelCheck(t) \/ RespLookup(t)
    <2>1. UNCHANGED <<doneVars, orderVars>>
        BY <1>4, Zenon DEF AmendLocked, DeferSet, AmendLookup, AmendBegin, AmendCheck,
           CbAmendGet, CbAmendDelete, CancelCheck, RespLookup
    <2> QED BY <1>1, <1>2, <2>1, OrderChangeTyped, Zenon
<1>5. CASE \/ SendLocked(t) \/ BatchMark(t) \/ AmendFailed(t) \/ CancelUndo(t)
           \/ CancelsFailed(t)
    <2>1. UNCHANGED doneVars /\ (markSending(t.o) \/ rejectAmend(t.o) \/ rejectCancel(t.o))
        BY <1>5, Zenon DEF SendLocked, BatchMark, AmendFailed, CancelUndo, CancelsFailed
    <2> QED BY <1>1, <1>2, <2>1, OrderChangeTyped, Zenon
<1>6. CASE \/ SendFailed(t) \/ handleSendOrderResp(t) \/ handleAmendOrderResp(t)
           \/ handleCancelOrderResp(t)
    <2>1. /\ UNCHANGED doneVars
          /\ \/ \E why \in Reasons : finish(t.o, why)
             \/ acceptCreate(t.o) \/ rejectAmend(t.o) \/ rejectCancel(t.o)
             \/ t.op = "amend" /\ acceptAmend(t.o, t.d)
             \/ UNCHANGED orderVars
        BY <1>6, Zenon DEF SendFailed, handleSendOrderResp, handleAmendOrderResp,
           handleCancelOrderResp, rejectCreate, abandonOrder, acceptCancel, Reasons
    <2> QED BY <1>1, <1>2, <2>1, OrderChangeTyped, Zenon
<1> QED BY <1>3, <1>4, <1>5, <1>6, Zenon DEF Step

(* What is deferred keeps its type: only AmendOrder and the callback of a  *)
(* deferred amend change it.                                               *)
LEMMA StepDefersTyped ==
    ASSUME TypeOK, NEW t \in Elements(tasks), Step(t)
    PROVE  DeferTypeOK'
<1>1. t \in Task /\ DeferTypeOK
    BY Zenon DEF TypeOK, TasksOK
<1>2. t.o \in Orders /\ (t.pc \in DetailSteps => t.d \in Details)
    BY <1>1, TaskFields, Zenon
<1>3. CASE DeferSet(t) \/ CbAmendDelete(t)
    BY <1>1, <1>2, <1>3, Zenon DEF DeferSet, CbAmendDelete, DeferTypeOK, TasksOK, DetailSteps
<1>4. CASE AmendLocked(t)
    <2>1. TasksOK(One(AmendCb(t.o, t.d)))
        BY <1>2, <1>4, StartedTyped, Zenon DEF AmendLocked, AmendCb, DetailSteps
    <2>2. ASSUME NEW cbs, NEW supported, DOMAIN cbs = Orders,
                 \A o \in Orders : TasksOK(cbs[o])
          PROVE  /\ DOMAIN defer(cbs, t, supported) = Orders
                 /\ \A o \in Orders : TasksOK(defer(cbs, t, supported)[o])
        BY <1>2, <2>1, <2>2, SpawnTyped, Zenon DEF defer
    <2>3. /\ createCallbacks' = defer(createCallbacks, t, ~IsTaker(t.o)) \/ UNCHANGED createCallbacks
          /\ amendCallbacks' = defer(amendCallbacks, t, IsAmenable(t.o)) \/ UNCHANGED amendCallbacks
          /\ UNCHANGED amendingDetailMap
        BY <1>4, Zenon DEF AmendLocked
    <2>4. /\ DOMAIN createCallbacks' = Orders /\ \A o \in Orders : TasksOK(createCallbacks'[o])
          /\ DOMAIN amendCallbacks' = Orders /\ \A o \in Orders : TasksOK(amendCallbacks'[o])
        BY <1>1, <2>2, <2>3, Zenon DEF DeferTypeOK
    <2> QED BY <1>1, <2>3, <2>4, Zenon DEF DeferTypeOK, TasksOK
<1>5. UNCHANGED deferVars \/ DeferSet(t) \/ CbAmendDelete(t) \/ AmendLocked(t)
    BY Zenon DEF Step, SendLocked, SendFailed, BatchMark, AmendLookup, AmendBegin, AmendCheck,
       AmendSet, AmendFailed, CbAmendGet, CancelCheck, CancelSet, CancelUndo, CancelsFailed,
       RespLookup, handleSendOrderResp, handleAmendOrderResp, handleCancelOrderResp
<1> QED BY <1>1, <1>3, <1>4, <1>5, DeferUnchanged, Zenon

(* The locks, the websocket, the exchange and the counters keep their      *)
(* types.                                                                  *)
LEMMA StepRunTyped ==
    ASSUME TypeOK, NEW t \in Elements(tasks), Step(t)
    PROVE  RunTypeOK'
<1>1. t \in Task /\ RunTypeOK
    BY Zenon DEF TypeOK, TasksOK
<1>2. t.o \in Orders
    BY <1>1, TaskFields, Zenon
<1>3. /\ acceptOrder' \in {acceptOrder, FALSE}
      /\ UNCHANGED <<sendBatch, wsVars, exch, calls>>
    BY Zenon DEF Step, SendLocked, SendFailed, BatchMark, AmendLocked, DeferSet, AmendLookup,
       AmendBegin, AmendCheck, AmendSet, AmendFailed, CbAmendGet, CbAmendDelete,
       CancelCheck, CancelSet, CancelUndo, CancelsFailed, RespLookup,
       handleSendOrderResp, handleAmendOrderResp, handleCancelOrderResp,
       noticeError, boundVars
<1>4. agentAccepts \/ agentFails
    BY Zenon DEF Step, SendLocked, SendFailed, BatchMark, AmendLocked, DeferSet, AmendLookup,
       AmendBegin, AmendCheck, AmendSet, AmendFailed, CbAmendGet, CbAmendDelete,
       CancelCheck, CancelSet, CancelUndo, CancelsFailed, RespLookup,
       handleSendOrderResp, handleAmendOrderResp, handleCancelOrderResp,
       boundVars, agentFails
<1>5. locked' \subseteq locked \union {t.o}
    BY Zenon DEF Step, SendLocked, SendFailed, BatchMark, AmendLocked, DeferSet, AmendLookup,
       AmendBegin, AmendCheck, AmendSet, AmendFailed, CbAmendGet, CbAmendDelete,
       CancelCheck, CancelSet, CancelUndo, CancelsFailed, RespLookup,
       handleSendOrderResp, handleAmendOrderResp, handleCancelOrderResp, Unlock
<1>6. acceptOrder' \in BOOLEAN
    BY <1>1, <1>3, Zenon DEF RunTypeOK
<1>7. locked' \subseteq Orders /\ requests' \in Nat
    BY <1>1, <1>2, <1>4, <1>5 DEF RunTypeOK, agentAccepts, agentFails
<1> QED BY <1>1, <1>3, <1>6, <1>7, Zenon DEF RunTypeOK, wsVars

(* Every step of a goroutine keeps the types. *)
LEMMA StepTyped ==
    ASSUME TypeOK, NEW t \in Elements(tasks), Step(t)
    PROVE  TypeOK'
BY StepTasksTyped, StepOrdersTyped, StepDefersTyped, StepRunTyped, Zenon DEF TypeOK

(* Starting the tasks of a set of orders. *)
LEMMA SpawnsTyped ==
    ASSUME NEW M, TasksOK(M), NEW B \in SUBSET Orders
    PROVE  /\ \A pc \in PlainSteps :
                 TasksOK(M (+) Each({Job(pc, o, NoDetail) : o \in B}))
           /\ \A op \in Ops \ {"none", "amend"} :
                 TasksOK(M (+) Each({Request(op, o, NoDetail) : o \in B}))
<1>1. ASSUME NEW pc \in PlainSteps
      PROVE  {Job(pc, o, NoDetail) : o \in B} \subseteq Task
    BY <1>1, JobTask, Zenon DEF PlainSteps
<1>2. ASSUME NEW op \in Ops \ {"none", "amend"}
      PROVE  {Request(op, o, NoDetail) : o \in B} \subseteq Task
    BY <1>2, RequestTask, Zenon
<1> QED BY <1>1, <1>2, EachTasksOK, SpawnTyped, Zenon

(* Client calls keep the types. *)
LEMMA ClientTyped ==
    ASSUME TypeOK, Client
    PROVE  TypeOK'
<1>1. TasksOK(tasks) /\ OrderTypeOK /\ DeferTypeOK /\ RunTypeOK
    BY Zenon DEF TypeOK
<1>2. ASSUME NEW o \in Orders, SendOrder(o) PROVE TypeOK'
    <2>1. TasksOK(One(Job("send", o, NoDetail)))
        BY StartedTyped, Zenon DEF Steps, PlainSteps, DetailSteps
    <2>2. TasksOK(tasks)'
        BY <1>1, <1>2, <2>1, SpawnTyped, Zenon DEF SendOrder, TasksOK
    <2>3. OrderTypeOK' /\ DeferTypeOK'
        BY <1>1, <1>2, OrderChangeTyped, DeferUnchanged, Zenon DEF SendOrder
    <2>4. RunTypeOK'
        BY <1>1, <1>2 DEF SendOrder, ClientCall, RunTypeOK, wsVars
    <2> QED BY <2>2, <2>3, <2>4, Zenon DEF TypeOK
<1>3. ASSUME NEW o \in Orders, CancelOrder(o) PROVE TypeOK'
    <2>1. Cancel("cancelCheck", o, "locked") \in Task /\ CancelCb(o) \in Task
        BY CancelTask, Zenon DEF CancelCb, Tags
    <2>2. TasksOK(One(Cancel("cancelCheck", o, "locked"))) /\ TasksOK(One(CancelCb(o)))
        BY <2>1, OneTasksOK, Zenon
    <2>3. TasksOK(tasks)'
        BY <1>1, <1>3, <2>2, SpawnTyped, Zenon DEF CancelOrder, deferVars, TasksOK
    <2>4. OrderTypeOK'
        BY <1>1, <1>3, OrderChangeTyped, Zenon DEF CancelOrder
    <2>5. /\ DOMAIN createCallbacks' = Orders /\ \A x \in Orders : TasksOK(createCallbacks'[x])
          /\ DOMAIN amendCallbacks' = Orders /\ \A x \in Orders : TasksOK(amendCallbacks'[x])
        BY <1>1, <1>3, <2>2, Zenon DEF CancelOrder, deferVars, DeferTypeOK
    <2>6. DeferTypeOK'
        BY <1>1, <1>3, <2>5, Zenon DEF CancelOrder, deferVars, DeferTypeOK, TasksOK
    <2>7. RunTypeOK'
        BY <1>1, <1>3 DEF CancelOrder, ClientCall, RunTypeOK, wsVars
    <2> QED BY <2>3, <2>4, <2>6, <2>7, Zenon DEF TypeOK
<1>4. ASSUME NEW o \in Orders, NEW d \in Details, AmendOrder(o, d) PROVE TypeOK'
    <2>1. TasksOK(One(Job("amend", o, d)))
        BY StartedTyped, Zenon DEF DetailSteps
    <2>2. TasksOK(tasks)'
        BY <1>1, <1>4, <2>1, SpawnTyped, Zenon DEF AmendOrder, TasksOK
    <2>3. OrderTypeOK' /\ DeferTypeOK'
        BY <1>1, <1>4, OrderChangeTyped, DeferUnchanged, Zenon DEF AmendOrder
    <2>4. RunTypeOK'
        BY <1>1, <1>4 DEF AmendOrder, ClientCall, RunTypeOK, wsVars
    <2> QED BY <2>2, <2>3, <2>4, Zenon DEF TypeOK
<1>5. ASSUME NEW B \in Batches, SendOrders(B) PROVE TypeOK'
    <2>1. B \in SUBSET Orders
        BY DealerAssumption, Zenon
    <2>2. TasksOK(tasks (+) Each({Job("batchSend", o, NoDetail) : o \in B}))
        BY <1>1, <2>1, SpawnsTyped, Zenon DEF Steps, PlainSteps, DetailSteps
    <2>3. TasksOK(tasks)'
        BY <1>5, <2>2, Zenon DEF SendOrders, TasksOK
    <2>4. OrderTypeOK' /\ DeferTypeOK'
        BY <1>1, <1>5, DeferUnchanged, Zenon DEF SendOrders, OrderTypeOK, orderVars, doneVars
    <2>5. RunTypeOK'
        BY <1>1, <1>5, <2>1 DEF SendOrders, ClientCall, RunTypeOK, wsVars
    <2> QED BY <2>3, <2>4, <2>5, Zenon DEF TypeOK
<1>6. ASSUME NEW B \in Batches, CancelOrders(B) PROVE TypeOK'
    <2> DEFINE targets == {o \in B : status[o] = "Pending"}
    <2>1. B \in SUBSET Orders /\ targets \in SUBSET Orders
        BY DealerAssumption, Zenon
    <2>2. /\ TasksOK(tasks (+) Each({Request("cancels", o, NoDetail) : o \in targets}))
          /\ TasksOK(tasks (+) Each({Job("cancelsFail", o, NoDetail) : o \in B}))
        <3> HIDE DEF targets
        <3> QED BY <1>1, <2>1, SpawnsTyped DEF Steps, PlainSteps, DetailSteps, Ops
    <2>3. TasksOK(tasks)'
        BY <1>1, <1>6, <2>2, Zenon DEF CancelOrders, TasksOK
    <2>4. OrderTypeOK'
        BY <1>1, <1>6, Zenon DEF CancelOrders, OrderTypeOK, Statuses, doneVars
    <2>5. \A o \in Orders : TasksOK(One(CancelCb(o)))
        BY CancelTask, OneTasksOK, Zenon DEF CancelCb, Tags
    <2>6. /\ DOMAIN createCallbacks' = Orders /\ \A x \in Orders : TasksOK(createCallbacks'[x])
          /\ DOMAIN amendCallbacks' = Orders /\ \A x \in Orders : TasksOK(amendCallbacks'[x])
        BY <1>1, <1>6, <2>5, Zenon DEF CancelOrders, DeferTypeOK
    <2>7. DeferTypeOK'
        BY <1>1, <1>6, <2>6, Zenon DEF CancelOrders, DeferTypeOK, TasksOK
    <2>8. RunTypeOK'
        BY <1>1, <1>6 DEF CancelOrders, ClientCall, agentAccepts, agentFails, RunTypeOK, wsVars
    <2> QED BY <2>3, <2>4, <2>7, <2>8 DEF TypeOK
<1>7. CASE ExportDoneOrders
    <2>1. TasksOK(tasks)' /\ DeferTypeOK'
        BY <1>1, <1>7, DeferUnchanged, Zenon DEF ExportDoneOrders, TasksOK
    <2>2. OrderTypeOK'
        BY <1>1, <1>7 DEF ExportDoneOrders, OrderTypeOK
    <2>3. RunTypeOK'
        BY <1>1, <1>7, Zenon DEF ExportDoneOrders, boundVars, RunTypeOK, wsVars
    <2> QED BY <2>1, <2>2, <2>3, Zenon DEF TypeOK
<1> QED BY <1>2, <1>3, <1>4, <1>5, <1>6, <1>7, Zenon DEF Client

(* The websocket reader has an order in hand, or none.                     *)
LEMMA ReadOrder ==
    ASSUME TypeOK, wsOrder # NoFrame
    PROVE  wsOrder.o \in Orders
BY DEF TypeOK, RunTypeOK, Frames, Ending

(* The exchange, the batch request, the websocket reader and the append to *)
(* doneOrders keep the types.                                              *)
LEMMA EnvironmentTyped ==
    ASSUME TypeOK, \/ Exchange \/ BatchRequest \/ OrderReader
                   \/ \E o \in Orders : AppendDone(o)
    PROVE  TypeOK'
<1>1. TasksOK(tasks) /\ OrderTypeOK /\ DeferTypeOK /\ RunTypeOK
    BY Zenon DEF TypeOK
<1>2. ASSUME NEW t \in Elements(tasks), ExchangeServes(t) PROVE TypeOK'
    <2>1. t \in Task
        BY <1>1, Zenon DEF TasksOK
    <2>2. ASSUME NEW tag \in Tags PROVE TasksOK(One(Answer(t, tag)))
        <3>1. t.pc = "req" /\ t.op # "none"
            BY <1>2, <2>1, TaskFields, Zenon DEF ExchangeServes
        <3>2. Answer(t, tag) \in Task
            BY <2>1, <3>1, Zenon DEF Answer, Task, Steps, DetailSteps
        <3> QED BY <3>2, OneTasksOK, Zenon
    <2>3. \E tag \in Tags : Becomes(t, One(Answer(t, tag)))
        BY <1>2, Zenon DEF ExchangeServes, Errors, Tags
    <2>4. TasksOK(tasks)'
        BY <1>1, <2>2, <2>3, BecomesTyped, Zenon
    <2>5. UNCHANGED <<acceptOrder, doneVars, deferVars, orderVars, locked, sendBatch,
                      wsVars, boundVars>>
        BY <1>2, Zenon DEF ExchangeServes
    <2>6. OrderTypeOK' /\ DeferTypeOK'
        BY <1>1, <2>5, DeferUnchanged, Zenon DEF OrderTypeOK, orderVars, doneVars
    <2>7. exch' \in [Orders -> {"None", "Open", "Filled", "Canceled"}]
        <3>1. exch \in [Orders -> {"None", "Open", "Filled", "Canceled"}] /\ t.o \in Orders
            BY <1>1, <2>1, TaskFields, Zenon DEF RunTypeOK
        <3>2. \/ UNCHANGED exch
              \/ \E x \in {"Open", "Canceled", exch[t.o]} : exch' = [exch EXCEPT ![t.o] = x]
            BY <1>2, Zenon DEF ExchangeServes
        <3> QED BY <3>1, <3>2, Zenon
    <2>8. RunTypeOK'
        BY <1>1, <2>5, <2>7, Zenon DEF RunTypeOK, wsVars, boundVars
    <2> QED BY <2>4, <2>6, <2>8, Zenon DEF TypeOK
<1>3. ASSUME NEW o \in Orders, NEW st \in {"Filled", "PartiallyFilled", "Canceled"},
             NEW after \in {"Open", "Filled", "Canceled"}, ExchangeReports(o, st, after)
      PROVE  TypeOK'
    <2>1. TasksOK(tasks)' /\ OrderTypeOK' /\ DeferTypeOK'
        BY <1>1, <1>3, DeferUnchanged, Zenon DEF ExchangeReports, TasksOK, OrderTypeOK, orderVars,
           doneVars
    <2>2. [o |-> o, st |-> st] \in Frames
        BY Zenon DEF Frames
    <2>3. ws' \in Seq(Frames)
        BY <1>1, <1>3, <2>2 DEF ExchangeReports, RunTypeOK
    <2>4. RunTypeOK'
        <3>1. missed' \subseteq Orders
            BY <1>1, <1>3, Zenon DEF ExchangeReports, RunTypeOK
        <3> QED BY <1>1, <1>3, <2>3, <3>1, Zenon DEF ExchangeReports, RunTypeOK, boundVars
    <2> QED BY <2>1, <2>4, Zenon DEF TypeOK
<1>4. CASE Exchange
    BY <1>2, <1>3, <1>4, Zenon
       DEF Exchange, ExchangeFills, ExchangePartiallyFills, ExchangeCancels
<1>5. CASE BatchRequest
    <2>1. sendBatch \in SUBSET Orders
        BY <1>1, Zenon DEF RunTypeOK
    <2>2. ASSUME NEW S PROVE TasksOK(Less(tasks, S))
        BY <1>1, LessFacts, Zenon DEF TasksOK, Elements
    <2>3. ASSUME NEW S
          PROVE  /\ TasksOK(Less(tasks, S) (+) Each({Request("creates", o, NoDetail) : o \in sendBatch}))
                 /\ TasksOK(Less(tasks, S) (+) Each({Job("sendFail", o, NoDetail) : o \in sendBatch}))
        BY <2>1, <2>2, SpawnsTyped, Zenon DEF Steps, PlainSteps, DetailSteps, Ops
    <2>4. TasksOK(tasks)'
        BY <1>5, <2>3, Zenon DEF BatchRequest, TasksOK
    <2>5. OrderTypeOK' /\ DeferTypeOK'
        BY <1>1, <1>5, DeferUnchanged, Zenon DEF BatchRequest, OrderTypeOK, orderVars, doneVars
    <2>6. RunTypeOK'
        BY <1>1, <1>5 DEF BatchRequest, agentAccepts, agentFails, RunTypeOK, wsVars
    <2> QED BY <2>4, <2>5, <2>6, Zenon DEF TypeOK
<1>6. CASE WsLookup
    <2>1. TasksOK(tasks)' /\ OrderTypeOK' /\ DeferTypeOK'
        BY <1>1, <1>6, DeferUnchanged, Zenon DEF WsLookup, TasksOK, OrderTypeOK, orderVars,
           doneVars
    <2>2. Head(ws) \in Frames /\ Tail(ws) \in Seq(Frames)
        BY <1>1, <1>6 DEF WsLookup, RunTypeOK
    <2>3. RunTypeOK'
        BY <1>1, <1>6, <2>2, Zenon DEF WsLookup, RunTypeOK, boundVars
    <2> QED BY <2>1, <2>3, Zenon DEF TypeOK
<1>7. CASE HandleOrderData
    <2>1. wsOrder.o \in Orders
        BY <1>7, ReadOrder, Zenon DEF HandleOrderData
    <2>2. \/ \E why \in Reasons : finish(wsOrder.o, why)
          \/ UNCHANGED orderVars
        BY <1>7, Zenon DEF HandleOrderData, acceptFilled, acceptPartiallyFilled, Reasons
    <2>3. OrderTypeOK' /\ DeferTypeOK'
        BY <1>1, <1>7, <2>1, <2>2, OrderChangeTyped, DeferUnchanged, Zenon DEF HandleOrderData
    <2>4. TasksOK(tasks)' /\ RunTypeOK'
        BY <1>1, <1>7, <2>1, Zenon DEF HandleOrderData, RunTypeOK, TasksOK, boundVars
    <2> QED BY <2>3, <2>4, Zenon DEF TypeOK
<1>8. ASSUME NEW o \in Orders, AppendDone(o) PROVE TypeOK'
    <2>1. OrderTypeOK'
        <3>1. doneOrders' \in [Orders -> Nat] /\ exported' \in [Orders -> Nat]
            BY <1>1, <1>8 DEF AppendDone, OrderTypeOK
        <3> QED BY <1>1, <1>8, <3>1, Zenon DEF AppendDone, OrderTypeOK
    <2>2. TasksOK(tasks)' /\ DeferTypeOK' /\ RunTypeOK'
        BY <1>1, <1>8, DeferUnchanged, Zenon DEF AppendDone, RunTypeOK, TasksOK, boundVars
    <2> QED BY <2>1, <2>2, Zenon DEF TypeOK
<1> QED BY <1>4, <1>5, <1>6, <1>7, <1>8, Zenon DEF OrderReader

(* A new dealer (NewDealer) is well typed.                                 *)
LEMMA TypeOKInitial == Init => TypeOK
<1> SUFFICES ASSUME Init PROVE TypeOK
    BY Zenon
<1>1. OrderTypeOK
    BY DealerAssumption, Zenon DEF Init, OrderTypeOK, Statuses, Reasons
<1>2. TasksOK(Nothing)
    BY EachTasksOK, Zenon
<1>3. DeferTypeOK
    BY <1>2, Zenon DEF Init, DeferTypeOK
<1>4. RunTypeOK
    BY DealerAssumption DEF Init, RunTypeOK
<1> QED BY <1>1, <1>2, <1>3, <1>4, Zenon DEF Init, TypeOK

(* Every step of the dealer, its clients and the exchange keeps the types. *)
LEMMA TypeOKStep == TypeOK /\ [Next]_vars => TypeOK'
<1> SUFFICES ASSUME TypeOK, [Next]_vars PROVE TypeOK'
    BY Zenon
<1>1. CASE UNCHANGED vars
    BY <1>1, Zenon DEF vars, TypeOK, OrderTypeOK, DeferTypeOK, RunTypeOK, TasksOK
<1> QED BY <1>1, ClientTyped, EnvironmentTyped, StepTyped, Zenon DEF Next, Dealing

(* The dealer's state, the deferred operations and every goroutine keep    *)
(* their types, for any number of orders, details, calls and requests.     *)
THEOREM TypeCorrect == Spec => []TypeOK
BY TypeOKInitial, TypeOKStep, PTL DEF Spec

-----------------------------------------------------------------------------
(* What a step leaves among the tasks, whatever its types. *)
LEMMA BecomesDomain ==
    ASSUME NEW t, NEW next, Becomes(t, next)
    PROVE  /\ DOMAIN next \subseteq DOMAIN tasks'
           /\ DOMAIN tasks \ {t} \subseteq DOMAIN tasks'
           /\ DOMAIN tasks' \subseteq DOMAIN tasks \union DOMAIN next
BY Zenon DEF Becomes, Less, (+)

(* The multiset of one task has that task.                                 *)
LEMMA OneDomain ==
    ASSUME NEW t
    PROVE  DOMAIN One(t) = {t} /\ DOMAIN Nothing = {}
BY Zenon DEF One, Each, Nothing

(* The tasks of a sum are those of its terms.                              *)
LEMMA SpawnDomain ==
    ASSUME NEW M, NEW N
    PROVE  DOMAIN (M (+) N) = DOMAIN M \union DOMAIN N
BY Zenon DEF (+)

(* Tasks that are started are there afterwards, and no other is lost.      *)
LEMMA Spawned ==
    ASSUME NEW M, NEW S, tasks' = M (+) Each(S)
    PROVE  DOMAIN M \subseteq DOMAIN tasks' /\ S \subseteq DOMAIN tasks'
BY Zenon DEF (+), Each
-----------------------------------------------------------------------------
(* An Amending order has an amendingDetail. *)

(* No step leaves an Amending order without its detail: amendOrder sets    *)
(* both under the lock, and whatever resets the detail also leaves         *)
(* Amending.                                                               *)
LEMMA AmendingHasDetailStep ==
    ASSUME TypeOK, AmendingHasDetail, [Next]_vars
    PROVE  AmendingHasDetail'
<1>1. /\ status \in [Orders -> Statuses] /\ amendingDetail \in [Orders -> Details \union {NoDetail}]
      /\ \A t \in Elements(tasks) : t \in Task
    BY Zenon DEF TypeOK, OrderTypeOK, TasksOK
<1>2. ASSUME NEW o \in Orders, NEW s \in Statuses \ {"Amending"},
             status' = [status EXCEPT ![o] = s],
             UNCHANGED amendingDetail \/ amendingDetail' = [amendingDetail EXCEPT ![o] = NoDetail]
      PROVE  AmendingHasDetail'
    BY <1>1, <1>2, Zenon DEF AmendingHasDetail
<1>3. ASSUME UNCHANGED <<status, amendingDetail>>
      PROVE  AmendingHasDetail'
    BY <1>3, Zenon DEF AmendingHasDetail
<1>4. ASSUME NEW o \in Orders,
             \/ \E why \in Reasons : finish(o, why)
             \/ acceptCreate(o) \/ rejectAmend(o) \/ rejectCancel(o) \/ markSending(o)
             \/ \E d \in Details : acceptAmend(o, d)
             \/ UNCHANGED orderVars
      PROVE  AmendingHasDetail'
    BY <1>2, <1>3, <1>4, Zenon DEF finish, acceptCreate, rejectAmend, rejectCancel, markSending,
                            acceptAmend, orderVars, Statuses
<1>5. ASSUME NEW t \in Elements(tasks), Step(t) PROVE AmendingHasDetail'
    <2>1. /\ t.o \in Orders
          /\ t.pc \in DetailSteps \/ t.op = "amend" => t.d \in Details
        BY <1>1, TaskFields, Zenon
    <2>2. CASE AmendSet(t)
        <3>1. t.d \in Details
            BY <2>1, <2>2, Zenon DEF AmendSet, DetailSteps
        <3> QED BY <1>1, <2>1, <2>2, <3>1, DealerAssumption, Zenon DEF AmendSet, AmendingHasDetail
    <2>3. CASE CancelSet(t)
        BY <1>2, <2>1, <2>3, Zenon DEF CancelSet, Statuses
    <2>4. CASE SendLocked(t) \/ BatchMark(t)
        BY <1>4, <2>1, <2>4, Zenon DEF SendLocked, BatchMark
    <2>5. CASE SendFailed(t) \/ AmendFailed(t) \/ CancelUndo(t) \/ CancelsFailed(t)
        BY <1>4, <2>1, <2>5, Zenon DEF SendFailed, AmendFailed, CancelUndo, CancelsFailed,
                                rejectCreate, Reasons
    <2>6. CASE \/ AmendLocked(t) \/ DeferSet(t) \/ AmendLookup(t) \/ AmendBegin(t)
               \/ AmendCheck(t) \/ CbAmendGet(t) \/ CbAmendDelete(t) \/ CancelCheck(t)
               \/ RespLookup(t)
        <3>1. UNCHANGED orderVars
            BY <2>6, Zenon DEF AmendLocked, DeferSet, AmendLookup, AmendBegin, AmendCheck,
                        CbAmendGet, CbAmendDelete, CancelCheck, RespLookup
        <3> QED BY <1>3, <3>1, Zenon DEF orderVars
    <2>7. CASE handleSendOrderResp(t)
        BY <1>4, <2>1, <2>7, Zenon DEF handleSendOrderResp, rejectCreate, Reasons
    <2>8. CASE handleAmendOrderResp(t)
        BY <1>4, <2>1, <2>8, Zenon DEF handleAmendOrderResp, abandonOrder, Reasons
    <2>9. CASE handleCancelOrderResp(t)
        BY <1>4, <2>1, <2>9, Zenon DEF handleCancelOrderResp, abandonOrder, acceptCancel, Reasons
    <2> QED BY <1>5, <2>2, <2>3, <2>4, <2>5, <2>6, <2>7, <2>8, <2>9, Zenon DEF Step
<1>6. CASE Client
    <2>1. ASSUME NEW B \in Batches, CancelOrders(B) PROVE AmendingHasDetail'
        BY <1>1, <2>1, Zenon DEF CancelOrders, AmendingHasDetail
    <2>2. ASSUME ~ \E B \in Batches : CancelOrders(B)
          PROVE  UNCHANGED <<status, amendingDetail>>
        BY <1>6, <2>2, Zenon DEF Client, SendOrder, CancelOrder, AmendOrder, SendOrders,
                          ExportDoneOrders, orderVars
    <2> QED BY <1>3, <2>1, <2>2, Zenon
<1>7. CASE Exchange \/ BatchRequest
    <2>1. UNCHANGED orderVars
        BY <1>7, Zenon DEF Exchange, BatchRequest, ExchangeServes, ExchangeFills,
                    ExchangePartiallyFills, ExchangeCancels, ExchangeReports
    <2> QED BY <1>3, <2>1, Zenon DEF orderVars
<1>8. CASE WsLookup
    BY <1>3, <1>8, Zenon DEF WsLookup, orderVars
<1>9. CASE HandleOrderData
    <2>1. wsOrder.o \in Orders
        BY <1>9, ReadOrder, Zenon DEF HandleOrderData
    <2> QED BY <1>4, <1>9, <2>1, Zenon DEF HandleOrderData, acceptFilled, acceptPartiallyFilled, Reasons
<1>10. CASE UNCHANGED vars \/ \E o \in Orders : AppendDone(o)
    BY <1>3, <1>10, Zenon DEF vars, AppendDone
<1> QED BY <1>5, <1>6, <1>7, <1>8, <1>9, <1>10, Zenon DEF Next, Dealing, OrderReader
-----------------------------------------------------------------------------
(* No operation of a living order is left unanswered. *)

(* An order whose status does not change stays answered while the tasks    *)
(* that answer stay.                                                       *)
LEMMA AnswerKept ==
    ASSUME NEW o, Answered(o), status'[o] = status[o],
           \A u \in DOMAIN tasks : u.o = o /\ Answers(u, status[o]) => u \in DOMAIN tasks'
    PROVE  Answered(o)'
BY Zenon DEF Answered, Elements

(* An order that waits for nothing needs no answer.                        *)
LEMMA NoAnswerNeeded ==
    ASSUME NEW o, status'[o] \in {"Born", "Pending", "Done"}
    PROVE  Answered(o)'
BY Zenon DEF Answered

(* An order for which a task is under way that ends its operation is       *)
(* answered.                                                               *)
LEMMA AnsweredBy ==
    ASSUME NEW u \in DOMAIN tasks', NEW o, u.o = o, Answers(u, status'[o])
    PROVE  Answered(o)'
BY Zenon DEF Answered, Elements

(* A task that goes on as another one is that other one afterwards.        *)
LEMMA BecomesOne ==
    ASSUME NEW t, NEW u, Becomes(t, One(u))
    PROVE  u \in DOMAIN tasks'
BY Zenon DEF Becomes, One, Each, (+)

(* Every step of a goroutine goes on as, or ends with, what it starts. *)
LEMMA StepBecomes ==
    ASSUME NEW t, Step(t)
    PROVE  DOMAIN tasks \ {t} \subseteq DOMAIN tasks'
<1>1. \E next : Becomes(t, next)
    BY Zenon DEF Step, SendLocked, SendFailed, BatchMark, AmendLocked, DeferSet, AmendLookup,
           AmendBegin, AmendCheck, AmendSet, AmendFailed, CbAmendGet, CbAmendDelete,
           CancelCheck, CancelSet, CancelUndo, CancelsFailed, RespLookup,
           handleSendOrderResp, handleAmendOrderResp, handleCancelOrderResp, Ends
<1> QED BY <1>1, BecomesDomain, Zenon

(* A step of a goroutine of one order leaves the others answered.          *)
LEMMA StepKeepsOthers ==
    ASSUME NEW t, Step(t), NEW o, o # t.o, Answered(o), status'[o] = status[o]
    PROVE  Answered(o)'
BY StepBecomes, AnswerKept, Zenon

(* No step of a goroutine (dealer.go, dealing_handlers.go) leaves a living *)
(* order without an answer.                                                *)
LEMMA AnsweredStep ==
    ASSUME TypeOK, OperationIsAnswered, NEW t \in Elements(tasks), Step(t)
    PROVE  OperationIsAnswered'
<1>1. t \in Task /\ t.o \in Orders /\ status \in [Orders -> Statuses] /\ living \subseteq Orders
    BY TaskFields, Zenon DEF TypeOK, OrderTypeOK, TasksOK
<1>2. \A o \in living : Answered(o)
    BY Zenon DEF OperationIsAnswered
<1>3. ASSUME NEW s \in Statuses, status' = [status EXCEPT ![t.o] = s],
             living' \subseteq living \union {t.o}, Answered(t.o)'
      PROVE  OperationIsAnswered'
    <2>1. ASSUME NEW o \in living, o # t.o PROVE Answered(o)'
        BY <1>1, <1>2, <1>3, <2>1, StepKeepsOthers, Zenon
    <2> QED BY <1>3, <2>1, Zenon DEF OperationIsAnswered
<1>4. ASSUME NEW s \in {"Pending", "Done"}, status' = [status EXCEPT ![t.o] = s], living' \subseteq living
      PROVE  OperationIsAnswered'
    <2>1. status'[t.o] = s /\ s \in Statuses
        BY <1>1, <1>4, Zenon DEF Statuses
    <2>2. Answered(t.o)'
        BY <2>1, NoAnswerNeeded
    <2> QED BY <1>3, <1>4, <2>1, <2>2, Zenon
<1>5. ASSUME UNCHANGED orderVars, ~Answers(t, status[t.o])
      PROVE  OperationIsAnswered'
    <2>1. DOMAIN tasks \ {t} \subseteq DOMAIN tasks'
        BY StepBecomes, Zenon
    <2>2. ASSUME NEW o \in living PROVE Answered(o)'
        BY <1>2, <1>5, <2>1, AnswerKept, Zenon DEF orderVars
    <2> QED BY <1>5, <2>2, Zenon DEF OperationIsAnswered, orderVars
<1>6. CASE SendLocked(t)
    <2>1. \/ Request("create", t.o, NoDetail) \in DOMAIN tasks'
          \/ Job("sendFail", t.o, NoDetail) \in DOMAIN tasks'
        BY <1>6, BecomesOne, Zenon DEF SendLocked
    <2>2. status'[t.o] = "Sending"
        BY <1>1, <1>6, Zenon DEF SendLocked, markSending
    <2>3. Answered(t.o)'
        BY <2>1, <2>2, AnsweredBy, Zenon DEF Answers, Awaited, Request, Job
    <2> QED BY <1>3, <1>6, <2>3, Zenon DEF SendLocked, markSending, Statuses
<1>7. CASE BatchMark(t)
    <2>1. Job("batchMarked", t.o, NoDetail) \in DOMAIN tasks'
        BY <1>7, BecomesOne, Zenon DEF BatchMark
    <2>2. status'[t.o] = "Sending"
        BY <1>1, <1>7, Zenon DEF BatchMark, markSending
    <2>3. Answered(t.o)'
        BY <2>1, <2>2, AnsweredBy, Zenon DEF Answers, Awaited, Job
    <2> QED BY <1>3, <1>7, <2>3, Zenon DEF BatchMark, markSending, Statuses
<1>8. CASE AmendSet(t)
    <2>1. \/ Request("amend", t.o, t.d) \in DOMAIN tasks'
          \/ Job("amendFail", t.o, NoDetail) \in DOMAIN tasks'
        BY <1>8, BecomesOne, Zenon DEF AmendSet
    <2>2. status'[t.o] = "Amending"
        BY <1>1, <1>8, Zenon DEF AmendSet
    <2>3. Answered(t.o)'
        BY <2>1, <2>2, AnsweredBy, Zenon DEF Answers, Awaited, Request, Job
    <2> QED BY <1>3, <1>8, <2>3, Zenon DEF AmendSet, Statuses
<1>9. CASE CancelSet(t)
    <2>1. \/ Request("cancel", t.o, NoDetail) \in DOMAIN tasks'
          \/ Cancel("cancelUndo", t.o, t.tag) \in DOMAIN tasks'
        BY <1>9, BecomesOne, Zenon DEF CancelSet
    <2>2. status'[t.o] = "Canceling"
        BY <1>1, <1>9, Zenon DEF CancelSet
    <2>3. Answered(t.o)'
        BY <2>1, <2>2, AnsweredBy, Zenon DEF Answers, Awaited, Request, Cancel
    <2> QED BY <1>3, <1>9, <2>3, Zenon DEF CancelSet, Statuses
<1>10. CASE SendFailed(t) \/ AmendFailed(t) \/ CancelUndo(t) \/ CancelsFailed(t)
    BY <1>4, <1>10, Zenon DEF SendFailed, AmendFailed, CancelUndo, CancelsFailed,
                       rejectCreate, finish, rejectAmend, rejectCancel
<1>11. CASE \/ AmendLocked(t) \/ DeferSet(t) \/ AmendLookup(t) \/ AmendBegin(t)
            \/ AmendCheck(t) \/ CbAmendGet(t) \/ CbAmendDelete(t) \/ CancelCheck(t)
    BY <1>5, <1>11, Zenon DEF AmendLocked, DeferSet, AmendLookup, AmendBegin, AmendCheck,
                       CbAmendGet, CbAmendDelete, CancelCheck, Answers
<1>12. CASE RespLookup(t)
    <2>1. CASE t.o \in living /\ status[t.o] = Awaited(t.op)
        <3>1. PICK u \in {Single(t), [t EXCEPT !.pc = "handle"]} :
                 /\ u \in DOMAIN tasks'
                 /\ u = Single(t) => t.op \in {"creates", "cancels"}
            <4>1. \/ Becomes(t, One(Single(t))) /\ t.op \in {"creates", "cancels"}
                  \/ Becomes(t, One([t EXCEPT !.pc = "handle"]))
                BY <1>12, <2>1, Zenon DEF RespLookup
            <4>2. CASE Becomes(t, One(Single(t))) /\ t.op \in {"creates", "cancels"}
                BY <4>2, BecomesOne, Zenon
            <4>3. CASE Becomes(t, One([t EXCEPT !.pc = "handle"]))
                <5>1. [t EXCEPT !.pc = "handle"] # Single(t)
                    BY <1>1, <1>12, Zenon DEF Single, RespLookup, Task
                <5>2. [t EXCEPT !.pc = "handle"] \in DOMAIN tasks'
                    BY <4>3, BecomesOne, Zenon
                <5> QED BY <5>1, <5>2, Zenon
            <4> QED BY <4>1, <4>2, <4>3, Zenon
        <3>2. u.o = t.o /\ u.pc \in {"resp", "handle"} /\ Awaited(u.op) = Awaited(t.op)
            <4>1. t.pc = "resp" /\ u \in {[t EXCEPT !.op = "create"], [t EXCEPT !.op = "cancel"],
                                         [t EXCEPT !.pc = "handle"]}
                BY <1>12, <3>1, Zenon DEF RespLookup, Single
            <4>2. u.o = t.o /\ u.pc \in {"resp", "handle"}
                BY <1>1, <4>1, Zenon DEF Task
            <4>3. CASE u = Single(t)
                <5>1. \/ t.op = "creates" /\ u = [t EXCEPT !.op = "create"]
                      \/ t.op = "cancels" /\ u = [t EXCEPT !.op = "cancel"]
                    BY <3>1, <4>3, Zenon DEF Single
                <5> QED BY <1>1, <4>2, <5>1, Zenon DEF Awaited, Task
            <4>4. CASE u = [t EXCEPT !.pc = "handle"]
                BY <1>1, <4>2, <4>4, Zenon DEF Task
            <4> QED BY <3>1, <4>3, <4>4, Zenon
        <3>3. UNCHANGED orderVars
            BY <1>12, Zenon DEF RespLookup
        <3>4. Answered(t.o)'
            BY <2>1, <3>1, <3>2, <3>3, AnsweredBy, Zenon DEF Answers, orderVars
        <3>5. ASSUME NEW o \in living, o # t.o PROVE Answered(o)'
            BY <1>2, <3>3, <3>5, StepKeepsOthers, Zenon DEF orderVars
        <3> QED BY <3>3, <3>4, <3>5, Zenon DEF OperationIsAnswered, orderVars
    <2>2. CASE t.o \notin living
        <3>1. UNCHANGED orderVars
            BY <1>12, Zenon DEF RespLookup
        <3>2. ASSUME NEW o \in living PROVE Answered(o)'
            BY <1>2, <2>2, <3>1, StepKeepsOthers, Zenon DEF orderVars
        <3> QED BY <3>1, <3>2, Zenon DEF OperationIsAnswered, orderVars
    <2>3. CASE status[t.o] # Awaited(t.op)
        BY <1>5, <1>12, <2>3, Zenon DEF RespLookup, Answers
    <2> QED BY <2>1, <2>2, <2>3, Zenon
<1>13. CASE handleSendOrderResp(t)
    <2>1. CASE rejectCreate(t.o) \/ acceptCreate(t.o)
        BY <1>4, <2>1, Zenon DEF rejectCreate, acceptCreate, finish
    <2>2. CASE UNCHANGED orderVars /\ status[t.o] # "Sending"
        BY <1>5, <1>13, <2>2, Zenon DEF handleSendOrderResp, Answers, Awaited
    <2>3. CASE UNCHANGED orderVars /\ status[t.o] = "Sending" /\ OrderType[t.o] = "Market"
        <3>1. Answered(t.o)'
            BY <2>3, Zenon DEF Answered, orderVars
        <3>2. ASSUME NEW o \in living, o # t.o PROVE Answered(o)'
            BY <1>2, <2>3, <3>2, StepKeepsOthers, Zenon DEF orderVars
        <3> QED BY <2>3, <3>1, <3>2, Zenon DEF OperationIsAnswered, orderVars
    <2> QED BY <1>13, <2>1, <2>2, <2>3, Zenon DEF handleSendOrderResp
<1>14. CASE handleAmendOrderResp(t)
    BY <1>4, <1>14, Zenon DEF handleAmendOrderResp, abandonOrder, finish, rejectAmend, acceptAmend
<1>15. CASE handleCancelOrderResp(t)
    BY <1>4, <1>15, Zenon DEF handleCancelOrderResp, abandonOrder, acceptCancel, finish, rejectCancel
<1> QED BY <1>6, <1>7, <1>8, <1>9, <1>10, <1>11, <1>12, <1>13, <1>14, <1>15, Zenon DEF Step

(* No step of the client, the exchange, the batch or the websocket reader  *)
(* does either.                                                            *)
LEMMA AnsweredNext ==
    ASSUME TypeOK, OperationIsAnswered, [Next]_vars
    PROVE  OperationIsAnswered'
<1>1. /\ status \in [Orders -> Statuses] /\ living \subseteq Orders /\ sendBatch \subseteq Orders
      /\ \A t \in DOMAIN tasks : t \in Task
    BY Zenon DEF TypeOK, OrderTypeOK, RunTypeOK, TasksOK, Elements
<1>2. \A o \in living : Answered(o)
    BY Zenon DEF OperationIsAnswered
<1>3. ASSUME UNCHANGED status, living' \subseteq living, DOMAIN tasks \subseteq DOMAIN tasks'
      PROVE  OperationIsAnswered'
    BY <1>2, <1>3, AnswerKept, Zenon DEF OperationIsAnswered
<1>4. CASE Client
    <2>1. ASSUME NEW o \in Orders, SendOrder(o) \/ CancelOrder(o) PROVE OperationIsAnswered'
        <3>1. UNCHANGED orderVars /\ (UNCHANGED tasks \/ \E t : tasks' = tasks (+) One(t))
            BY <2>1, Zenon DEF SendOrder, CancelOrder
        <3>2. DOMAIN tasks \subseteq DOMAIN tasks'
            BY <3>1, Spawned, Zenon DEF One
        <3> QED BY <1>3, <3>1, <3>2, Zenon DEF orderVars
    <2>2. ASSUME NEW o \in Orders, NEW d \in Details, AmendOrder(o, d) PROVE OperationIsAnswered'
        BY <1>3, <2>2, SpawnDomain, Zenon DEF AmendOrder, orderVars
    <2>3. ASSUME NEW B \in Batches, SendOrders(B) PROVE OperationIsAnswered'
        BY <1>3, <2>3, SpawnDomain, Zenon DEF SendOrders, orderVars
    <2>4. ASSUME NEW B \in Batches, CancelOrders(B) PROVE OperationIsAnswered'
        <3> DEFINE targets == {o \in B : status[o] = "Pending"}
                   request(o) == Request("cancels", o, NoDetail)
                   fail(o) == Job("cancelsFail", o, NoDetail)
        <3>1. DOMAIN tasks \subseteq DOMAIN tasks' /\ UNCHANGED living
            <4>1. UNCHANGED living /\ (UNCHANGED tasks \/ \E S : tasks' = tasks (+) Each(S))
                BY <2>4, Zenon DEF CancelOrders
            <4> QED BY <4>1, Spawned, Zenon
        <3>2. ASSUME NEW o \in targets PROVE request(o) \in DOMAIN tasks' \/ fail(o) \in DOMAIN tasks'
            <4>1. \/ tasks' = tasks (+) Each({request(b) : b \in targets})
                  \/ tasks' = tasks (+) Each({fail(b) : b \in B})
                BY <2>4, <3>2, Zenon DEF CancelOrders
            <4> HIDE DEF request, fail
            <4>2. CASE tasks' = tasks (+) Each({request(b) : b \in targets})
                BY <3>2, <4>2, Spawned, Zenon
            <4>3. CASE tasks' = tasks (+) Each({fail(b) : b \in B})
                BY <3>2, <4>3, Spawned, Zenon
            <4> QED BY <4>1, <4>2, <4>3, Zenon
        <3>3. status' = [o \in Orders |-> IF o \in targets THEN "Canceling" ELSE status[o]]
            BY <2>4, Zenon DEF CancelOrders
        <3>4. ASSUME NEW o \in living, o \in targets PROVE Answered(o)'
            <4>1. status'[o] = "Canceling"
                BY <1>1, <3>3, <3>4, Zenon
            <4> QED BY <3>2, <3>4, <4>1, AnsweredBy, Zenon DEF Answers, Awaited, Request, Job
        <3>5. ASSUME NEW o \in living, o \notin targets PROVE Answered(o)'
            <4>1. status'[o] = status[o]
                BY <1>1, <3>3, <3>5, Zenon
            <4> QED BY <1>2, <3>1, <4>1, AnswerKept, Zenon
        <3> QED BY <3>1, <3>4, <3>5, Zenon DEF OperationIsAnswered
    <2>5. CASE ExportDoneOrders
        BY <1>3, <2>5, Zenon DEF ExportDoneOrders
    <2> QED BY <1>4, <2>1, <2>2, <2>3, <2>4, <2>5, Zenon DEF Client
<1>5. ASSUME NEW t \in Elements(tasks), ExchangeServes(t) PROVE OperationIsAnswered'
    <2>1. PICK tag : Becomes(t, One(Answer(t, tag)))
        BY <1>5, Zenon DEF ExchangeServes
    <2>2. DOMAIN tasks \ {t} \subseteq DOMAIN tasks' /\ Answer(t, tag) \in DOMAIN tasks'
        BY <2>1, BecomesDomain, BecomesOne, Zenon
    <2>3. t.pc = "req" /\ UNCHANGED <<status, living>>
        BY <1>5, Zenon DEF ExchangeServes, orderVars
    <2>4. /\ Answer(t, tag).o = t.o
          /\ \A st : Answers(t, st) => Answers(Answer(t, tag), st)
        BY <1>1, <2>3, Zenon DEF Answers, Answer, Task, Elements
    <2>5. ASSUME NEW o \in living PROVE Answered(o)'
        <3>1. CASE o = t.o /\ Answers(t, status[o])
            BY <2>2, <2>3, <2>4, <3>1, AnsweredBy, Zenon
        <3>2. CASE ~(o = t.o /\ Answers(t, status[o]))
            BY <1>2, <2>2, <2>3, <3>2, AnswerKept, Zenon
        <3> QED BY <3>1, <3>2, Zenon
    <2> QED BY <2>3, <2>5, Zenon DEF OperationIsAnswered
<1>6. CASE Exchange
    <2>1. ASSUME NEW o \in Orders, NEW st, NEW after, ExchangeReports(o, st, after)
          PROVE  OperationIsAnswered'
        BY <1>3, <2>1, Zenon DEF ExchangeReports, orderVars
    <2> QED BY <1>5, <1>6, <2>1, Zenon
            DEF Exchange, ExchangeFills, ExchangePartiallyFills, ExchangeCancels
<1>7. CASE BatchRequest
    <2> DEFINE marked == {Job("batchMarked", o, NoDetail) : o \in sendBatch}
    <2>1. \/ tasks' = Less(tasks, marked) (+) Each({Request("creates", o, NoDetail) : o \in sendBatch})
          \/ tasks' = Less(tasks, marked) (+) Each({Job("sendFail", o, NoDetail) : o \in sendBatch})
        BY <1>7, Zenon DEF BatchRequest
    <2>2. UNCHANGED <<status, living>>
        BY <1>7, Zenon DEF BatchRequest, orderVars
    <2>3. DOMAIN tasks \ marked \subseteq DOMAIN tasks'
        BY <2>1, SpawnDomain, ZenonT(60) DEF Less
    <2>4. ASSUME NEW o \in sendBatch
          PROVE  \/ Request("creates", o, NoDetail) \in DOMAIN tasks'
                 \/ Job("sendFail", o, NoDetail) \in DOMAIN tasks'
        <3> DEFINE creates(b) == Request("creates", b, NoDetail)
                   fail(b) == Job("sendFail", b, NoDetail)
                   rest == Less(tasks, marked)
        <3>1. \/ tasks' = rest (+) Each({creates(b) : b \in sendBatch})
              \/ tasks' = rest (+) Each({fail(b) : b \in sendBatch})
            BY <2>1, Zenon
        <3> HIDE DEF creates, fail, rest
        <3>2. creates(o) \in DOMAIN tasks' \/ fail(o) \in DOMAIN tasks'
            BY <2>4, <3>1, Spawned, Zenon
        <3> QED BY <3>2, Zenon DEF creates, fail
    <2>5. ASSUME NEW o \in living PROVE Answered(o)'
        <3>1. CASE o \in sendBatch /\ status[o] = "Sending"
            BY <2>2, <2>4, <3>1, AnsweredBy, Zenon DEF Answers, Awaited, Request, Job
        <3>2. CASE ~(o \in sendBatch /\ status[o] = "Sending")
            <4>1. \A u \in marked : u.o = o => ~Answers(u, status[o])
                BY <3>2 DEF Job, Answers
            <4> QED BY <1>2, <2>2, <2>3, <4>1, AnswerKept, Zenon
        <3> QED BY <3>1, <3>2, Zenon
    <2> QED BY <2>2, <2>5, Zenon DEF OperationIsAnswered
<1>8. CASE WsLookup
    BY <1>3, <1>8, Zenon DEF WsLookup, orderVars
<1>9. CASE HandleOrderData
    <2>1. wsOrder.o \in Orders /\ UNCHANGED tasks
        BY <1>9, ReadOrder, Zenon DEF HandleOrderData
    <2>2. \/ UNCHANGED orderVars
          \/ /\ status' = [status EXCEPT ![wsOrder.o] = "Done"]
             /\ living' \subseteq living
        BY <1>9, Zenon DEF HandleOrderData, acceptFilled, acceptPartiallyFilled, finish
    <2>3. CASE UNCHANGED orderVars
        BY <1>3, <2>1, <2>3, Zenon DEF orderVars
    <2>4. CASE status' = [status EXCEPT ![wsOrder.o] = "Done"] /\ living' \subseteq living
        <3>1. ASSUME NEW o \in living PROVE Answered(o)'
            <4>1. status'[o] = status[o] \/ status'[o] = "Done"
                BY <1>1, <2>4, Zenon
            <4> QED BY <1>2, <2>1, <4>1, AnswerKept, NoAnswerNeeded
        <3> QED BY <2>4, <3>1, Zenon DEF OperationIsAnswered
    <2> QED BY <2>2, <2>3, <2>4, Zenon
<1>10. CASE UNCHANGED vars \/ \E o \in Orders : AppendDone(o)
    BY <1>3, <1>10, Zenon DEF vars, AppendDone
<1> QED BY <1>4, <1>6, <1>7, <1>8, <1>9, <1>10, AnsweredStep, Zenon DEF Next, Dealing, OrderReader

(* An Amending order always has its amendingDetail, whatever the           *)
(* interleaving of deferred amends, callbacks and answers: acceptAmend     *)
(* never applies a missing detail (dealing_handlers.go:273-280).           *)
THEOREM AmendingDetail == Spec => []AmendingHasDetail
<1>1. Init => TypeOK /\ AmendingHasDetail
    BY TypeOKInitial, Zenon DEF Init, AmendingHasDetail
<1>2. TypeOK /\ AmendingHasDetail /\ [Next]_vars => (TypeOK /\ AmendingHasDetail)'
    BY TypeOKStep, AmendingHasDetailStep, Zenon
<1> QED BY <1>1, <1>2, PTL DEF Spec

(* No living order is stuck in the middle of an operation: a Sending,      *)
(* Amending or Canceling order always has a goroutine, a request or an     *)
(* answer under way that ends that operation (dealer.go and                *)
(* dealing_handlers.go).                                                   *)
THEOREM OperationsAnswered == Spec => []OperationIsAnswered
<1>1. Init => TypeOK /\ OperationIsAnswered
    BY TypeOKInitial, Zenon DEF Init, OperationIsAnswered
<1>2. TypeOK /\ OperationIsAnswered /\ [Next]_vars => (TypeOK /\ OperationIsAnswered)'
    BY TypeOKStep, AnsweredNext
<1> QED BY <1>1, <1>2, PTL DEF Spec

-----------------------------------------------------------------------------
(* Every order that was sent is accounted for, and no fill is missed. *)

(* The steps before an order's status leaves Born. *)
SendSteps == {"send", "batchSend"}

(* An order that was not sent is unknown to the dealer and the exchange.   *)
BornIsUnknown ==
    \A o \in Orders : status[o] = "Born" =>
        /\ o \notin living /\ appending[o] = "no"
        /\ doneOrders[o] = 0 /\ exported[o] = 0 /\ exch[o] = "None"

(* The goroutines of an order that was not sent.                           *)
BornTasks ==
    \A t \in DOMAIN tasks : status[t.o] = "Born" => t.pc \in SendSteps \union {"amend"}

(* An order is sent once: its send is under way only while it is Born, and *)
(* alone.                                                                  *)
SentOnce ==
    /\ \A t \in DOMAIN tasks : t.pc \in SendSteps => status[t.o] = "Born" /\ tasks[t] = 1
    /\ \A t, u \in DOMAIN tasks : t.pc \in SendSteps /\ u.pc \in SendSteps /\ t.o = u.o => t = u

(* A callback is about the order it is registered with.                    *)
Own(o, cbs) == \A cb \in DOMAIN cbs : cb.o = o /\ cb.pc \in {"cbAmend", "cancelCheck"}
CallbacksAreOwn == \A o \in Orders : Own(o, createCallbacks[o]) /\ Own(o, amendCallbacks[o])

(* The websocket reader has looked up an order that was sent.              *)
ReadIsSent == wsOrder # NoFrame => status[wsOrder.o] # "Born"

(* An order that was sent is in LivingOrders, done or about to be done.    *)
Accounted == \A o \in Orders : status[o] # "Born" => IsAccounted(o)

AccountInv ==
    /\ TypeOK
    /\ BornIsUnknown /\ BornTasks /\ SentOnce /\ CallbacksAreOwn /\ ReadIsSent
    /\ Accounted /\ FillIsNeverMissed
-----------------------------------------------------------------------------
(* A goroutine goes on as goroutines of the same order, none of which      *)
(* sends it.                                                               *)
Follows(t, next) == \A u \in DOMAIN next : u.o = t.o /\ u.pc \notin SendSteps

(* One task that follows another.                                          *)
LEMMA OneFollows ==
    ASSUME NEW t, NEW u, u.o = t.o, u.pc \notin SendSteps
    PROVE  Follows(t, One(u)) /\ Follows(t, Nothing)
BY OneDomain, ZenonT(60) DEF Follows

(* What a step of a goroutine leaves in its place.                         *)
LEMMA StepFollows ==
    ASSUME TypeOK, CallbacksAreOwn, NEW t \in Elements(tasks), Step(t)
    PROVE  \E next : Becomes(t, next) /\ Follows(t, next)
<1>1. t \in Task /\ t.o \in Orders
    BY TaskFields, Zenon DEF TypeOK, TasksOK
<1>2. Follows(t, Nothing)
    BY OneDomain, Zenon DEF Follows
<1>3. CASE Ends(t)
    BY <1>2, <1>3, Zenon DEF Ends
<1>4. ASSUME NEW u, Becomes(t, One(u)), u.o = t.o, u.pc \notin SendSteps
      PROVE  \E next : Becomes(t, next) /\ Follows(t, next)
    BY <1>4, OneFollows, Zenon
<1>5. CASE SendLocked(t) \/ BatchMark(t)
    BY <1>4, <1>5, Zenon DEF SendLocked, BatchMark, Request, Job, SendSteps
<1>6. CASE \/ SendFailed(t) \/ DeferSet(t) \/ AmendFailed(t) \/ CancelUndo(t)
           \/ CancelsFailed(t) \/ handleCancelOrderResp(t)
    BY <1>3, <1>6, Zenon DEF SendFailed, DeferSet, AmendFailed, CancelUndo, CancelsFailed,
                      handleCancelOrderResp
<1>7. CASE AmendLocked(t)
    BY <1>3, <1>4, <1>7, Zenon DEF AmendLocked, Job, SendSteps
<1>8. CASE AmendLookup(t) \/ AmendBegin(t) \/ AmendCheck(t) \/ AmendSet(t)
    BY <1>3, <1>4, <1>8, Zenon DEF AmendLookup, AmendBegin, AmendCheck, AmendSet, Job, Request, SendSteps
<1>9. CASE CbAmendGet(t) \/ CbAmendDelete(t)
    BY <1>4, <1>9, Zenon DEF CbAmendGet, CbAmendDelete, Job, SendSteps
<1>10. CASE CancelCheck(t) \/ CancelSet(t)
    BY <1>3, <1>4, <1>10, Zenon DEF CancelCheck, CancelSet, Cancel, Request, SendSteps
<1>11. CASE RespLookup(t)
    <2>1. \/ Ends(t)
          \/ Becomes(t, One(Single(t))) \/ Becomes(t, One([t EXCEPT !.pc = "handle"]))
        BY <1>11, Zenon DEF RespLookup
    <2>2. /\ Single(t).o = t.o /\ Single(t).pc \notin SendSteps
          /\ [t EXCEPT !.pc = "handle"].o = t.o /\ [t EXCEPT !.pc = "handle"].pc \notin SendSteps
        BY <1>1, <1>11, Zenon DEF RespLookup, Single, Task, SendSteps
    <2> QED BY <1>3, <1>4, <2>1, <2>2, Zenon
<1>12. CASE handleSendOrderResp(t)
    <2>1. Ends(t) \/ Becomes(t, createCallbacks[t.o])
        BY <1>12, Zenon DEF handleSendOrderResp
    <2>2. Follows(t, createCallbacks[t.o])
        BY <1>1, Zenon DEF CallbacksAreOwn, Own, Follows, SendSteps
    <2> QED BY <1>3, <2>1, <2>2, Zenon
<1>13. CASE handleAmendOrderResp(t)
    <2>1. Ends(t) \/ Becomes(t, amendCallbacks[t.o])
        BY <1>13, Zenon DEF handleAmendOrderResp
    <2>2. Follows(t, amendCallbacks[t.o])
        BY <1>1, Zenon DEF CallbacksAreOwn, Own, Follows, SendSteps
    <2> QED BY <1>3, <2>1, <2>2
<1> QED BY <1>5, <1>6, <1>7, <1>8, <1>9, <1>10, <1>11, <1>12, <1>13, Zenon DEF Step

(* How a step of a goroutine changes its order: it sends it, leaves it,    *)
(* changes the status of an order that was sent, or ends it.  The first    *)
(* two are all that a goroutine of an order that was not sent can do.      *)
Effect(t) ==
    \/ t.pc \in SendSteps /\ markSending(t.o)
    \/ t.pc \notin SendSteps /\ UNCHANGED <<status, living, appending>>
    \/ /\ t.pc \notin SendSteps \union {"amend"}
       /\ \E s \in Statuses \ {"Born"} : status' = [status EXCEPT ![t.o] = s]
       /\ UNCHANGED <<living, appending>>
    \/ t.pc \notin SendSteps \union {"amend"} /\ \E why : finish(t.o, why)

(* Every step of a goroutine has one of these effects, and touches neither *)
(* the exchange nor the frames.                                            *)
LEMMA StepEffect ==
    ASSUME NEW t, Step(t)
    PROVE  Effect(t) /\ UNCHANGED <<doneVars, exch, wsVars>>
<1>1. CASE SendLocked(t) \/ BatchMark(t)
    BY <1>1, Zenon DEF SendLocked, BatchMark, Effect, SendSteps
<1>2. CASE SendFailed(t) \/ AmendFailed(t)
    BY <1>2, Zenon DEF SendFailed, AmendFailed, rejectCreate, rejectAmend, Effect, SendSteps, Statuses
<1>3. CASE CancelUndo(t) \/ CancelsFailed(t)
    BY <1>3, Zenon DEF CancelUndo, CancelsFailed, rejectCancel, Effect, SendSteps, Statuses
<1>4. CASE \/ AmendLocked(t) \/ DeferSet(t) \/ AmendLookup(t) \/ AmendBegin(t)
           \/ AmendCheck(t) \/ CbAmendGet(t) \/ CbAmendDelete(t) \/ CancelCheck(t)
           \/ RespLookup(t)
    BY <1>4, Zenon DEF AmendLocked, DeferSet, AmendLookup, AmendBegin, AmendCheck, CbAmendGet,
                CbAmendDelete, CancelCheck, RespLookup, Effect, SendSteps, orderVars
<1>5. CASE AmendSet(t) \/ CancelSet(t)
    BY <1>5, Zenon DEF AmendSet, CancelSet, Effect, SendSteps, Statuses
<1>6. CASE handleSendOrderResp(t)
    BY <1>6, Zenon DEF handleSendOrderResp, rejectCreate, acceptCreate, Effect, SendSteps, Statuses, orderVars
<1>7. CASE handleAmendOrderResp(t)
    BY <1>7, Zenon DEF handleAmendOrderResp, abandonOrder, rejectAmend, acceptAmend, Effect, SendSteps, Statuses
<1>8. CASE handleCancelOrderResp(t)
    BY <1>8, Zenon DEF handleCancelOrderResp, abandonOrder, rejectCancel, acceptCancel, Effect, SendSteps, Statuses
<1> QED BY <1>1, <1>2, <1>3, <1>4, <1>5, <1>6, <1>7, <1>8, Zenon DEF Step

(* The goroutines after a step, and the sends among them.                  *)
LEMMA TasksAfter ==
    ASSUME TypeOK, NEW t \in Elements(tasks), NEW next, Becomes(t, next), Follows(t, next)
    PROVE  /\ \A u \in DOMAIN tasks' : u \in DOMAIN tasks \/ u \in DOMAIN next
           /\ \A u \in DOMAIN tasks' : u.pc \in SendSteps => u \in DOMAIN tasks
           /\ \A u \in DOMAIN tasks' : u.pc \in SendSteps /\ tasks[u] = 1 => u # t /\ tasks'[u] = 1
<1>1. tasks \in [DOMAIN tasks -> Nat \ {0}]
    BY Zenon DEF TypeOK, TasksOK, IsMultiset
<1>2. tasks' = Less(tasks, {t}) (+) next
    BY Zenon DEF Becomes
<1>3. \A u \in DOMAIN next : u.pc \notin SendSteps
    BY Zenon DEF Follows
<1>4. \A u \in DOMAIN tasks' : u \in DOMAIN tasks \/ u \in DOMAIN next
    BY <1>2, Zenon DEF (+), Less
<1>5. ASSUME NEW u \in DOMAIN tasks', u.pc \in SendSteps, tasks[u] = 1
      PROVE  u # t /\ tasks'[u] = 1
    <2>1. u \notin DOMAIN next /\ u \in DOMAIN Less(tasks, {t})
        BY <1>2, <1>3, <1>5, Zenon DEF (+)
    <2>2. u # t
        BY <1>5, <2>1 DEF Less
    <2>3. Less(tasks, {t})[u] = 1
        BY <1>5, <2>1, <2>2, Zenon DEF Less
    <2> QED BY <1>2, <2>1, <2>2, <2>3 DEF (+), Copies
<1> QED BY <1>3, <1>4, <1>5, Zenon

(* A goroutine that amends an order that was not sent ends.                *)
LEMMA BornAmendEnds ==
    ASSUME NEW t, Step(t), t.pc = "amend", status[t.o] = "Born"
    PROVE  Becomes(t, Nothing) /\ UNCHANGED <<status, living, appending>>
<1>1. AmendLocked(t)
    BY Zenon DEF Step, SendLocked, SendFailed, BatchMark, AmendLocked, DeferSet, AmendLookup,
           AmendBegin, AmendCheck, AmendSet, AmendFailed, CbAmendGet, CbAmendDelete,
           CancelCheck, CancelSet, CancelUndo, CancelsFailed, RespLookup,
           handleSendOrderResp, handleAmendOrderResp, handleCancelOrderResp
<1> QED BY <1>1, Zenon DEF AmendLocked, Ends, orderVars

(* Callbacks of an order, one by one and together.                         *)
LEMMA OwnFacts ==
    ASSUME NEW o
    PROVE  /\ \A u : u.o = o /\ u.pc \in {"cbAmend", "cancelCheck"} => Own(o, One(u))
           /\ \A M, N : Own(o, M) /\ Own(o, N) => Own(o, M (+) N)
<1>1. ASSUME NEW u, u.o = o, u.pc \in {"cbAmend", "cancelCheck"} PROVE Own(o, One(u))
    BY <1>1, OneDomain, ZenonT(60) DEF Own
<1>2. ASSUME NEW M, NEW N, Own(o, M), Own(o, N) PROVE Own(o, M (+) N)
    <2> DEFINE S == M (+) N
    <2>1. DOMAIN S = DOMAIN M \union DOMAIN N
        BY SpawnDomain, Zenon
    <2> HIDE DEF S
    <2>2. Own(o, S)
        BY <1>2, <2>1, Zenon DEF Own
    <2> QED BY <2>2, Zenon DEF S
<1> QED BY <1>1, <1>2, Zenon

(* Deferred operations stay with their order: AmendOrder appends to, and   *)
(* CancelOrder and CancelOrders replace, the callbacks of the order they   *)
(* are about.                                                              *)
LEMMA OwnStep ==
    ASSUME TypeOK, CallbacksAreOwn, [Next]_vars
    PROVE  CallbacksAreOwn'
<1>1. /\ DOMAIN createCallbacks = Orders /\ DOMAIN amendCallbacks = Orders
      /\ \A t \in DOMAIN tasks : t.o \in Orders
    BY TaskFields, Zenon DEF TypeOK, DeferTypeOK, TasksOK, Elements
<1>2. CASE UNCHANGED <<createCallbacks, amendCallbacks>>
    BY <1>2, Zenon DEF CallbacksAreOwn
<1>3. \A o \in Orders : Own(o, One(CancelCb(o)))
    BY OwnFacts, Zenon DEF CancelCb, Cancel
<1>4. ASSUME NEW t \in Elements(tasks), AmendLocked(t) PROVE CallbacksAreOwn'
    <2>1. ASSUME NEW cbs, Own(t.o, cbs), NEW d PROVE Own(t.o, cbs (+) One(AmendCb(t.o, d)))
        <3>1. Own(t.o, One(AmendCb(t.o, d)))
            BY OwnFacts, Zenon DEF AmendCb, Job
        <3> QED BY <2>1, <3>1, OwnFacts, Zenon
    <2>2. ASSUME NEW cbs, DOMAIN cbs = Orders, \A o \in Orders : Own(o, cbs[o]), NEW b \in BOOLEAN
          PROVE  \A o \in Orders : Own(o, defer(cbs, t, b)[o])
        <3>1. CASE defer(cbs, t, b) = cbs
            BY <2>2, <3>1, Zenon
        <3>2. CASE defer(cbs, t, b) = [cbs EXCEPT ![t.o] = @ (+) One(AmendCb(t.o, t.d))]
            <4>1. Own(t.o, cbs[t.o] (+) One(AmendCb(t.o, t.d)))
                BY <1>1, <2>1, <2>2, Zenon DEF Elements
            <4> QED BY <2>2, <3>2, <4>1, Zenon
        <3> QED BY <3>1, <3>2, Zenon DEF defer
    <2>3. \/ UNCHANGED <<createCallbacks, amendCallbacks>>
          \/ createCallbacks' = defer(createCallbacks, t, ~IsTaker(t.o)) /\ UNCHANGED amendCallbacks
          \/ amendCallbacks' = defer(amendCallbacks, t, IsAmenable(t.o)) /\ UNCHANGED createCallbacks
        BY <1>4, Zenon DEF AmendLocked
    <2>4. (~IsTaker(t.o)) \in BOOLEAN /\ IsAmenable(t.o) \in BOOLEAN
        BY DEF IsTaker, IsAmenable
    <2> QED BY <1>1, <1>2, <2>2, <2>3, <2>4, Zenon DEF CallbacksAreOwn
<1>5. ASSUME NEW t \in Elements(tasks), Step(t) PROVE CallbacksAreOwn'
    <2>1. AmendLocked(t) \/ UNCHANGED <<createCallbacks, amendCallbacks>>
        BY <1>5, Zenon DEF Step, SendLocked, SendFailed, BatchMark, DeferSet, AmendLookup,
           AmendBegin, AmendCheck, AmendSet, AmendFailed, CbAmendGet, CbAmendDelete,
           CancelCheck, CancelSet, CancelUndo, CancelsFailed, RespLookup,
           handleSendOrderResp, handleAmendOrderResp, handleCancelOrderResp, deferVars
    <2> QED BY <1>2, <1>4, <2>1, Zenon
<1>6. ASSUME NEW o \in Orders, CancelOrder(o) PROVE CallbacksAreOwn'
    BY <1>1, <1>2, <1>3, <1>6, Zenon DEF CancelOrder, CallbacksAreOwn, deferVars
<1>7. ASSUME NEW B \in Batches, CancelOrders(B) PROVE CallbacksAreOwn'
    BY <1>1, <1>3, <1>7, Zenon DEF CancelOrders, CallbacksAreOwn
<1>8. CASE Client
    BY <1>2, <1>6, <1>7, <1>8, Zenon DEF Client, SendOrder, SendOrders, AmendOrder, ExportDoneOrders, deferVars
<1>9. CASE Exchange \/ BatchRequest \/ OrderReader \/ \E o \in Orders : AppendDone(o)
    BY <1>2, <1>9, Zenon DEF Exchange, ExchangeServes, ExchangeFills, ExchangePartiallyFills, ExchangeCancels,
       ExchangeReports, BatchRequest, OrderReader, WsLookup, HandleOrderData, AppendDone, deferVars
<1>10. CASE UNCHANGED vars
    BY <1>2, <1>10, Zenon DEF vars
<1> QED BY <1>5, <1>8, <1>9, <1>10, Zenon DEF Next, Dealing
-----------------------------------------------------------------------------
(* No step of a goroutine makes an unsent order known, sends an order      *)
(* twice, loses one it has sent, or forgets a fill.                        *)
LEMMA AccountStep ==
    ASSUME AccountInv, NEW t \in Elements(tasks), Step(t)
    PROVE  (BornIsUnknown /\ BornTasks /\ SentOnce /\ ReadIsSent /\ Accounted /\ FillIsNeverMissed)'
<1>1. /\ TypeOK /\ BornIsUnknown /\ BornTasks /\ SentOnce /\ CallbacksAreOwn /\ ReadIsSent
      /\ Accounted /\ FillIsNeverMissed
    BY Zenon DEF AccountInv
<1>2. /\ t \in DOMAIN tasks /\ t.o \in Orders /\ status \in [Orders -> Statuses] /\ living \subseteq Orders
      /\ appending \in [Orders -> {"no", "yes", "swapped"}] /\ \A u \in DOMAIN tasks : u.o \in Orders
    BY <1>1, TaskFields, Zenon DEF TypeOK, OrderTypeOK, RunTypeOK, TasksOK, Elements
<1>3. Effect(t) /\ UNCHANGED <<doneOrders, exported, exch, ws, wsOrder, missed>>
    BY StepEffect, Zenon DEF wsVars, doneVars
<1>4. PICK next : Becomes(t, next) /\ Follows(t, next)
    BY <1>1, StepFollows, Zenon
<1>5. /\ \A u \in DOMAIN tasks' : u \in DOMAIN tasks \/ u \in DOMAIN next
      /\ \A u \in DOMAIN tasks' : u.pc \in SendSteps => u \in DOMAIN tasks
      /\ \A u \in DOMAIN tasks' : u.pc \in SendSteps /\ tasks[u] = 1 => u # t /\ tasks'[u] = 1
    BY <1>1, <1>4, TasksAfter, Zenon
<1>6. /\ \A o \in Orders \ {t.o} : status'[o] = status[o] /\ appending'[o] = appending[o]
      /\ \A o \in Orders \ {t.o} : o \in living' <=> o \in living
    BY <1>2, <1>3, Zenon DEF Effect, markSending, finish
<1>7. t.pc \in SendSteps => status[t.o] = "Born"
    BY <1>1, <1>2, Zenon DEF SentOnce
<1>8. status'[t.o] = "Born" => t.pc = "amend" /\ status[t.o] = "Born"
    <2>1. t.pc \notin SendSteps \union {"amend"} => status[t.o] # "Born"
        BY <1>1, <1>2, Zenon DEF BornTasks
    <2> QED BY <1>2, <1>3, <2>1, Zenon DEF Effect, markSending, finish
<1>9. BornIsUnknown'
    <2>1. status'[t.o] = "Born" => UNCHANGED <<living, appending>>
        BY <1>8, BornAmendEnds, Zenon
    <2> QED BY <1>1, <1>2, <1>3, <1>6, <1>8, <2>1, Zenon DEF BornIsUnknown
<1>10. BornTasks'
    <2>1. ASSUME NEW u \in DOMAIN tasks', status'[u.o] = "Born"
          PROVE  u.pc \in SendSteps \union {"amend"}
        <3>1. CASE u \in DOMAIN tasks
            BY <1>1, <1>2, <1>6, <1>8, <2>1, <3>1, Zenon DEF BornTasks
        <3>2. CASE u \notin DOMAIN tasks
            <4>1. u.o = t.o
                BY <1>4, <1>5, <3>2, Zenon DEF Follows
            <4>2. Becomes(t, Nothing)
                BY <1>8, <2>1, <4>1, BornAmendEnds, Zenon
            <4>3. u \in DOMAIN tasks
                BY <4>2, BecomesDomain, OneDomain, Zenon
            <4> QED BY <3>2, <4>3, Zenon
        <3> QED BY <3>1, <3>2, Zenon
    <2> QED BY <2>1, Zenon DEF BornTasks
<1>11. SentOnce'
    <2>1. ASSUME NEW u \in DOMAIN tasks', u.pc \in SendSteps
          PROVE  status'[u.o] = "Born" /\ tasks'[u] = 1
        <3>1. u \in DOMAIN tasks /\ tasks[u] = 1 /\ status[u.o] = "Born" /\ u # t /\ tasks'[u] = 1
            BY <1>1, <1>5, <2>1, Zenon DEF SentOnce
        <3>2. CASE u.o # t.o
            BY <1>2, <1>6, <3>1, <3>2, Zenon
        <3>3. CASE u.o = t.o
            <4>1. t.pc \notin SendSteps
                BY <1>1, <1>2, <2>1, <3>1, <3>3, Zenon DEF SentOnce
            <4>2. t.pc = "amend"
                BY <1>1, <1>2, <3>1, <3>3, <4>1, Zenon DEF BornTasks
            <4> QED BY <3>1, <3>3, <4>2, BornAmendEnds, Zenon
        <3> QED BY <3>1, <3>2, <3>3, Zenon
    <2>2. ASSUME NEW u \in DOMAIN tasks', NEW v \in DOMAIN tasks', u.pc \in SendSteps, v.pc \in SendSteps,
                 u.o = v.o
          PROVE  u = v
        BY <1>1, <1>5, <2>2, Zenon DEF SentOnce
    <2> QED BY <2>1, <2>2, Zenon DEF SentOnce
<1>12. ReadIsSent'
    <2>1. ASSUME wsOrder # NoFrame PROVE status'[wsOrder.o] # "Born"
        <3>1. wsOrder.o \in Orders /\ status[wsOrder.o] # "Born"
            BY <1>1, <2>1, ReadOrder, Zenon DEF ReadIsSent
        <3> QED BY <1>6, <1>8, <3>1, Zenon
    <2> QED BY <1>3, <2>1, Zenon DEF ReadIsSent
<1>13. Accounted'
    <2>1. ASSUME NEW o \in Orders, status'[o] # "Born" PROVE IsAccounted(o)'
        <3>1. CASE o # t.o
            BY <1>1, <1>3, <1>6, <2>1, <3>1, Zenon DEF Accounted, IsAccounted, Recorded
        <3>2. CASE o = t.o /\ t.pc \in SendSteps /\ markSending(t.o)
            BY <1>1, <1>2, <1>3, <1>7, <3>2, SMTT(30) DEF markSending, BornIsUnknown, IsAccounted, Recorded
        <3>3. CASE o = t.o /\ UNCHANGED <<status, living, appending>>
            BY <1>1, <1>3, <2>1, <3>3, Zenon DEF Accounted, IsAccounted, Recorded
        <3>4. CASE o = t.o /\ t.pc \notin SendSteps \union {"amend"} /\ UNCHANGED <<living, appending>>
            BY <1>1, <1>2, <1>3, <3>4, Zenon DEF Accounted, IsAccounted, Recorded, BornTasks
        <3>5. CASE o = t.o /\ \E why : finish(t.o, why)
            BY <1>2, <3>5, Zenon DEF finish, IsAccounted
        <3> QED BY <1>3, <3>1, <3>2, <3>3, <3>4, <3>5, Zenon DEF Effect
    <2> QED BY <2>1, Zenon DEF Accounted
<1>14. FillIsNeverMissed'
    <2>1. ASSUME NEW o \in living', exch[o] = "Filled" PROVE o \in living
        <3>1. CASE t.pc \in SendSteps /\ markSending(t.o)
            <4>1. exch[t.o] = "None"
                BY <1>1, <1>2, <1>7, <3>1, Zenon DEF BornIsUnknown
            <4> QED BY <2>1, <3>1, <4>1, Zenon DEF markSending
        <3>2. CASE living' \subseteq living
            BY <2>1, <3>2, Zenon
        <3> QED BY <1>3, <3>1, <3>2, Zenon DEF Effect, finish
    <2> QED BY <1>1, <1>3, <2>1, Zenon DEF FillIsNeverMissed
<1> QED BY <1>9, <1>10, <1>11, <1>12, <1>13, <1>14, Zenon

(* Nor does a client call: only orders that are Born and have no send      *)
(* under way are sent, and CancelOrders changes sent orders only.          *)
LEMMA AccountClient ==
    ASSUME AccountInv, Client
    PROVE  (BornIsUnknown /\ BornTasks /\ SentOnce /\ ReadIsSent /\ Accounted /\ FillIsNeverMissed)'
<1>1. /\ TypeOK /\ BornIsUnknown /\ BornTasks /\ SentOnce /\ ReadIsSent
      /\ Accounted /\ FillIsNeverMissed
    BY Zenon DEF AccountInv
<1>2. /\ status \in [Orders -> Statuses] /\ living \subseteq Orders
      /\ doneOrders \in [Orders -> Nat] /\ exported \in [Orders -> Nat]
      /\ \A u \in DOMAIN tasks : u.o \in Orders
      /\ tasks \in [DOMAIN tasks -> Nat \ {0}]
    BY <1>1, TaskFields, Zenon DEF TypeOK, OrderTypeOK, RunTypeOK, TasksOK, Elements, IsMultiset
<1>3. UNCHANGED <<living, exch, ws, wsOrder, missed>>
    BY Zenon DEF Client, ExportDoneOrders, SendOrder, CancelOrder, AmendOrder, SendOrders, CancelOrders,
           orderVars, wsVars
<1>4. FillIsNeverMissed'
    BY <1>1, <1>3, Zenon DEF FillIsNeverMissed
<1>5. ASSUME NEW S, tasks' = tasks (+) Each(S), UNCHANGED <<status, doneVars, appending>>,
             \A u \in S : u.o \in Orders /\ (status[u.o] = "Born" => u.pc \in SendSteps \union {"amend"}),
             \A u \in S : u.pc \in SendSteps =>
                 /\ status[u.o] = "Born" /\ u \notin DOMAIN tasks
                 /\ \A v \in DOMAIN tasks \union S : v.pc \in SendSteps /\ v.o = u.o => v = u
      PROVE  (BornIsUnknown /\ BornTasks /\ SentOnce /\ ReadIsSent /\ Accounted)'
    <2>1. DOMAIN tasks' = DOMAIN tasks \union S
        BY <1>5, Zenon DEF (+), Each
    <2>2. ASSUME NEW u \in DOMAIN tasks', u.pc \in SendSteps PROVE status[u.o] = "Born" /\ tasks'[u] = 1
        <3>1. CASE u \in S
            BY <1>5, <2>1, <2>2, <3>1 DEF (+), Each, Copies
        <3>2. CASE u \notin S
            <4>1. u \in DOMAIN tasks /\ tasks[u] = 1 /\ status[u.o] = "Born"
                BY <1>1, <2>1, <2>2, <3>2, Zenon DEF SentOnce
            <4> QED BY <1>5, <2>1, <3>2, <4>1 DEF (+), Each, Copies
        <3> QED BY <3>1, <3>2, Zenon
    <2>3. ASSUME NEW u \in DOMAIN tasks', NEW v \in DOMAIN tasks', u.pc \in SendSteps, v.pc \in SendSteps,
                 u.o = v.o
          PROVE  u = v
        <3>1. CASE u \in S \/ v \in S
            BY <1>5, <2>1, <2>3, <3>1, Zenon
        <3>2. CASE u \notin S /\ v \notin S
            BY <1>1, <2>1, <2>3, <3>2, Zenon DEF SentOnce
        <3> QED BY <3>1, <3>2, Zenon
    <2>4. SentOnce'
        BY <1>5, <2>2, <2>3, Zenon DEF SentOnce
    <2>5. BornTasks'
        BY <1>1, <1>5, <2>1, Zenon DEF BornTasks
    <2>6. BornIsUnknown' /\ ReadIsSent' /\ Accounted'
        BY <1>1, <1>3, <1>5, Zenon DEF BornIsUnknown, ReadIsSent, Accounted, IsAccounted, Recorded, doneVars
    <2> QED BY <2>4, <2>5, <2>6, Zenon
<1>6. ASSUME UNCHANGED <<tasks, status>>, UNCHANGED <<doneVars, appending>>
      PROVE  (BornIsUnknown /\ BornTasks /\ SentOnce /\ ReadIsSent /\ Accounted)'
    BY <1>1, <1>3, <1>6, Zenon DEF BornIsUnknown, BornTasks, SentOnce, ReadIsSent, Accounted,
       IsAccounted, Recorded, doneVars
<1>7. ASSUME NEW o \in Orders, SendOrder(o)
      PROVE  (BornIsUnknown /\ BornTasks /\ SentOnce /\ ReadIsSent /\ Accounted)'
    <2> DEFINE u == Job("send", o, NoDetail)
    <2>1. u.o = o /\ u.pc = "send"
        BY Zenon DEF Job
    <2>2. status[o] = "Born" /\ \A v \in DOMAIN tasks : v.o = o => v.pc \notin SendSteps
        BY <1>7, Zenon DEF SendOrder, Unsent, Elements, SendSteps
    <2>3. tasks' = tasks (+) Each({u}) /\ UNCHANGED <<status, doneVars, appending>>
        BY <1>7, Zenon DEF SendOrder, One, orderVars
    <2> HIDE DEF u
    <2>4. u \notin DOMAIN tasks /\ u.pc \in SendSteps
        BY <2>1, <2>2, Zenon DEF SendSteps
    <2> QED BY <1>5, <2>1, <2>2, <2>3, <2>4
<1>8. ASSUME NEW o \in Orders, CancelOrder(o)
      PROVE  (BornIsUnknown /\ BornTasks /\ SentOnce /\ ReadIsSent /\ Accounted)'
    <2> DEFINE u == Cancel("cancelCheck", o, "locked")
    <2>1. u.o = o /\ u.pc \notin SendSteps
        BY Zenon DEF Cancel, SendSteps
    <2>2. UNCHANGED <<status, doneVars, appending>>
        BY <1>8, Zenon DEF CancelOrder, orderVars
    <2>3. (tasks' = tasks (+) Each({u}) /\ status[o] # "Born") \/ UNCHANGED tasks
        BY <1>8, Zenon DEF CancelOrder, One
    <2> HIDE DEF u
    <2> QED BY <1>5, <1>6, <2>1, <2>2, <2>3
<1>9. ASSUME NEW o \in Orders, NEW d \in Details, AmendOrder(o, d)
      PROVE  (BornIsUnknown /\ BornTasks /\ SentOnce /\ ReadIsSent /\ Accounted)'
    <2> DEFINE u == Job("amend", o, d)
    <2>1. u.o = o /\ u.pc = "amend" /\ u.pc \notin SendSteps
        BY Zenon DEF Job, SendSteps
    <2>2. tasks' = tasks (+) Each({u}) /\ UNCHANGED <<status, doneVars, appending>>
        BY <1>9, Zenon DEF AmendOrder, One, orderVars
    <2> HIDE DEF u
    <2> QED BY <1>5, <2>1, <2>2
<1>10. ASSUME NEW B \in Batches, SendOrders(B)
       PROVE  (BornIsUnknown /\ BornTasks /\ SentOnce /\ ReadIsSent /\ Accounted)'
    <2> DEFINE u(o) == Job("batchSend", o, NoDetail)
               S == {u(o) : o \in B}
    <2>1. \A o : u(o).o = o /\ u(o).pc = "batchSend"
        BY Zenon DEF Job
    <2>2. \A o \in B : o \in Orders /\ status[o] = "Born" /\ \A v \in DOMAIN tasks : v.o = o => v.pc \notin SendSteps
        BY <1>10, DealerAssumption DEF SendOrders, Unsent, Elements, SendSteps
    <2>3. tasks' = tasks (+) Each(S) /\ UNCHANGED <<status, doneVars, appending>>
        BY <1>10, Zenon DEF SendOrders, orderVars
    <2>4. \A v \in S : v.o \in B /\ v.pc = "batchSend" /\ v = u(v.o)
        <3> HIDE DEF u
        <3> QED BY <2>1, Zenon
    <2> HIDE DEF u, S
    <2>5. \A v \in S : v \notin DOMAIN tasks /\ v.pc \in SendSteps
        BY <2>2, <2>4, Zenon DEF SendSteps
    <2>6. \A v \in S : \A w \in DOMAIN tasks \union S : w.pc \in SendSteps /\ w.o = v.o => w = v
        BY <2>2, <2>4, Zenon
    <2> QED BY <1>5, <2>2, <2>3, <2>4, <2>5, <2>6, Zenon
<1>11. ASSUME NEW B \in Batches, CancelOrders(B)
       PROVE  (BornIsUnknown /\ BornTasks /\ SentOnce /\ ReadIsSent /\ Accounted)'
    <2> DEFINE request(o) == Request("cancels", o, NoDetail)
               fail(o) == Job("cancelsFail", o, NoDetail)
               targets == {o \in B : status[o] = "Pending"}
    <2>1. /\ \A o \in B : o \in Orders /\ status[o] # "Born"
          /\ status' = [o \in Orders |-> IF o \in targets THEN "Canceling" ELSE status[o]]
          /\ UNCHANGED <<doneVars, appending>>
        BY <1>11, DealerAssumption, Zenon DEF CancelOrders
    <2>2. \A o \in Orders : status'[o] = "Born" <=> status[o] = "Born"
        BY <2>1, Zenon
    <2>3. PICK S : /\ UNCHANGED tasks \/ tasks' = tasks (+) Each(S)
                   /\ S \subseteq {request(o) : o \in B} \union {fail(o) : o \in B}
        <3>1. \/ UNCHANGED tasks \/ tasks' = tasks (+) Each({request(o) : o \in targets})
              \/ tasks' = tasks (+) Each({fail(o) : o \in B})
            BY <1>11, Zenon DEF CancelOrders
        <3> HIDE DEF request, fail
        <3>2. {request(o) : o \in targets} \subseteq {request(o) : o \in B}
            BY Zenon
        <3> HIDE DEF targets
        <3> QED BY <3>1, <3>2, Zenon
    <2>4. \A v \in S : v.o \in B /\ v.pc \notin SendSteps
        <3>1. \A o : request(o).o = o /\ request(o).pc = "req" /\ fail(o).o = o /\ fail(o).pc = "cancelsFail"
            BY Zenon DEF Request, Job
        <3> HIDE DEF request, fail
        <3> QED BY <2>3, <3>1 DEF SendSteps
    <2> HIDE DEF request, fail, targets
    <2>5. /\ DOMAIN tasks' \subseteq DOMAIN tasks \union S
          /\ \A v \in DOMAIN tasks' : v \notin S => tasks'[v] = tasks[v]
        BY <1>2, <2>3 DEF (+), Each, Copies
    <2>6. BornTasks'
        BY <1>1, <1>2, <2>1, <2>2, <2>4, <2>5, Zenon DEF BornTasks
    <2>7. SentOnce'
        BY <1>1, <1>2, <2>1, <2>2, <2>4, <2>5, Zenon DEF SentOnce
    <2>8. ReadIsSent'
        BY <1>1, <1>3, <2>2, ReadOrder, Zenon DEF ReadIsSent
    <2>9. BornIsUnknown' /\ Accounted'
        BY <1>1, <1>3, <2>1, <2>2, Zenon DEF BornIsUnknown, Accounted, IsAccounted, Recorded, doneVars
    <2> QED BY <2>6, <2>7, <2>8, <2>9, Zenon
<1>12. CASE ExportDoneOrders
    <2>1. /\ exported' = [o \in Orders |-> exported[o] + doneOrders[o]]
          /\ doneOrders' = [o \in Orders |-> 0] /\ UNCHANGED <<status, tasks>>
          /\ \A o \in Orders : appending'[o] = "no" <=> appending[o] = "no"
        BY <1>12, Zenon DEF ExportDoneOrders
    <2>2. \A o \in Orders : Recorded(o)' = Recorded(o)
        BY <1>2, <2>1 DEF Recorded
    <2>3. BornIsUnknown'
        BY <1>1, <1>2, <1>3, <2>1 DEF BornIsUnknown
    <2>4. Accounted'
        BY <1>1, <1>3, <2>1, <2>2, Zenon DEF Accounted, IsAccounted
    <2>5. BornTasks' /\ SentOnce' /\ ReadIsSent'
        BY <1>1, <1>3, <2>1, Zenon DEF BornTasks, SentOnce, ReadIsSent
    <2> QED BY <1>4, <2>3, <2>4, <2>5, Zenon
<1> QED BY <1>4, <1>7, <1>8, <1>9, <1>10, <1>11, <1>12, Zenon DEF Client

(* A frame that arrives is the last of the websocket, behind the others.   *)
LEMMA AppendKeeps ==
    ASSUME NEW S, NEW s \in Seq(S), NEW e
    PROVE  LET r == Append(s, e) IN
           /\ \A i \in DOMAIN s : i \in DOMAIN r /\ r[i] = s[i]
           /\ \E i \in DOMAIN r : r[i] = e
<1>1. /\ DOMAIN s = 1 .. Len(s) /\ Len(s) \in Nat
      /\ DOMAIN Append(s, e) = 1 .. Len(s) + 1
      /\ Append(s, e)[Len(s) + 1] = e
    OBVIOUS
<1>2. ASSUME NEW i \in 1 .. Len(s) PROVE Append(s, e)[i] = s[i]
    OBVIOUS
<1>3. Len(s) + 1 \in DOMAIN Append(s, e)
    BY <1>1
<1> QED BY <1>1, <1>2, <1>3

(* Nor does the exchange: it serves and fills only what it was sent, and   *)
(* reports what it fills.                                                  *)
LEMMA AccountExchange ==
    ASSUME AccountInv, Exchange
    PROVE  (BornIsUnknown /\ BornTasks /\ SentOnce /\ ReadIsSent /\ Accounted /\ FillIsNeverMissed)'
<1>1. /\ TypeOK /\ BornIsUnknown /\ BornTasks /\ SentOnce /\ ReadIsSent
      /\ Accounted /\ FillIsNeverMissed
    BY Zenon DEF AccountInv
<1>2. /\ living \subseteq Orders /\ exch \in [Orders -> {"None", "Open", "Filled", "Canceled"}]
      /\ ws \in Seq(Frames) /\ \A u \in DOMAIN tasks : u \in Task /\ u.o \in Orders
    BY <1>1, TaskFields, Zenon DEF TypeOK, OrderTypeOK, RunTypeOK, TasksOK, Elements
<1>3. ASSUME NEW t \in Elements(tasks), ExchangeServes(t)
      PROVE  (BornIsUnknown /\ BornTasks /\ SentOnce /\ ReadIsSent /\ Accounted /\ FillIsNeverMissed)'
    <2>1. t \in DOMAIN tasks /\ t.pc = "req"
        BY <1>3, Zenon DEF ExchangeServes, Elements
    <2>2. t.o \in Orders /\ status[t.o] # "Born"
        BY <1>1, <1>2, <2>1, Zenon DEF BornTasks, SendSteps
    <2>3. UNCHANGED <<status, living, appending, doneOrders, exported, ws, wsOrder, missed>>
        BY <1>3, Zenon DEF ExchangeServes, orderVars, doneVars, wsVars
    <2>4. PICK tag : Becomes(t, One(Answer(t, tag)))
        BY <1>3, Zenon DEF ExchangeServes
    <2>5. Answer(t, tag).o = t.o /\ Answer(t, tag).pc \notin SendSteps
        BY <1>2, <2>1, Zenon DEF Answer, Task, SendSteps
    <2>6. Follows(t, One(Answer(t, tag))) /\ DOMAIN One(Answer(t, tag)) = {Answer(t, tag)}
        BY <2>5, OneFollows, OneDomain, Zenon
    <2>7. /\ \A u \in DOMAIN tasks' : u \in DOMAIN tasks \/ u.o = t.o
          /\ \A u \in DOMAIN tasks' : u.pc \in SendSteps => u \in DOMAIN tasks
          /\ \A u \in DOMAIN tasks' : u.pc \in SendSteps /\ tasks[u] = 1 => tasks'[u] = 1
        BY <1>1, <2>4, <2>5, <2>6, TasksAfter, Zenon
    <2>8. \/ UNCHANGED exch
          \/ \E x \in {"Open", "Canceled", exch[t.o]} : exch' = [exch EXCEPT ![t.o] = x]
        BY <1>3, Zenon DEF ExchangeServes
    <2>9. /\ \A o \in Orders \ {t.o} : exch'[o] = exch[o]
          /\ exch'[t.o] = "Filled" => exch[t.o] = "Filled"
        BY <1>2, <2>2, <2>8, Zenon
    <2>10. BornTasks' /\ SentOnce'
        BY <1>1, <2>2, <2>3, <2>7, Zenon DEF BornTasks, SentOnce
    <2>11. BornIsUnknown' /\ ReadIsSent' /\ Accounted'
        BY <1>1, <2>2, <2>3, <2>9, Zenon DEF BornIsUnknown, ReadIsSent, Accounted, IsAccounted, Recorded
    <2>12. FillIsNeverMissed'
        BY <1>1, <1>2, <2>3, <2>9, Zenon DEF FillIsNeverMissed
    <2> QED BY <2>10, <2>11, <2>12, Zenon
<1>4. ASSUME NEW o \in Orders, NEW st, NEW after, ExchangeReports(o, st, after),
             after = "Filled" => st = "Filled"
      PROVE  (BornIsUnknown /\ BornTasks /\ SentOnce /\ ReadIsSent /\ Accounted /\ FillIsNeverMissed)'
    <2>1. /\ UNCHANGED <<status, living, appending, doneOrders, exported, tasks, wsOrder>>
          /\ exch[o] = "Open" /\ exch' = [exch EXCEPT ![o] = after]
          /\ \/ ws' = Append(ws, [o |-> o, st |-> st]) /\ UNCHANGED missed
             \/ missed \subseteq missed' /\ UNCHANGED ws /\ (st = "Filled" => o \in missed')
        BY <1>4, Zenon DEF ExchangeReports, orderVars, doneVars
    <2>2. status[o] # "Born"
        BY <1>1, <2>1, Zenon DEF BornIsUnknown
    <2>3. BornIsUnknown'
        BY <1>1, <1>2, <2>1, <2>2, Zenon DEF BornIsUnknown
    <2>4. BornTasks' /\ SentOnce' /\ ReadIsSent' /\ Accounted'
        BY <1>1, <2>1, Zenon DEF BornTasks, SentOnce, ReadIsSent, Accounted, IsAccounted, Recorded
    <2>5. /\ \A i \in DOMAIN ws : i \in DOMAIN ws' /\ ws'[i] = ws[i]
          /\ (\E i \in DOMAIN ws' : ws'[i] = [o |-> o, st |-> st]) \/ (st = "Filled" => o \in missed')
          /\ missed \subseteq missed'
        <3>1. CASE ws' = Append(ws, [o |-> o, st |-> st]) /\ UNCHANGED missed
            <4>1. ws \in Seq(Frames)
                BY <1>2, Zenon
            <4> QED BY <3>1, <4>1, AppendKeeps
        <3>2. CASE missed \subseteq missed' /\ UNCHANGED ws /\ (st = "Filled" => o \in missed')
            BY <3>2, Zenon
        <3> QED BY <2>1, <3>1, <3>2, Zenon
    <2>6. ASSUME NEW x \in living \ missed', exch'[x] = "Filled"
          PROVE  \/ \E i \in DOMAIN ws' : ws'[i] = [o |-> x, st |-> "Filled"]
                 \/ wsOrder = [o |-> x, st |-> "Filled"]
        <3>1. CASE x = o
            BY <1>2, <1>4, <2>1, <2>5, <2>6, <3>1, Zenon
        <3>2. CASE x # o
            BY <1>1, <1>2, <2>1, <2>5, <2>6, <3>2, Zenon DEF FillIsNeverMissed
        <3> QED BY <3>1, <3>2, Zenon
    <2>7. FillIsNeverMissed'
        BY <2>1, <2>6, Zenon DEF FillIsNeverMissed
    <2> QED BY <2>3, <2>4, <2>7, Zenon
<1> QED BY <1>3, <1>4, Zenon DEF Exchange, ExchangeFills, ExchangePartiallyFills, ExchangeCancels

(* Nor does the request of a batch: its orders are marked as sent.         *)
LEMMA AccountBatch ==
    ASSUME AccountInv, BatchRequest
    PROVE  (BornIsUnknown /\ BornTasks /\ SentOnce /\ ReadIsSent /\ Accounted /\ FillIsNeverMissed)'
<1>1. /\ TypeOK /\ BornIsUnknown /\ BornTasks /\ SentOnce /\ ReadIsSent
      /\ Accounted /\ FillIsNeverMissed
    BY Zenon DEF AccountInv
<1>2. tasks \in [DOMAIN tasks -> Nat \ {0}]
    BY <1>1, Zenon DEF TypeOK, TasksOK, IsMultiset
<1>3. UNCHANGED <<status, living, appending, doneOrders, exported, exch, ws, wsOrder, missed>>
    BY Zenon DEF BatchRequest, orderVars, doneVars, wsVars
<1> DEFINE mark(o) == Job("batchMarked", o, NoDetail)
           create(o) == Request("creates", o, NoDetail)
           fail(o) == Job("sendFail", o, NoDetail)
           marked == {mark(o) : o \in sendBatch}
<1>4. \A o : /\ mark(o).o = o /\ mark(o).pc = "batchMarked" /\ create(o).o = o /\ create(o).pc = "req"
             /\ fail(o).o = o /\ fail(o).pc = "sendFail"
    BY Zenon DEF Job, Request
<1>5. /\ marked \subseteq DOMAIN tasks
      /\ \/ tasks' = Less(tasks, marked) (+) Each({create(o) : o \in sendBatch})
         \/ tasks' = Less(tasks, marked) (+) Each({fail(o) : o \in sendBatch})
    BY Zenon DEF BatchRequest, Elements
<1> HIDE DEF mark, create, fail
<1>6. \A u \in marked : u.pc \notin SendSteps
    BY <1>4, Zenon DEF SendSteps
<1>7. \A o \in sendBatch : status[o] # "Born"
    BY <1>1, <1>4, <1>5 DEF BornTasks, SendSteps
<1>8. PICK S : /\ tasks' = Less(tasks, marked) (+) Each(S)
               /\ \A u \in S : u.o \in sendBatch /\ u.pc \notin SendSteps
    <2>1. /\ \A u \in {create(o) : o \in sendBatch} : u.o \in sendBatch /\ u.pc \notin SendSteps
          /\ \A u \in {fail(o) : o \in sendBatch} : u.o \in sendBatch /\ u.pc \notin SendSteps
        BY <1>4 DEF SendSteps
    <2> HIDE DEF marked
    <2> QED BY <1>5, <2>1, Zenon
<1> HIDE DEF marked
<1>9. /\ DOMAIN tasks' \subseteq DOMAIN tasks \union S
      /\ \A u \in DOMAIN tasks' : u \notin S /\ u \notin marked => tasks'[u] = tasks[u]
    BY <1>2, <1>8 DEF (+), Less, Each, Copies
<1>10. BornTasks'
    BY <1>1, <1>3, <1>7, <1>8, <1>9, Zenon DEF BornTasks
<1>11. SentOnce'
    BY <1>1, <1>3, <1>6, <1>8, <1>9, Zenon DEF SentOnce
<1>12. BornIsUnknown' /\ ReadIsSent' /\ Accounted' /\ FillIsNeverMissed'
    BY <1>1, <1>3, Zenon DEF BornIsUnknown, ReadIsSent, Accounted, IsAccounted, Recorded,
       FillIsNeverMissed
<1> QED BY <1>10, <1>11, <1>12, Zenon

(* Nor does the websocket reader: it keeps the fill of a living order in   *)
(* hand until it has ended the order.                                      *)
LEMMA AccountReader ==
    ASSUME AccountInv, OrderReader
    PROVE  (BornIsUnknown /\ BornTasks /\ SentOnce /\ ReadIsSent /\ Accounted /\ FillIsNeverMissed)'
<1>1. /\ TypeOK /\ BornIsUnknown /\ BornTasks /\ SentOnce /\ ReadIsSent
      /\ Accounted /\ FillIsNeverMissed
    BY DEF AccountInv
<1>2. /\ status \in [Orders -> Statuses] /\ living \subseteq Orders /\ ws \in Seq(Frames)
      /\ appending \in [Orders -> {"no", "yes", "swapped"}]
    BY <1>1, Zenon DEF TypeOK, OrderTypeOK, RunTypeOK
<1>3. CASE WsLookup
    <2>1. /\ wsOrder = NoFrame /\ ws # <<>> /\ ws' = Tail(ws)
          /\ wsOrder' = IF Head(ws).o \in living /\ Head(ws).st # "Canceled" THEN Head(ws) ELSE NoFrame
          /\ UNCHANGED <<status, living, appending, doneOrders, exported, tasks, exch, missed>>
        BY <1>3, Zenon DEF WsLookup, orderVars, doneVars
    <2>2. BornIsUnknown' /\ BornTasks' /\ SentOnce' /\ Accounted'
        BY <1>1, <2>1, Zenon DEF BornIsUnknown, BornTasks, SentOnce, Accounted, IsAccounted, Recorded
    <2>3. ReadIsSent'
        BY <1>1, <1>2, <2>1, Zenon DEF ReadIsSent, BornIsUnknown
    <2>4. ASSUME NEW o \in living \ missed, exch[o] = "Filled"
          PROVE  \/ \E i \in DOMAIN ws' : ws'[i] = [o |-> o, st |-> "Filled"]
                 \/ wsOrder' = [o |-> o, st |-> "Filled"]
        <3>1. [o |-> o, st |-> "Filled"] # NoFrame
            BY Zenon DEF NoFrame
        <3>2. PICK i \in DOMAIN ws : ws[i] = [o |-> o, st |-> "Filled"]
            BY <1>1, <2>1, <2>4, <3>1, Zenon DEF FillIsNeverMissed
        <3>3. CASE i = 1
            BY <1>2, <2>1, <2>4, <3>2, <3>3
        <3>4. CASE i # 1
            <4>1. i - 1 \in DOMAIN ws' /\ ws'[i - 1] = ws[i]
                BY <1>2, <2>1, <3>2, <3>4
            <4> QED BY <3>2, <4>1, Zenon
        <3> QED BY <3>3, <3>4, Zenon
    <2>5. FillIsNeverMissed'
        BY <2>1, <2>4, Zenon DEF FillIsNeverMissed
    <2> QED BY <2>2, <2>3, <2>5, Zenon
<1>4. CASE HandleOrderData
    <2>1. /\ wsOrder # NoFrame /\ wsOrder' \in {NoFrame, Ending(wsOrder.o)}
          /\ UNCHANGED <<doneOrders, exported, tasks, exch, ws, missed>>
        BY <1>4, Zenon DEF HandleOrderData, doneVars
    <2>2. wsOrder.o \in Orders /\ status[wsOrder.o] # "Born"
        BY <1>1, <2>1, ReadOrder, Zenon DEF ReadIsSent
    <2>3. \/ wsOrder.st # "Filled" /\ UNCHANGED <<status, living, appending>>
          \/ \E why : finish(wsOrder.o, why)
        BY <1>4, Zenon DEF HandleOrderData, acceptFilled, acceptPartiallyFilled, orderVars
    <2>4. /\ \A o \in Orders : status'[o] = "Born" <=> status[o] = "Born"
          /\ \A o \in Orders \ {wsOrder.o} : appending'[o] = appending[o]
          /\ living' \subseteq living
        BY <1>2, <2>2, <2>3, Zenon DEF finish
    <2>5. BornTasks' /\ SentOnce'
        <3>1. \A u \in DOMAIN tasks : u.o \in Orders
            BY <1>1, TaskFields, Zenon DEF TypeOK, TasksOK, Elements
        <3> QED BY <1>1, <2>1, <2>4, <3>1, Zenon DEF BornTasks, SentOnce
    <2>6. BornIsUnknown' /\ ReadIsSent'
        <3>1. BornIsUnknown'
            BY <1>1, <2>1, <2>2, <2>4, Zenon DEF BornIsUnknown
        <3>2. wsOrder' = NoFrame \/ wsOrder'.o = wsOrder.o
            BY <2>1 DEF Ending
        <3> QED BY <2>2, <2>4, <3>1, <3>2, Zenon DEF ReadIsSent
    <2>7. Accounted'
        <3>1. CASE UNCHANGED <<status, living, appending>>
            BY <1>1, <2>1, <3>1, Zenon DEF Accounted, IsAccounted, Recorded
        <3>2. CASE \E why : finish(wsOrder.o, why)
            <4>1. /\ wsOrder.o \notin living' /\ appending'[wsOrder.o] = "yes"
                  /\ \A o \in Orders \ {wsOrder.o} : o \in living' <=> o \in living
                BY <1>2, <2>2, <3>2, Zenon DEF finish
            <4> QED BY <1>1, <2>1, <2>4, <4>1, Zenon DEF Accounted, IsAccounted, Recorded
        <3> QED BY <2>3, <3>1, <3>2, Zenon
    <2>8. FillIsNeverMissed'
        <3>1. ASSUME NEW o \in living' \ missed, exch[o] = "Filled"
              PROVE  \E i \in DOMAIN ws : ws[i] = [o |-> o, st |-> "Filled"]
            <4>1. wsOrder # [o |-> o, st |-> "Filled"]
                BY <2>3, <3>1, SMTT(30) DEF finish
            <4> QED BY <1>1, <2>4, <3>1, <4>1, Zenon DEF FillIsNeverMissed
        <3> QED BY <2>1, <3>1, Zenon DEF FillIsNeverMissed
    <2> QED BY <2>5, <2>6, <2>7, <2>8, Zenon
<1> QED BY <1>3, <1>4, Zenon DEF OrderReader

(* Nor does the append to doneOrders: the order it is about has left       *)
(* LivingOrders.                                                           *)
LEMMA AccountAppend ==
    ASSUME AccountInv, NEW x \in Orders, AppendDone(x)
    PROVE  (BornIsUnknown /\ BornTasks /\ SentOnce /\ ReadIsSent /\ Accounted /\ FillIsNeverMissed)'
<1>1. /\ TypeOK /\ BornIsUnknown /\ BornTasks /\ SentOnce /\ ReadIsSent
      /\ Accounted /\ FillIsNeverMissed
    BY Zenon DEF AccountInv
<1>2. /\ appending[x] # "no" /\ appending' = [appending EXCEPT ![x] = "no"]
      /\ wsOrder' = wsOrder \/ (wsOrder = Ending(x) /\ wsOrder' = NoFrame)
      /\ UNCHANGED <<status, living, tasks, exch, ws, missed>>
    BY Zenon DEF AppendDone
<1>3. status[x] # "Born" /\ x \notin living
    BY <1>1, <1>2, Zenon DEF BornIsUnknown, Accounted, IsAccounted
<1>4. /\ doneOrders \in [Orders -> Nat] /\ exported \in [Orders -> Nat]
      /\ appending \in [Orders -> {"no", "yes", "swapped"}]
    BY <1>1, Zenon DEF TypeOK, OrderTypeOK
<1>5. /\ \A o \in Orders \ {x} : /\ doneOrders'[o] = doneOrders[o] /\ exported'[o] = exported[o]
                                /\ appending'[o] = appending[o]
      /\ Recorded(x)' = Recorded(x) + 1
    BY <1>2, <1>4 DEF AppendDone, Recorded
<1>6. Recorded(x)' # 0
    BY <1>4, <1>5 DEF Recorded
<1>7. BornIsUnknown' /\ Accounted'
    BY <1>1, <1>2, <1>3, <1>5, <1>6, Zenon DEF BornIsUnknown, Accounted, IsAccounted, Recorded
<1>8. BornTasks' /\ SentOnce' /\ ReadIsSent'
    BY <1>1, <1>2, Zenon DEF BornTasks, SentOnce, ReadIsSent
<1>9. FillIsNeverMissed'
    <2>1. ASSUME NEW o PROVE Ending(x) # [o |-> o, st |-> "Filled"]
        BY DEF Ending
    <2> QED BY <1>1, <1>2, <2>1, Zenon DEF FillIsNeverMissed
<1> QED BY <1>7, <1>8, <1>9, Zenon
-----------------------------------------------------------------------------
(* The strengthened invariant holds of a new dealer and is kept by every   *)
(* step.                                                                   *)
LEMMA AccountInitial == Init => AccountInv
<1> SUFFICES ASSUME Init PROVE AccountInv
    BY Zenon
<1>1. TypeOK
    BY TypeOKInitial, Zenon
<1>2. DOMAIN tasks = {} /\ \A o \in Orders : Own(o, createCallbacks[o]) /\ Own(o, amendCallbacks[o])
    BY OneDomain, Zenon DEF Init, Own
<1> QED BY <1>1, <1>2, Zenon DEF Init, AccountInv, BornIsUnknown, BornTasks, SentOnce, CallbacksAreOwn,
                          ReadIsSent, Accounted, FillIsNeverMissed

(* Every step of the client, the exchange, a batch or a reader keeps the   *)
(* account of the orders.                                                  *)
LEMMA AccountNext == AccountInv /\ [Next]_vars => AccountInv'
<1> SUFFICES ASSUME AccountInv, [Next]_vars PROVE AccountInv'
    BY Zenon
<1>1. TypeOK' /\ CallbacksAreOwn'
    BY TypeOKStep, OwnStep, Zenon DEF AccountInv
<1>2. CASE UNCHANGED vars
    BY <1>1, <1>2, Zenon DEF vars, AccountInv, BornIsUnknown, BornTasks, SentOnce, ReadIsSent,
                      Accounted, IsAccounted, Recorded, FillIsNeverMissed
<1>3. CASE Next
    BY <1>1, <1>3, AccountStep, AccountClient, AccountExchange, AccountBatch, AccountReader,
       AccountAppend, Zenon
       DEF Next, Dealing, AccountInv
<1> QED BY <1>2, <1>3, Zenon

(* The fill of a living order is always still to be handled, unless its    *)
(* frame was lost with the connection: no lookup, late answer, callback,   *)
(* append or export loses it (HandleOrderData).                            *)
THEOREM FillsAreHandled == Spec => []FillIsNeverMissed
<1>1. AccountInv => FillIsNeverMissed
    BY Zenon DEF AccountInv
<1> QED BY <1>1, AccountInitial, AccountNext, PTL DEF Spec
-----------------------------------------------------------------------------
(* An order that is reported as filled, canceled or abandoned is not open. *)

Closed == {"Filled", "Canceled"}

(* The goroutines that can only be there once the exchange has the order   *)
(* of an order that is canceled alone.                                     *)
Reached(t) ==
    \/ t.pc \in {"amendReady", "amendSet", "amendFail", "cancelSet", "cancelUndo", "cancelsFail"}
    \/ t.op \in {"amend", "cancel", "cancels"}
    \/ t.op # "none" /\ t.tag = "ok"

(* What a goroutine has learnt about its order is true and stays so: an    *)
(* answer that it is canceled or does not exist, or that it was accepted.  *)
Truthful(t) ==
    /\ t.op \in {"cancel", "cancels"} /\ t.tag = "ok" => exch[t.o] \in Closed
    /\ CanceledAlone(t.o) /\ Reached(t) => exch[t.o] # "None"
    /\ CanceledAlone(t.o) /\ t.op \in {"amend", "cancel", "cancels"} /\ t.tag = "gone"
          => exch[t.o] \in Closed

(* The same of an order's status and reason.                               *)
TruthfulOrder(o) ==
    /\ CanceledAlone(o) /\ status[o] \in {"Pending", "Amending", "Canceling"} => exch[o] # "None"
    /\ reason[o] \in {"Canceled", "Filled"} => exch[o] \in Closed
    /\ CanceledAlone(o) /\ reason[o] = "Abandoned" => exch[o] \in Closed

(* And of the frames that report a fill.                                   *)
TruthfulFrame(f) == f.st = "Filled" => exch[f.o] = "Filled"

OpenInv ==
    /\ TypeOK /\ CallbacksAreOwn
    /\ \A t \in DOMAIN tasks : Truthful(t)
    /\ \A o \in Orders : TruthfulOrder(o)
    /\ \A i \in DOMAIN ws : TruthfulFrame(ws[i])
    /\ TruthfulFrame(wsOrder)

(* The exchange never takes a final state or the existence of an order     *)
(* back, and nobody else changes it.                                       *)
LEMMA ExchangeIsFinal ==
    ASSUME TypeOK, [Next]_vars, NEW o \in Orders
    PROVE  /\ exch[o] \in Closed => exch'[o] = exch[o]
           /\ exch[o] # "None" => exch'[o] # "None"
<1>1. exch \in [Orders -> {"None", "Open", "Filled", "Canceled"}]
    BY Zenon DEF TypeOK, RunTypeOK
<1>2. CASE UNCHANGED exch
    BY <1>2, Zenon
<1>3. ASSUME NEW t \in Elements(tasks), ExchangeServes(t), ~UNCHANGED exch
      PROVE  /\ exch[o] \in Closed => exch'[o] = exch[o]
             /\ exch[o] # "None" => exch'[o] # "None"
    <2>1. t.o \in Orders
        BY TaskFields, Zenon DEF TypeOK, TasksOK
    <2>2. /\ exch[t.o] \in {"None", "Open"}
          /\ \E x \in {"Open", "Canceled"} : exch' = [exch EXCEPT ![t.o] = x]
        BY <1>3, Zenon DEF ExchangeServes
    <2> QED BY <1>1, <2>1, <2>2 DEF Closed
<1>4. ASSUME NEW x \in Orders, NEW st, NEW after \in {"Open", "Filled", "Canceled"},
             ExchangeReports(x, st, after)
      PROVE  /\ exch[o] \in Closed => exch'[o] = exch[o]
             /\ exch[o] # "None" => exch'[o] # "None"
    BY <1>1, <1>4 DEF ExchangeReports, Closed
<1>5. CASE Exchange
    BY <1>2, <1>3, <1>4, <1>5, Zenon
       DEF Exchange, ExchangeFills, ExchangePartiallyFills, ExchangeCancels
<1>6. CASE Client
    BY <1>2, <1>6, Zenon DEF Client, ExportDoneOrders, SendOrder, CancelOrder, AmendOrder,
       SendOrders, CancelOrders
<1>7. CASE BatchRequest \/ OrderReader \/ UNCHANGED vars \/ \E x \in Orders : AppendDone(x)
    BY <1>2, <1>7, Zenon DEF BatchRequest, OrderReader, WsLookup, HandleOrderData, AppendDone, vars
<1>8. ASSUME NEW t, Step(t) PROVE UNCHANGED exch
    BY <1>8, StepEffect, Zenon
<1> QED BY <1>2, <1>5, <1>6, <1>7, <1>8, Zenon DEF Next, Dealing

(* A goroutine that has not reached the exchange claims nothing.           *)
LEMMA Harmless ==
    ASSUME NEW t, ~Reached(t)
    PROVE  Truthful(t)
BY Zenon DEF Truthful, Reached

(* Nor do the callbacks of an order.                                       *)
LEMMA CallbackHarmless ==
    ASSUME TypeOK, CallbacksAreOwn, NEW o \in Orders
    PROVE  \A u \in DOMAIN createCallbacks[o] \union DOMAIN amendCallbacks[o] : Truthful(u)
<1>1. ASSUME NEW u \in DOMAIN createCallbacks[o] \union DOMAIN amendCallbacks[o]
      PROVE  u \in Task /\ u.pc \in {"cbAmend", "cancelCheck"}
    BY <1>1, Zenon DEF TypeOK, DeferTypeOK, TasksOK, Elements, CallbacksAreOwn, Own
<1>2. ASSUME NEW u \in DOMAIN createCallbacks[o] \union DOMAIN amendCallbacks[o]
      PROVE  ~Reached(u)
    <2>1. u.op = "none"
        BY <1>1, <1>2, TaskFields
    <2> QED BY <1>1, <1>2, <2>1 DEF Reached
<1> QED BY <1>2, Harmless, Zenon

(* The tasks that a goroutine becomes claim only what is true.             *)
LEMMA StepTasksTruthful ==
    ASSUME TypeOK, CallbacksAreOwn, NEW t \in Elements(tasks), Step(t), Truthful(t),
           TruthfulOrder(t.o)
    PROVE  \E next : Becomes(t, next) /\ \A u \in DOMAIN next : Truthful(u)
<1>1. t \in Task /\ t.o \in Orders
    BY TaskFields, Zenon DEF TypeOK, TasksOK
<1>2. CASE Ends(t)
    BY <1>2, OneDomain, Zenon DEF Ends
<1>3. ASSUME NEW u, Becomes(t, One(u)), Truthful(u)
      PROVE  \E next : Becomes(t, next) /\ \A v \in DOMAIN next : Truthful(v)
    <2>1. \A v \in DOMAIN One(u) : Truthful(v)
        <3>1. DOMAIN One(u) = {u}
            BY OneDomain, Zenon
        <3> QED BY <1>3, <3>1, Zenon
    <2> QED BY <1>3, <2>1, Zenon
<1>4. ASSUME NEW u, u.o = t.o, u.tag \in {"none", "locked", "free"},
             CanceledAlone(t.o) => exch[t.o] # "None"
      PROVE  Truthful(u)
    BY <1>4, Zenon DEF Truthful
<1>5. CASE \/ SendFailed(t) \/ DeferSet(t) \/ AmendFailed(t) \/ CancelUndo(t)
           \/ CancelsFailed(t) \/ handleCancelOrderResp(t)
    BY <1>2, <1>5, Zenon DEF SendFailed, DeferSet, AmendFailed, CancelUndo, CancelsFailed,
       handleCancelOrderResp
<1>6. CASE SendLocked(t) \/ BatchMark(t)
    <2>1. \/ Becomes(t, One(Request("create", t.o, NoDetail)))
          \/ \E pc \in {"sendFail", "batchMarked"} : Becomes(t, One(Job(pc, t.o, NoDetail)))
        BY <1>6, Zenon DEF SendLocked, BatchMark
    <2>2. /\ ~Reached(Request("create", t.o, NoDetail))
          /\ \A pc \in {"sendFail", "batchMarked"} : ~Reached(Job(pc, t.o, NoDetail))
        BY DEF Reached, Request, Job
    <2> QED BY <1>3, <2>1, <2>2, Harmless, Zenon
<1>7. CASE AmendLocked(t) \/ AmendLookup(t) \/ CbAmendGet(t) \/ CbAmendDelete(t)
    <2>1. \/ Ends(t)
          \/ \E pc \in {"amendOrder", "deferSet", "amendLock", "cbDelete"} : \E d :
                Becomes(t, One(Job(pc, t.o, d)))
        BY <1>7, Zenon DEF AmendLocked, AmendLookup, CbAmendGet, CbAmendDelete
    <2>2. \A pc \in {"amendOrder", "deferSet", "amendLock", "cbDelete"} : \A d :
             ~Reached(Job(pc, t.o, d))
        BY DEF Reached, Job
    <2> QED BY <1>2, <1>3, <2>1, <2>2, Harmless, Zenon
<1>8. CASE AmendBegin(t) \/ AmendCheck(t) \/ AmendSet(t)
    <2>1. \/ Ends(t)
          \/ \E pc \in {"amendReady", "amendFail", "amendSet"} : \E d : Becomes(t, One(Job(pc, t.o, d)))
          \/ Becomes(t, One(Request("amend", t.o, t.d)))
        BY <1>8, Zenon DEF AmendBegin, AmendCheck, AmendSet
    <2>2. Ends(t) \/ (CanceledAlone(t.o) => exch[t.o] # "None")
        BY <1>8, Zenon DEF AmendBegin, AmendCheck, AmendSet, isNeedToAmend, Truthful, Reached,
           TruthfulOrder
    <2>3. /\ \A pc, d : Job(pc, t.o, d).o = t.o /\ Job(pc, t.o, d).tag = "none"
          /\ Request("amend", t.o, t.d).o = t.o /\ Request("amend", t.o, t.d).tag = "none"
        BY Zenon DEF Job, Request
    <2> QED BY <1>2, <1>3, <1>4, <2>1, <2>2, <2>3, Zenon
<1>9. CASE CancelCheck(t) \/ CancelSet(t)
    <2>1. \/ Ends(t)
          \/ \E pc \in {"cancelSet", "cancelUndo"} : Becomes(t, One(Cancel(pc, t.o, t.tag)))
          \/ Becomes(t, One(Request("cancel", t.o, NoDetail)))
        BY <1>9, Zenon DEF CancelCheck, CancelSet
    <2>2. Ends(t) \/ (CanceledAlone(t.o) => exch[t.o] # "None")
        BY <1>9, Zenon DEF CancelCheck, CancelSet, Truthful, Reached, TruthfulOrder
    <2>3. /\ \A pc, tag : Cancel(pc, t.o, tag).o = t.o /\ Cancel(pc, t.o, tag).op = "none"
          /\ Request("cancel", t.o, NoDetail).o = t.o /\ Request("cancel", t.o, NoDetail).tag = "none"
        BY Zenon DEF Cancel, Request
    <2>4. ASSUME NEW u, u.o = t.o, u.op = "none", CanceledAlone(t.o) => exch[t.o] # "None"
          PROVE  Truthful(u)
        BY <2>4, Zenon DEF Truthful
    <2> QED BY <1>2, <1>3, <1>4, <2>1, <2>2, <2>3, <2>4, Zenon
<1>10. CASE RespLookup(t)
    <2>1. \/ Ends(t)
          \/ t.op \in {"creates", "cancels"} /\ Becomes(t, One(Single(t)))
          \/ Becomes(t, One([t EXCEPT !.pc = "handle"]))
        BY <1>10, Zenon DEF RespLookup
    <2>2. ASSUME t.op \in {"creates", "cancels"} PROVE Truthful(Single(t))
        <3>1. /\ Single(t).o = t.o /\ Single(t).tag = t.tag /\ Single(t).pc = t.pc
              /\ Single(t).op = IF t.op = "creates" THEN "create" ELSE "cancel"
            BY <1>1 DEF Single, Task
        <3> QED BY <2>2, <3>1 DEF Truthful, Reached
    <2>3. Truthful([t EXCEPT !.pc = "handle"])
        <3> DEFINE u == [t EXCEPT !.pc = "handle"]
        <3>1. u.o = t.o /\ u.tag = t.tag /\ u.op = t.op /\ u.pc = "handle"
            BY <1>1 DEF Task
        <3> HIDE DEF u
        <3>2. Truthful(u)
            BY <3>1 DEF Truthful, Reached
        <3> QED BY <3>2 DEF u
    <2> QED BY <1>2, <1>3, <2>1, <2>2, <2>3, Zenon
<1>11. CASE handleSendOrderResp(t) \/ handleAmendOrderResp(t)
    <2>1. Ends(t) \/ Becomes(t, createCallbacks[t.o]) \/ Becomes(t, amendCallbacks[t.o])
        BY <1>11, Zenon DEF handleSendOrderResp, handleAmendOrderResp
    <2> QED BY <1>1, <1>2, <2>1, CallbackHarmless, Zenon
<1> QED BY <1>5, <1>6, <1>7, <1>8, <1>9, <1>10, <1>11, Zenon DEF Step

(* How a goroutine changes the status and the reason of its order: what it *)
(* sets rests on what it has learnt.                                       *)
LEMMA StepChange ==
    ASSUME NEW t, Step(t)
    PROVE  \/ UNCHANGED <<status, reason>>
           \/ \E s : /\ status' = [status EXCEPT ![t.o] = s]
                     /\ UNCHANGED reason
                     /\ Reached(t) \/ s = "Sending"
           \/ \E why : /\ status' = [status EXCEPT ![t.o] = "Done"]
                       /\ reason' = [reason EXCEPT ![t.o] = why]
                       /\ \/ why = "Rejected"
                          \/ /\ why = "Abandoned" /\ t.tag = "gone"
                             /\ t.op \in {"amend", "cancel", "cancels"}
                          \/ /\ why = "Canceled" /\ t.tag = "ok"
                             /\ t.op \in {"cancel", "cancels"}
<1>1. CASE SendLocked(t) \/ BatchMark(t)
    BY <1>1, Zenon DEF SendLocked, BatchMark, markSending
<1>2. CASE \/ AmendLocked(t) \/ DeferSet(t) \/ AmendLookup(t) \/ AmendBegin(t)
           \/ AmendCheck(t) \/ CbAmendGet(t) \/ CbAmendDelete(t) \/ CancelCheck(t)
           \/ RespLookup(t)
    BY <1>2, Zenon DEF AmendLocked, DeferSet, AmendLookup, AmendBegin, AmendCheck, CbAmendGet,
       CbAmendDelete, CancelCheck, RespLookup, orderVars
<1>3. CASE AmendSet(t) \/ CancelSet(t) \/ AmendFailed(t) \/ CancelUndo(t) \/ CancelsFailed(t)
    BY <1>3, Zenon DEF AmendSet, CancelSet, AmendFailed, CancelUndo, CancelsFailed, rejectAmend,
       rejectCancel, Reached
<1>4. CASE SendFailed(t)
    BY <1>4, Zenon DEF SendFailed, rejectCreate, finish
<1>5. CASE handleSendOrderResp(t)
    BY <1>5, Zenon DEF handleSendOrderResp, rejectCreate, acceptCreate, finish, orderVars, Reached
<1>6. CASE handleAmendOrderResp(t)
    BY <1>6, Zenon DEF handleAmendOrderResp, abandonOrder, rejectAmend, acceptAmend, finish, Reached
<1>7. CASE handleCancelOrderResp(t)
    BY <1>7, Zenon DEF handleCancelOrderResp, abandonOrder, rejectCancel, acceptCancel, finish,
       Reached
<1> QED BY <1>1, <1>2, <1>3, <1>4, <1>5, <1>6, <1>7, Zenon DEF Step

(* So what the dealer says of an order stays true over a goroutine's step. *)
LEMMA StepOrdersTruthful ==
    ASSUME TypeOK, NEW t \in Elements(tasks), Step(t), Truthful(t),
           \A o \in Orders : TruthfulOrder(o), NEW o \in Orders
    PROVE  TruthfulOrder(o)'
<1>1. /\ status \in [Orders -> Statuses] /\ reason \in [Orders -> Reasons]
      /\ t.o \in Orders /\ TruthfulOrder(o) /\ UNCHANGED exch
    BY TaskFields, StepEffect, Zenon DEF TypeOK, OrderTypeOK, TasksOK
<1>2. CASE status'[o] = status[o] /\ reason'[o] = reason[o]
    BY <1>1, <1>2, Zenon DEF TruthfulOrder
<1>3. ASSUME NEW s, status' = [status EXCEPT ![t.o] = s], UNCHANGED reason,
             Reached(t) \/ s = "Sending"
      PROVE  TruthfulOrder(o)'
    <2>1. CASE o = t.o
        BY <1>1, <1>3, <2>1, Zenon DEF TruthfulOrder, Truthful
    <2> QED BY <1>1, <1>2, <1>3, <2>1, Zenon
<1>4. ASSUME NEW why,
             status' = [status EXCEPT ![t.o] = "Done"], reason' = [reason EXCEPT ![t.o] = why],
             \/ why = "Rejected"
             \/ why = "Abandoned" /\ t.tag = "gone" /\ t.op \in {"amend", "cancel", "cancels"}
             \/ why = "Canceled" /\ t.tag = "ok" /\ t.op \in {"cancel", "cancels"}
      PROVE  TruthfulOrder(o)'
    <2>1. CASE o = t.o
        BY <1>1, <1>4, <2>1, Zenon DEF TruthfulOrder, Truthful
    <2> QED BY <1>1, <1>2, <1>4, <2>1, Zenon
<1> QED BY <1>2, <1>3, <1>4, StepChange, Zenon

(* What a goroutine or a frame claims stays true, whatever happens.        *)
LEMMA TruthStays ==
    ASSUME TypeOK, [Next]_vars
    PROVE  /\ \A u : u.o \in Orders /\ Truthful(u) => Truthful(u)'
           /\ \A f : f.o \in Orders /\ TruthfulFrame(f) => TruthfulFrame(f)'
<1>1. \A o \in Orders : /\ exch[o] \in Closed => exch'[o] = exch[o]
                        /\ exch[o] # "None" => exch'[o] # "None"
    BY ExchangeIsFinal, Zenon
<1>2. ASSUME NEW u, u.o \in Orders, Truthful(u) PROVE Truthful(u)'
    BY <1>1, <1>2, Zenon DEF Truthful
<1>3. ASSUME NEW f, f.o \in Orders, TruthfulFrame(f) PROVE TruthfulFrame(f)'
    BY <1>1, <1>3, Zenon DEF TruthfulFrame, Closed
<1> QED BY <1>2, <1>3, Zenon

(* Every step of a goroutine keeps the invariant.                          *)
LEMMA OpenStep ==
    ASSUME OpenInv, NEW t \in Elements(tasks), Step(t)
    PROVE  OpenInv'
<1>1. [Next]_vars
    BY Zenon DEF Next, Dealing
<1>2. TypeOK /\ CallbacksAreOwn /\ TypeOK' /\ CallbacksAreOwn'
    BY <1>1, TypeOKStep, OwnStep, Zenon DEF OpenInv
<1>3. UNCHANGED <<exch, ws, wsOrder>>
    BY StepEffect, Zenon DEF wsVars
<1>4. t \in DOMAIN tasks /\ t.o \in Orders /\ Truthful(t) /\ TruthfulOrder(t.o)
    BY TaskFields, Zenon DEF OpenInv, TypeOK, TasksOK, Elements
<1>5. PICK next : Becomes(t, next) /\ \A u \in DOMAIN next : Truthful(u)
    BY <1>2, <1>4, StepTasksTruthful, Zenon
<1>6. ASSUME NEW u \in DOMAIN tasks' PROVE Truthful(u)'
    <2>1. Truthful(u)
        BY <1>5, <1>6, BecomesDomain, Zenon DEF OpenInv
    <2> QED BY <1>3, <2>1, Zenon DEF Truthful
<1>7. \A o \in Orders : TruthfulOrder(o)'
    BY <1>2, <1>4, StepOrdersTruthful, Zenon DEF OpenInv
<1>8. (\A i \in DOMAIN ws : TruthfulFrame(ws[i]))' /\ TruthfulFrame(wsOrder)'
    BY <1>3, Zenon DEF OpenInv, TruthfulFrame
<1> QED BY <1>2, <1>6, <1>7, <1>8, Zenon DEF OpenInv

(* Nor does a client call break it: what it starts has not reached the     *)
(* exchange, but for the cancels of orders that are Pending.               *)
LEMMA OpenClient ==
    ASSUME OpenInv, Client
    PROVE  OpenInv'
<1>1. [Next]_vars
    BY Zenon DEF Next
<1>2. TypeOK /\ TypeOK' /\ CallbacksAreOwn' /\ \A o \in Orders : TruthfulOrder(o)
    BY <1>1, TypeOKStep, OwnStep, Zenon DEF OpenInv
<1>3. UNCHANGED <<exch, ws, wsOrder, reason>>
    BY Zenon DEF Client, ExportDoneOrders, SendOrder, CancelOrder, AmendOrder, SendOrders,
       CancelOrders, wsVars, orderVars
<1>4. (\A i \in DOMAIN ws : TruthfulFrame(ws[i]))' /\ TruthfulFrame(wsOrder)'
    BY <1>3, Zenon DEF OpenInv, TruthfulFrame
<1>5. ASSUME NEW S, DOMAIN tasks' \subseteq DOMAIN tasks \union S, \A u \in S : Truthful(u),
             \A o \in Orders : TruthfulOrder(o)'
      PROVE  OpenInv'
    <2>1. ASSUME NEW u \in DOMAIN tasks' PROVE Truthful(u)'
        <3>1. Truthful(u)
            BY <1>5, <2>1, Zenon DEF OpenInv
        <3> QED BY <1>3, <3>1, Zenon DEF Truthful
    <2> QED BY <1>2, <1>4, <1>5, <2>1, Zenon DEF OpenInv
<1>6. ASSUME UNCHANGED status PROVE \A o \in Orders : TruthfulOrder(o)'
    BY <1>2, <1>3, <1>6, Zenon DEF TruthfulOrder
<1>7. ASSUME NEW S, tasks' = tasks (+) Each(S), UNCHANGED status, \A u \in S : ~Reached(u)
      PROVE  OpenInv'
    <2>1. DOMAIN tasks' \subseteq DOMAIN tasks \union S
        BY <1>7, Zenon DEF (+), Each
    <2> QED BY <1>5, <1>6, <1>7, <2>1, Harmless, Zenon
<1>8. ASSUME NEW v, tasks' = tasks (+) One(v), UNCHANGED status, ~Reached(v)
      PROVE  OpenInv'
    <2> DEFINE S == {v}
    <2>1. tasks' = tasks (+) Each(S) /\ \A u \in S : ~Reached(u)
        BY <1>8, Zenon DEF One
    <2> HIDE DEF S
    <2> QED BY <1>7, <1>8, <2>1
<1>9. ASSUME UNCHANGED tasks, \A o \in Orders : TruthfulOrder(o)' PROVE OpenInv'
    <2> DEFINE S == {}
    <2>1. DOMAIN tasks' \subseteq DOMAIN tasks \union S /\ \A u \in S : Truthful(u)
        BY <1>9, Zenon
    <2> HIDE DEF S
    <2> QED BY <1>5, <1>9, <2>1
<1>10. ASSUME NEW o \in Orders, SendOrder(o) PROVE OpenInv'
    <2>1. ~Reached(Job("send", o, NoDetail))
        BY DEF Reached, Job
    <2> QED BY <1>8, <1>10, <2>1, Zenon DEF SendOrder, orderVars
<1>11. ASSUME NEW o \in Orders, NEW d \in Details, AmendOrder(o, d) PROVE OpenInv'
    <2>1. ~Reached(Job("amend", o, d))
        BY DEF Reached, Job
    <2> QED BY <1>8, <1>11, <2>1, Zenon DEF AmendOrder, orderVars
<1>12. ASSUME NEW B \in Batches, SendOrders(B) PROVE OpenInv'
    <2>1. \A o : ~Reached(Job("batchSend", o, NoDetail))
        BY DEF Reached, Job
    <2> QED BY <1>7, <1>12, <2>1, ZenonT(40) DEF SendOrders, orderVars
<1>13. ASSUME NEW o \in Orders, CancelOrder(o) PROVE OpenInv'
    <2>1. ~Reached(Cancel("cancelCheck", o, "locked"))
        BY DEF Reached, Cancel
    <2>2. UNCHANGED status
        BY <1>13, Zenon DEF CancelOrder, orderVars
    <2>3. CASE UNCHANGED tasks
        BY <1>6, <1>9, <2>2, <2>3, Zenon
    <2>4. CASE tasks' = tasks (+) One(Cancel("cancelCheck", o, "locked"))
        BY <1>8, <2>1, <2>2, <2>4, Zenon
    <2> QED BY <1>13, <2>3, <2>4, Zenon DEF CancelOrder
<1>14. ASSUME NEW B \in Batches, CancelOrders(B) PROVE OpenInv'
    <2> DEFINE targets == {o \in B : status[o] = "Pending"}
               request(o) == Request("cancels", o, NoDetail)
               fail(o) == Job("cancelsFail", o, NoDetail)
    <2>1. B \subseteq Orders
        BY DealerAssumption, Zenon
    <2>2. status' = [o \in Orders |-> IF o \in targets THEN "Canceling" ELSE status[o]]
        BY <1>14, Zenon DEF CancelOrders
    <2>3. \A o \in targets : CanceledAlone(o) => exch[o] # "None"
        BY <1>2, <2>1, Zenon DEF TruthfulOrder
    <2>4. ASSUME targets # {}, NEW o \in B PROVE CanceledAlone(o) => exch[o] # "None"
        BY <2>3, <2>4, Zenon DEF CanceledAlone
    <2>5. ASSUME NEW o \in Orders PROVE TruthfulOrder(o)'
        <3>1. CASE o \in targets
            BY <1>2, <1>3, <2>2, <2>3, <3>1, Zenon DEF TruthfulOrder
        <3>2. CASE o \notin targets
            BY <1>2, <1>3, <2>2, <3>2, Zenon DEF TruthfulOrder
        <3> QED BY <3>1, <3>2, Zenon
    <2>6. ASSUME NEW o, CanceledAlone(o) => exch[o] # "None"
          PROVE  Truthful(request(o)) /\ Truthful(fail(o))
        BY <2>6, Zenon DEF Truthful, Request, Job
    <2>7. \/ UNCHANGED tasks
          \/ tasks' = tasks (+) Each({request(o) : o \in targets})
          \/ targets # {} /\ tasks' = tasks (+) Each({fail(o) : o \in B})
        BY <1>14, Zenon DEF CancelOrders
    <2> HIDE DEF targets, request, fail
    <2>8. CASE UNCHANGED tasks
        BY <1>9, <2>5, <2>8, Zenon
    <2>9. CASE tasks' = tasks (+) Each({request(o) : o \in targets})
        <3>1. DOMAIN tasks' \subseteq DOMAIN tasks \union {request(o) : o \in targets}
            BY <2>9, Zenon DEF (+), Each
        <3>2. \A u \in {request(o) : o \in targets} : Truthful(u)
            BY <2>3, <2>6, Zenon
        <3> QED BY <1>5, <2>5, <3>1, <3>2, Zenon
    <2>10. CASE targets # {} /\ tasks' = tasks (+) Each({fail(o) : o \in B})
        <3>1. DOMAIN tasks' \subseteq DOMAIN tasks \union {fail(o) : o \in B}
            BY <2>10, Zenon DEF (+), Each
        <3>2. \A u \in {fail(o) : o \in B} : Truthful(u)
            BY <2>4, <2>6, <2>10, Zenon
        <3> QED BY <1>5, <2>5, <3>1, <3>2, Zenon
    <2> QED BY <2>7, <2>8, <2>9, <2>10, Zenon
<1>15. CASE ExportDoneOrders
    BY <1>6, <1>9, <1>15, Zenon DEF ExportDoneOrders
<1> QED BY <1>10, <1>11, <1>12, <1>13, <1>14, <1>15, Zenon DEF Client

(* The request of a batch starts creates that the exchange has not seen.   *)
LEMMA OpenBatch ==
    ASSUME OpenInv, BatchRequest
    PROVE  OpenInv'
<1> DEFINE create(o) == Request("creates", o, NoDetail)
           fail(o) == Job("sendFail", o, NoDetail)
           marked == {Job("batchMarked", o, NoDetail) : o \in sendBatch}
<1>1. [Next]_vars
    BY Zenon DEF Next, Dealing
<1>2. TypeOK /\ TypeOK' /\ CallbacksAreOwn' /\ \A o \in Orders : TruthfulOrder(o)
    BY <1>1, TypeOKStep, OwnStep, Zenon DEF OpenInv
<1>3. UNCHANGED <<exch, ws, wsOrder, reason, status>>
    BY Zenon DEF BatchRequest, wsVars, orderVars
<1>4. \A o : ~Reached(create(o)) /\ ~Reached(fail(o))
    BY DEF Reached, Request, Job
<1>5. \/ tasks' = Less(tasks, marked) (+) Each({create(o) : o \in sendBatch})
      \/ tasks' = Less(tasks, marked) (+) Each({fail(o) : o \in sendBatch})
    BY Zenon DEF BatchRequest
<1> HIDE DEF create, fail, marked
<1>6. ASSUME NEW u \in DOMAIN tasks', u \notin DOMAIN tasks
      PROVE  \E o : u = create(o) \/ u = fail(o)
    <2>1. ASSUME NEW S, tasks' = Less(tasks, marked) (+) Each(S) PROVE u \in S
        BY <1>6, <2>1, Zenon DEF (+), Less, Each
    <2>2. u \in {create(o) : o \in sendBatch} \/ u \in {fail(o) : o \in sendBatch}
        BY <1>5, <2>1, Zenon
    <2> QED BY <2>2, Zenon
<1>7. ASSUME NEW u \in DOMAIN tasks' PROVE Truthful(u)'
    <2>1. Truthful(u)
        BY <1>4, <1>6, <1>7, Harmless, Zenon DEF OpenInv
    <2> QED BY <1>3, <2>1, Zenon DEF Truthful
<1>8. (\A o \in Orders : TruthfulOrder(o))'
    BY <1>2, <1>3, Zenon DEF TruthfulOrder
<1>9. (\A i \in DOMAIN ws : TruthfulFrame(ws[i]))' /\ TruthfulFrame(wsOrder)'
    BY <1>3, Zenon DEF OpenInv, TruthfulFrame
<1> QED BY <1>2, <1>7, <1>8, <1>9, Zenon DEF OpenInv

(* The exchange answers truthfully: it accepts what was not there, finds   *)
(* what is open, and reports a fill once the order is filled.              *)
LEMMA OpenExchange ==
    ASSUME OpenInv, Exchange
    PROVE  OpenInv'
<1>1. [Next]_vars
    BY Zenon DEF Next
<1>2. TypeOK /\ TypeOK' /\ CallbacksAreOwn' /\ \A o \in Orders : TruthfulOrder(o)
    BY <1>1, TypeOKStep, OwnStep, Zenon DEF OpenInv
<1>3. /\ \A u : u.o \in Orders /\ Truthful(u) => Truthful(u)'
      /\ \A f : f.o \in Orders /\ TruthfulFrame(f) => TruthfulFrame(f)'
    BY <1>1, <1>2, TruthStays, Zenon
<1>4. /\ exch \in [Orders -> {"None", "Open", "Filled", "Canceled"}] /\ ws \in Seq(Frames)
      /\ \A u \in DOMAIN tasks : u \in Task /\ u.o \in Orders /\ Truthful(u)
    BY <1>2, TaskFields, Zenon DEF OpenInv, TypeOK, RunTypeOK, TasksOK, Elements
<1>5. UNCHANGED <<status, reason, wsOrder>>
    BY Zenon DEF Exchange, ExchangeServes, ExchangeFills, ExchangePartiallyFills, ExchangeCancels,
       ExchangeReports, orderVars, wsVars
<1>6. ASSUME NEW o \in Orders PROVE TruthfulOrder(o)'
    <2>1. /\ exch[o] \in Closed => exch'[o] = exch[o]
          /\ exch[o] # "None" => exch'[o] # "None"
        BY <1>1, <1>2, ExchangeIsFinal, Zenon
    <2> QED BY <1>2, <1>5, <2>1, Zenon DEF TruthfulOrder
<1>7. TruthfulFrame(wsOrder)'
    <2>1. CASE wsOrder = NoFrame
        BY <1>5, <2>1 DEF TruthfulFrame, NoFrame
    <2>2. CASE wsOrder # NoFrame
        <3>1. wsOrder.o \in Orders
            BY <1>2, <2>2, ReadOrder, Zenon
        <3>2. TruthfulFrame(wsOrder)
            BY Zenon DEF OpenInv
        <3>3. ASSUME NEW f, f = wsOrder PROVE TruthfulFrame(f)'
            BY <1>3, <3>1, <3>2, <3>3, Zenon
        <3> QED BY <1>5, <3>3, Zenon
    <2> QED BY <2>1, <2>2, Zenon
<1>8. ASSUME NEW i \in DOMAIN ws PROVE ws[i].o \in Orders /\ TruthfulFrame(ws[i])
    <2>1. ws[i] \in Frames
        BY <1>4, <1>8
    <2>2. ws[i].o \in Orders
        BY <2>1 DEF Frames
    <2> QED BY <1>8, <2>2, Zenon DEF OpenInv
<1>9. ASSUME NEW t \in Elements(tasks), ExchangeServes(t) PROVE OpenInv'
    <2>1. t \in DOMAIN tasks /\ t \in Task /\ t.o \in Orders /\ Truthful(t) /\ t.pc = "req"
        BY <1>4, <1>9, Zenon DEF ExchangeServes, Elements
    <2>2. UNCHANGED ws
        BY <1>9, Zenon DEF ExchangeServes, wsVars
    <2>3. PICK tag : /\ Becomes(t, One(Answer(t, tag)))
                     /\ tag = "ok" => /\ exch'[t.o] # "None"
                                      /\ t.op \in {"cancel", "cancels"} => exch'[t.o] = "Canceled"
                     /\ tag = "gone" /\ t.op \in {"amend", "cancel", "cancels"}
                           => exch[t.o] # "Open" /\ UNCHANGED exch
        BY <1>4, <1>9, <2>1 DEF ExchangeServes, Errors
    <2> DEFINE a == Answer(t, tag)
    <2>4. a.o = t.o /\ a.op = t.op /\ a.tag = tag /\ a.pc = "resp"
        BY <2>1 DEF Answer, Task
    <2>5. DOMAIN tasks' \subseteq DOMAIN tasks \union {a}
        BY <2>3, BecomesDomain, OneDomain, Zenon
    <2> HIDE DEF a
    <2>6. CanceledAlone(t.o) /\ t.op \in {"amend", "cancel", "cancels"} => exch[t.o] # "None"
        BY <2>1, Zenon DEF Truthful, Reached
    <2>7. exch[t.o] # "None" => exch'[t.o] # "None"
        BY <1>1, <1>2, <2>1, ExchangeIsFinal, Zenon
    <2>8. exch[t.o] \in {"None", "Open", "Filled", "Canceled"}
        BY <1>4, <2>1, Zenon
    <2>9. /\ a.op \in {"cancel", "cancels"} /\ a.tag = "ok" => exch'[a.o] \in Closed
          /\ CanceledAlone(a.o) /\ Reached(a) => exch'[a.o] # "None"
        BY <2>3, <2>4, <2>6, <2>7 DEF Reached, Closed
    <2>10. CanceledAlone(a.o) /\ a.op \in {"amend", "cancel", "cancels"} /\ a.tag = "gone"
               => exch'[a.o] \in Closed
        BY <2>3, <2>4, <2>6, <2>8 DEF Closed
    <2>11. Truthful(a)'
        BY <2>9, <2>10, Zenon DEF Truthful
    <2>12. \A u \in DOMAIN tasks' : Truthful(u)'
        BY <1>3, <1>4, <2>5, <2>11, Zenon
    <2>13. \A i \in DOMAIN ws' : TruthfulFrame(ws[i])'
        <3>1. ASSUME NEW i \in DOMAIN ws, NEW f, f = ws[i] PROVE TruthfulFrame(f)'
            BY <1>3, <1>8, <3>1, Zenon
        <3> QED BY <2>2, <3>1, Zenon
    <2> QED BY <1>2, <1>6, <1>7, <2>12, <2>13, Zenon DEF OpenInv
<1>10. ASSUME NEW o \in Orders, NEW st, NEW after, ExchangeReports(o, st, after),
              st = "Filled" => after = "Filled"
       PROVE  OpenInv'
    <2>1. /\ UNCHANGED tasks /\ exch' = [exch EXCEPT ![o] = after]
          /\ ws' = Append(ws, [o |-> o, st |-> st]) \/ UNCHANGED ws
        BY <1>10, Zenon DEF ExchangeReports
    <2>2. \A u \in DOMAIN tasks' : Truthful(u)'
        BY <1>3, <1>4, <2>1, Zenon
    <2>3. ASSUME NEW i \in DOMAIN ws' PROVE TruthfulFrame(ws[i])'
        <3>1. (i \in DOMAIN ws /\ ws'[i] = ws[i]) \/ ws'[i] = [o |-> o, st |-> st]
            BY <1>4, <2>1, <2>3
        <3>2. CASE i \in DOMAIN ws /\ ws'[i] = ws[i]
            <4>1. ASSUME NEW f, f = ws[i] PROVE TruthfulFrame(f)'
                BY <1>3, <1>8, <3>2, <4>1, Zenon
            <4>2. ASSUME NEW f, f = ws'[i] PROVE TruthfulFrame(f)'
                BY <3>2, <4>1, <4>2, Zenon
            <4> QED BY <4>2, Zenon
        <3>3. CASE ws'[i] = [o |-> o, st |-> st]
            BY <1>4, <1>10, <2>1, <3>3 DEF TruthfulFrame
        <3> QED BY <3>1, <3>2, <3>3, Zenon
    <2> QED BY <1>2, <1>6, <1>7, <2>2, <2>3, Zenon DEF OpenInv
<1> QED BY <1>9, <1>10, Zenon DEF Exchange, ExchangeFills, ExchangePartiallyFills, ExchangeCancels

(* The websocket reader ends an order as Filled only on a frame that says  *)
(* so.                                                                     *)
LEMMA OpenReader ==
    ASSUME OpenInv, OrderReader
    PROVE  OpenInv'
<1>1. [Next]_vars
    BY Zenon DEF Next
<1>2. TypeOK /\ TypeOK' /\ CallbacksAreOwn' /\ \A o \in Orders : TruthfulOrder(o)
    BY <1>1, TypeOKStep, OwnStep, Zenon DEF OpenInv
<1>3. UNCHANGED <<exch, tasks>>
    BY Zenon DEF OrderReader, WsLookup, HandleOrderData
<1>4. (\A u \in DOMAIN tasks : Truthful(u))'
    BY <1>3, Zenon DEF OpenInv, Truthful
<1>5. ws \in Seq(Frames) /\ \A i \in DOMAIN ws : TruthfulFrame(ws[i])
    BY Zenon DEF OpenInv, TypeOK, RunTypeOK
<1>6. CASE WsLookup
    <2>1. /\ ws # <<>> /\ ws' = Tail(ws) /\ wsOrder' \in {Head(ws), NoFrame}
          /\ UNCHANGED <<status, reason>>
        BY <1>6, Zenon DEF WsLookup, orderVars
    <2>2. /\ \A i \in DOMAIN ws' : \E j \in DOMAIN ws : ws'[i] = ws[j]
          /\ \E j \in DOMAIN ws : Head(ws) = ws[j]
        BY <1>5, <2>1
    <2>3. (\A i \in DOMAIN ws : TruthfulFrame(ws[i]))'
        BY <1>3, <1>5, <2>2, Zenon DEF TruthfulFrame
    <2>4. TruthfulFrame(wsOrder)'
        BY <1>3, <1>5, <2>1, <2>2 DEF TruthfulFrame, NoFrame
    <2>5. (\A o \in Orders : TruthfulOrder(o))'
        BY <1>2, <1>3, <2>1, Zenon DEF TruthfulOrder
    <2> QED BY <1>2, <1>4, <2>3, <2>4, <2>5, Zenon DEF OpenInv
<1>7. CASE HandleOrderData
    <2>1. /\ wsOrder' \in {NoFrame, Ending(wsOrder.o)} /\ UNCHANGED ws
          /\ wsOrder.o \in Orders
        BY <1>2, <1>7, ReadOrder, Zenon DEF HandleOrderData
    <2>2. (\A i \in DOMAIN ws : TruthfulFrame(ws[i]))' /\ TruthfulFrame(wsOrder)'
        BY <1>3, <1>5, <2>1 DEF TruthfulFrame, NoFrame, Ending
    <2>3. \/ wsOrder.st = "Filled" /\ finish(wsOrder.o, "Filled")
          \/ finish(wsOrder.o, "PartiallyFilledAndCanceled")
          \/ UNCHANGED <<status, reason>>
        BY <1>7, Zenon DEF HandleOrderData, acceptFilled, acceptPartiallyFilled, orderVars
    <2>4. wsOrder.st = "Filled" => exch[wsOrder.o] = "Filled"
        BY Zenon DEF OpenInv, TruthfulFrame
    <2>5. status \in [Orders -> Statuses] /\ reason \in [Orders -> Reasons]
        BY <1>2, Zenon DEF TypeOK, OrderTypeOK
    <2>6. ASSUME NEW o \in Orders PROVE TruthfulOrder(o)'
        <3>1. CASE status'[o] = status[o] /\ reason'[o] = reason[o]
            BY <1>2, <1>3, <3>1, Zenon DEF TruthfulOrder
        <3>2. CASE /\ status'[o] = "Done"
                   /\ \/ reason'[o] = "Filled" /\ exch[o] = "Filled"
                      \/ reason'[o] = "PartiallyFilledAndCanceled"
            BY <1>3, <3>2 DEF TruthfulOrder, Closed
        <3> QED BY <2>1, <2>3, <2>4, <2>5, <3>1, <3>2, Zenon DEF finish
    <2> QED BY <1>2, <1>4, <2>2, <2>6, Zenon DEF OpenInv
<1> QED BY <1>6, <1>7, Zenon DEF OrderReader

(* The append to doneOrders changes nothing of it.                         *)
LEMMA OpenAppend ==
    ASSUME OpenInv, NEW x \in Orders, AppendDone(x)
    PROVE  OpenInv'
<1>1. [Next]_vars
    BY Zenon DEF Next, Dealing
<1>2. TypeOK' /\ CallbacksAreOwn'
    BY <1>1, TypeOKStep, OwnStep, Zenon DEF OpenInv
<1>3. UNCHANGED <<exch, tasks, status, reason, ws>> /\ wsOrder' \in {NoFrame, wsOrder}
    BY Zenon DEF AppendDone
<1>4. TruthfulFrame(wsOrder)'
    <2>1. CASE wsOrder' = NoFrame
        BY <2>1 DEF TruthfulFrame, NoFrame
    <2>2. CASE wsOrder' = wsOrder
        BY <1>3, <2>2, Zenon DEF OpenInv, TruthfulFrame
    <2> QED BY <1>3, <2>1, <2>2, Zenon
<1> QED BY <1>2, <1>3, <1>4, Zenon DEF OpenInv, Truthful, TruthfulOrder, TruthfulFrame

(* The invariant holds of a new dealer and is kept by every step.          *)
LEMMA OpenInitial == Init => OpenInv
<1> SUFFICES ASSUME Init PROVE OpenInv
    BY Zenon
<1>1. TypeOK /\ CallbacksAreOwn
    BY AccountInitial, Zenon DEF AccountInv
<1>2. DOMAIN tasks = {}
    BY OneDomain, Zenon DEF Init
<1>3. DOMAIN ws = {}
    BY DEF Init
<1>4. TruthfulFrame(wsOrder)
    BY DEF Init, TruthfulFrame, NoFrame
<1>5. \A o \in Orders : TruthfulOrder(o)
    BY DEF Init, TruthfulOrder
<1> QED BY <1>1, <1>2, <1>3, <1>4, <1>5, Zenon DEF OpenInv

(* Every step keeps it.                                                    *)
LEMMA OpenNext == OpenInv /\ [Next]_vars => OpenInv'
<1> SUFFICES ASSUME OpenInv, [Next]_vars PROVE OpenInv'
    BY Zenon
<1>1. CASE UNCHANGED vars
    <2>1. TypeOK' /\ CallbacksAreOwn'
        BY TypeOKStep, OwnStep, Zenon DEF OpenInv
    <2>2. UNCHANGED <<exch, tasks, status, reason, ws, wsOrder>>
        BY <1>1, Zenon DEF vars
    <2> QED BY <2>1, <2>2, Zenon DEF OpenInv, Truthful, TruthfulOrder, TruthfulFrame
<1> QED BY <1>1, OpenStep, OpenClient, OpenBatch, OpenExchange, OpenReader, OpenAppend, Zenon
    DEF Next, Dealing

(* An order that the dealer reports as canceled or filled, or as abandoned *)
(* when it is canceled alone, is not open at the exchange, whatever the    *)
(* order of answers, fills, amends and cancels (handleCancelOrderResp,     *)
(* handleAmendOrderResp, HandleOrderData).                                 *)
THEOREM DoneStaysClosed == Spec => []DoneIsNotOpen
<1>1. OpenInv => DoneIsNotOpen
    BY Zenon DEF OpenInv, TruthfulOrder, DoneIsNotOpen, Closed
<1> QED BY <1>1, OpenInitial, OpenNext, PTL DEF Spec
-----------------------------------------------------------------------------
(* Once no goroutine can end an order any more, its entry is final. *)

Kept(o) ==
    Settled(o)' /\ reason'[o] = reason[o] /\ Recorded(o)' = Recorded(o)

(* A goroutine of an order that has left LivingOrders ends it only from    *)
(* EndingSteps, and reaches none of them from another step: a late answer  *)
(* finds no order.                                                         *)
LEMMA StepLeaves ==
    ASSUME NEW t \in Task, Step(t), t.pc \notin EndingSteps, t.o \notin living
    PROVE  /\ UNCHANGED <<living, appending, reason>>
           /\ status' = status \/ \E s \in Statuses \ {"Born"} : status' = [status EXCEPT ![t.o] = s]
           /\ \E next : Becomes(t, next) /\ \A u \in DOMAIN next : u.pc \notin EndingSteps
<1>1. ASSUME Ends(t)
      PROVE  \E next : Becomes(t, next) /\ \A v \in DOMAIN next : v.pc \notin EndingSteps
    BY <1>1, OneDomain, Zenon DEF Ends
<1>2. ASSUME NEW u, Becomes(t, One(u)), u.pc \notin EndingSteps
      PROVE  \E next : Becomes(t, next) /\ \A v \in DOMAIN next : v.pc \notin EndingSteps
    <2>1. \A v \in DOMAIN One(u) : v.pc \notin EndingSteps
        <3>1. DOMAIN One(u) = {u}
            BY OneDomain, Zenon
        <3> QED BY <1>2, <3>1, Zenon
    <2> QED BY <1>2, <2>1, Zenon
<1>3. /\ \A pc, d : Job(pc, t.o, d).pc = pc
      /\ \A pc, tag : Cancel(pc, t.o, tag).pc = pc
      /\ \A op, d : Request(op, t.o, d).pc = "req"
    BY Zenon DEF Job, Cancel, Request
<1>4. CASE \/ DeferSet(t) \/ AmendFailed(t) \/ CancelUndo(t) \/ CancelsFailed(t) \/ RespLookup(t)
    <2>1. Ends(t)
        BY <1>4, Zenon DEF DeferSet, AmendFailed, CancelUndo, CancelsFailed, RespLookup
    <2>2. /\ UNCHANGED <<living, appending, reason>>
          /\ status' = status \/ status' = [status EXCEPT ![t.o] = "Pending"]
        BY <1>4, Zenon DEF DeferSet, AmendFailed, CancelUndo, CancelsFailed, RespLookup, rejectAmend,
           rejectCancel, orderVars
    <2> QED BY <1>1, <2>1, <2>2, Zenon DEF Statuses
<1>5. CASE \/ AmendLocked(t) \/ AmendLookup(t) \/ AmendBegin(t) \/ AmendCheck(t)
           \/ CbAmendGet(t) \/ CbAmendDelete(t) \/ CancelCheck(t)
    <2>1. UNCHANGED <<living, appending, reason, status>>
        BY <1>5, Zenon DEF AmendLocked, AmendLookup, AmendBegin, AmendCheck, CbAmendGet,
           CbAmendDelete, CancelCheck, orderVars
    <2>2. \/ Ends(t)
          \/ \E pc \in {"amendOrder", "deferSet", "amendLock", "amendReady", "amendFail", "amendSet",
                         "cbDelete"} : \E d : Becomes(t, One(Job(pc, t.o, d)))
          \/ Becomes(t, One(Cancel("cancelSet", t.o, t.tag)))
        BY <1>5, Zenon DEF AmendLocked, AmendLookup, AmendBegin, AmendCheck, CbAmendGet,
           CbAmendDelete, CancelCheck
    <2>3. /\ \A pc \in {"amendOrder", "deferSet", "amendLock", "amendReady", "amendFail", "amendSet",
                        "cbDelete"} : \A d : Job(pc, t.o, d).pc \notin EndingSteps
          /\ Cancel("cancelSet", t.o, t.tag).pc \notin EndingSteps
        BY <1>3 DEF EndingSteps
    <2>4. \E next : Becomes(t, next) /\ \A v \in DOMAIN next : v.pc \notin EndingSteps
        BY <1>1, <1>2, <2>2, <2>3, Zenon
    <2> QED BY <2>1, <2>4, Zenon
<1>6. CASE AmendSet(t) \/ CancelSet(t)
    <2>1. /\ UNCHANGED <<living, appending, reason>>
          /\ \E s \in Statuses \ {"Born"} : status' = [status EXCEPT ![t.o] = s]
        BY <1>6, Zenon DEF AmendSet, CancelSet, Statuses
    <2>2. \/ Becomes(t, One(Job("amendFail", t.o, NoDetail)))
          \/ \E op, d : Becomes(t, One(Request(op, t.o, d)))
          \/ Becomes(t, One(Cancel("cancelUndo", t.o, t.tag)))
        BY <1>6, Zenon DEF AmendSet, CancelSet
    <2>3. /\ Job("amendFail", t.o, NoDetail).pc \notin EndingSteps
          /\ Cancel("cancelUndo", t.o, t.tag).pc \notin EndingSteps
          /\ \A op, d : Request(op, t.o, d).pc \notin EndingSteps
        BY <1>3 DEF EndingSteps
    <2>4. \E next : Becomes(t, next) /\ \A v \in DOMAIN next : v.pc \notin EndingSteps
        BY <1>2, <2>2, <2>3, Zenon
    <2> QED BY <2>1, <2>4, Zenon
<1> QED BY <1>4, <1>5, <1>6, Zenon DEF Step, EndingSteps, SendLocked, SendFailed, BatchMark,
    handleSendOrderResp, handleAmendOrderResp, handleCancelOrderResp

(* No goroutine ends an order that is settled.                             *)
LEMMA SettledStep ==
    ASSUME AccountInv, NEW t \in Elements(tasks), Step(t), NEW o \in Orders, Settled(o)
    PROVE  Kept(o)
<1>1. /\ TypeOK /\ CallbacksAreOwn /\ t \in DOMAIN tasks /\ t \in Task /\ t.o \in Orders
      /\ status \in [Orders -> Statuses] /\ reason \in [Orders -> Reasons]
      /\ appending \in [Orders -> {"no", "yes", "swapped"}]
    BY TaskFields, Zenon DEF AccountInv, TypeOK, OrderTypeOK, TasksOK, Elements
<1>2. Effect(t) /\ UNCHANGED <<doneOrders, exported, wsOrder>>
    BY StepEffect, Zenon DEF wsVars, doneVars
<1>3. CASE t.o = o
    <2>1. t.pc \notin EndingSteps /\ t.o \notin living
        BY <1>1, <1>3, Zenon DEF Settled, Elements
    <2>2. PICK next : Becomes(t, next) /\ \A u \in DOMAIN next : u.pc \notin EndingSteps
        BY <1>1, <2>1, StepLeaves, Zenon
    <2>3. UNCHANGED <<living, appending, reason>> /\ status'[o] # "Born"
        BY <1>1, <2>1, StepLeaves, Zenon DEF Settled
    <2>4. \A u \in DOMAIN tasks' : u.o = o => u.pc \notin EndingSteps
        BY <2>2, BecomesDomain, Zenon DEF Settled, Elements
    <2> QED BY <1>2, <2>3, <2>4, Zenon DEF Kept, Settled, Recorded, Elements
<1>4. CASE t.o # o
    <2>1. /\ status'[o] = status[o] /\ appending'[o] = appending[o]
          /\ o \in living' <=> o \in living
        BY <1>1, <1>2, <1>4, Zenon DEF Effect, markSending, finish
    <2>2. reason'[o] = reason[o]
        <3>1. UNCHANGED reason \/ \E why : reason' = [reason EXCEPT ![t.o] = why]
            BY StepChange, Zenon
        <3> QED BY <1>1, <1>4, <3>1, Zenon
    <2>3. PICK next : Becomes(t, next) /\ Follows(t, next)
        BY <1>1, StepFollows, Zenon
    <2>4. \A u \in DOMAIN tasks' : u.o = o => u.pc \notin EndingSteps
        BY <1>4, <2>3, BecomesDomain, Zenon DEF Settled, Elements, Follows
    <2> QED BY <1>2, <2>1, <2>2, <2>4, Zenon DEF Kept, Settled, Recorded, Elements
<1> QED BY <1>3, <1>4, Zenon

(* A goroutine that is started is the only new one.                        *)
LEMMA SpawnedOne ==
    ASSUME NEW u, tasks' = tasks (+) One(u)
    PROVE  DOMAIN tasks' = DOMAIN tasks \union {u}
BY Zenon DEF (+), One, Each

(* Nor does a client call, a batch request, the exchange, the websocket    *)
(* reader or an append.                                                    *)
LEMMA SettledOthers ==
    ASSUME AccountInv, Client \/ Exchange \/ BatchRequest \/ OrderReader \/ (\E x \in Orders : AppendDone(x)),
           NEW o \in Orders, Settled(o)
    PROVE  Kept(o)
<1>1. /\ TypeOK /\ status \in [Orders -> Statuses] /\ reason \in [Orders -> Reasons]
      /\ living \subseteq Orders /\ appending \in [Orders -> {"no", "yes", "swapped"}]
      /\ doneOrders \in [Orders -> Nat] /\ exported \in [Orders -> Nat]
      /\ \A u \in DOMAIN tasks : u \in Task
    BY Zenon DEF AccountInv, TypeOK, OrderTypeOK, TasksOK, Elements
<1>2. /\ status[o] # "Born" /\ o \notin living /\ appending[o] = "no"
      /\ wsOrder = NoFrame \/ wsOrder.o # o
      /\ \A t \in DOMAIN tasks : t.o = o => t.pc \notin EndingSteps
    BY Zenon DEF Settled, Elements
<1>3. ASSUME UNCHANGED <<orderVars, doneVars, wsOrder>>,
             \A u \in DOMAIN tasks' : u.o = o => u \in DOMAIN tasks \/ u.pc \notin EndingSteps
      PROVE  Kept(o)
    BY <1>2, <1>3, Zenon DEF Kept, Settled, Recorded, Elements, orderVars, doneVars
<1>4. ASSUME NEW x \in Orders, SendOrder(x) PROVE Kept(o)
    <2>1. x # o
        BY <1>2, <1>4, Zenon DEF SendOrder, Unsent
    <2>2. DOMAIN tasks' = DOMAIN tasks \union {Job("send", x, NoDetail)}
        BY <1>4, SpawnedOne, Zenon DEF SendOrder
    <2>3. Job("send", x, NoDetail).o = x
        BY Zenon DEF Job
    <2> QED BY <1>3, <1>4, <2>1, <2>2, <2>3, Zenon DEF SendOrder, wsVars
<1>5. ASSUME NEW x \in Orders, NEW d, AmendOrder(x, d) PROVE Kept(o)
    <2>1. DOMAIN tasks' = DOMAIN tasks \union {Job("amend", x, d)}
        BY <1>5, SpawnedOne, Zenon DEF AmendOrder
    <2>2. Job("amend", x, d).pc \notin EndingSteps
        BY Zenon DEF Job, EndingSteps
    <2> QED BY <1>3, <1>5, <2>1, <2>2, Zenon DEF AmendOrder, wsVars
<1>6. ASSUME NEW x \in Orders, CancelOrder(x) PROVE Kept(o)
    <2>1. UNCHANGED tasks \/ DOMAIN tasks' = DOMAIN tasks \union {Cancel("cancelCheck", x, "locked")}
        BY <1>6, SpawnedOne, Zenon DEF CancelOrder
    <2>2. Cancel("cancelCheck", x, "locked").pc \notin EndingSteps
        BY Zenon DEF Cancel, EndingSteps
    <2> QED BY <1>3, <1>6, <2>1, <2>2, Zenon DEF CancelOrder, wsVars
<1>7. ASSUME NEW B \in Batches, SendOrders(B) PROVE Kept(o)
    <2> DEFINE u(b) == Job("batchSend", b, NoDetail)
    <2>1. o \notin B
        BY <1>2, <1>7, Zenon DEF SendOrders, Unsent
    <2>2. \A b : u(b).o = b
        BY Zenon DEF Job
    <2>3. tasks' = tasks (+) Each({u(b) : b \in B})
        BY <1>7, Zenon DEF SendOrders
    <2> HIDE DEF u
    <2>4. DOMAIN tasks' = DOMAIN tasks \union {u(b) : b \in B}
        BY <2>3, SpawnDomain, EachFacts, Zenon
    <2> QED BY <1>3, <1>7, <2>1, <2>2, <2>4, Zenon DEF SendOrders, wsVars
<1>8. ASSUME NEW B \in Batches, CancelOrders(B) PROVE Kept(o)
    <2> DEFINE request(b) == Request("cancels", b, NoDetail)
               fail(b) == Job("cancelsFail", b, NoDetail)
               targets == {b \in B : status[b] = "Pending"}
    <2>1. \A b : request(b).pc \notin EndingSteps /\ fail(b).pc \notin EndingSteps
        BY Zenon DEF Request, Job, EndingSteps
    <2>2. \/ UNCHANGED tasks
          \/ tasks' = tasks (+) Each({request(b) : b \in targets})
          \/ tasks' = tasks (+) Each({fail(b) : b \in B})
        BY <1>8, Zenon DEF CancelOrders
    <2>3. /\ status' = [b \in Orders |-> IF b \in targets THEN "Canceling" ELSE status[b]]
          /\ UNCHANGED <<reason, living, appending, doneOrders, exported, wsOrder>>
        BY <1>8, Zenon DEF CancelOrders, doneVars, wsVars
    <2>4. status'[o] # "Born"
        BY <1>1, <1>2, <2>3, Zenon
    <2> HIDE DEF request, fail, targets
    <2>5. \A v \in DOMAIN tasks' : v \in DOMAIN tasks \/ v.pc \notin EndingSteps
        <3>1. ASSUME NEW S, tasks' = tasks (+) Each(S), \A v \in S : v.pc \notin EndingSteps
              PROVE  \A v \in DOMAIN tasks' : v \in DOMAIN tasks \/ v.pc \notin EndingSteps
            BY <3>1, Zenon DEF (+), Each
        <3>2. /\ \A v \in {request(b) : b \in targets} : v.pc \notin EndingSteps
              /\ \A v \in {fail(b) : b \in B} : v.pc \notin EndingSteps
            BY <2>1, Zenon
        <3> QED BY <2>2, <3>1, <3>2, Zenon
    <2> QED BY <1>2, <2>3, <2>4, <2>5, Zenon DEF Kept, Settled, Recorded, Elements
<1>9. CASE ExportDoneOrders
    <2>1. Recorded(o)' = Recorded(o)
        BY <1>1, <1>9 DEF ExportDoneOrders, Recorded
    <2> QED BY <1>2, <1>9, <2>1, Zenon DEF ExportDoneOrders, Kept, Settled, Elements, wsVars
<1>10. ASSUME NEW t \in Elements(tasks), ExchangeServes(t) PROVE Kept(o)
    <2>1. PICK tag : Becomes(t, One(Answer(t, tag)))
        BY <1>10, Zenon DEF ExchangeServes
    <2>2. DOMAIN tasks' \subseteq DOMAIN tasks \union {Answer(t, tag)}
        BY <2>1, BecomesDomain, OneDomain, Zenon
    <2>3. Answer(t, tag).pc \notin EndingSteps
        BY <1>1, <1>10, Zenon DEF Answer, EndingSteps, Task, Elements
    <2> QED BY <1>3, <1>10, <2>2, <2>3, Zenon DEF ExchangeServes, wsVars
<1>11. ASSUME NEW x, NEW st, NEW after, ExchangeReports(x, st, after) PROVE Kept(o)
    BY <1>3, <1>11, Zenon DEF ExchangeReports
<1>12. CASE BatchRequest
    <2> DEFINE mark(b) == Job("batchMarked", b, NoDetail)
               create(b) == Request("creates", b, NoDetail)
               fail(b) == Job("sendFail", b, NoDetail)
               marked == {mark(b) : b \in sendBatch}
    <2>1. \A b : mark(b).o = b /\ mark(b).pc = "batchMarked" /\ create(b).o = b /\ fail(b).o = b
        BY Zenon DEF Job, Request
    <2>2. /\ marked \subseteq DOMAIN tasks
          /\ \/ tasks' = Less(tasks, marked) (+) Each({create(b) : b \in sendBatch})
             \/ tasks' = Less(tasks, marked) (+) Each({fail(b) : b \in sendBatch})
        BY <1>12, Zenon DEF BatchRequest, Elements
    <2> HIDE DEF mark, create, fail
    <2>3. o \notin sendBatch
        BY <1>2, <2>1, <2>2 DEF EndingSteps
    <2>4. ASSUME NEW S, tasks' = Less(tasks, marked) (+) Each(S), \A v \in S : v.o # o
          PROVE  \A v \in DOMAIN tasks' : v \in DOMAIN tasks \/ v.o # o
        BY <2>4, Zenon DEF Less, (+), Each
    <2>5. \A v \in DOMAIN tasks' : v \in DOMAIN tasks \/ v.o # o
        <3>1. /\ \A v \in {create(b) : b \in sendBatch} : v.o # o
              /\ \A v \in {fail(b) : b \in sendBatch} : v.o # o
            BY <2>1, <2>3, Zenon
        <3> HIDE DEF marked
        <3> QED BY <2>2, <2>4, <3>1, Zenon
    <2> QED BY <1>3, <1>12, <2>5, Zenon DEF BatchRequest, wsVars
<1>13. CASE WsLookup
    <2>1. wsOrder' = NoFrame \/ wsOrder'.o # o
        BY <1>2, <1>13, Zenon DEF WsLookup
    <2> QED BY <1>2, <1>13, <2>1, Zenon DEF WsLookup, Kept, Settled, Recorded, Elements, orderVars, doneVars
<1>14. CASE HandleOrderData
    <2>1. wsOrder.o # o /\ wsOrder.o \in Orders
        BY <1>1, <1>2, <1>14, ReadOrder, Zenon DEF HandleOrderData
    <2>2. UNCHANGED orderVars \/ \E why : finish(wsOrder.o, why)
        BY <1>14, Zenon DEF HandleOrderData, acceptFilled, acceptPartiallyFilled
    <2>3. /\ status'[o] = status[o] /\ reason'[o] = reason[o] /\ appending'[o] = appending[o]
          /\ o \notin living'
        BY <1>1, <1>2, <2>1, <2>2, Zenon DEF finish, orderVars
    <2>4. wsOrder' = NoFrame \/ wsOrder'.o # o
        BY <1>14, <2>1 DEF HandleOrderData, Ending
    <2> QED BY <1>2, <1>14, <2>3, <2>4, Zenon DEF HandleOrderData, Kept, Settled, Recorded, Elements, doneVars
<1>15. ASSUME NEW x \in Orders, AppendDone(x) PROVE Kept(o)
    <2>1. x # o
        BY <1>2, <1>15, Zenon DEF AppendDone
    <2>2. /\ doneOrders'[o] = doneOrders[o] /\ exported'[o] = exported[o]
          /\ appending'[o] = appending[o]
        BY <1>1, <1>15, <2>1, Zenon DEF AppendDone
    <2>3. wsOrder' \in {NoFrame, wsOrder} /\ UNCHANGED <<status, reason, living, tasks>>
        BY <1>15, Zenon DEF AppendDone
    <2> QED BY <1>2, <2>2, <2>3, Zenon DEF Kept, Settled, Recorded, Elements
<1>16. CASE Client
    BY <1>4, <1>5, <1>6, <1>7, <1>8, <1>9, <1>16, Zenon DEF Client
<1>17. CASE Exchange
    BY <1>10, <1>11, <1>17, Zenon
       DEF Exchange, ExchangeFills, ExchangePartiallyFills, ExchangeCancels
<1> QED BY <1>12, <1>13, <1>14, <1>15, <1>16, <1>17, Zenon DEF OrderReader

(* Every order that was sent is living or done, never both and never       *)
(* neither, whatever ends it and whenever the client exports, and once no  *)
(* goroutine can end it any more its entry and its reason are final        *)
(* (finish and AppendDone stand for the accept*, reject* and abandon*      *)
(* handlers of dealing_handlers.go).                                       *)
THEOREM SentStaysAccounted == Spec => SentIsAccounted
<1>1. ASSUME AccountInv, AccountInv', [Next]_vars
      PROVE  [\A o \in Orders :
                 /\ status'[o] # "Born" => IsAccounted(o)'
                 /\ Settled(o) => /\ Settled(o)' /\ reason'[o] = reason[o]
                                  /\ Recorded(o)' = Recorded(o)]_vars
    <2>1. ASSUME NEW o \in Orders PROVE status'[o] # "Born" => IsAccounted(o)'
        BY <1>1, Zenon DEF AccountInv, Accounted
    <2>2. ASSUME Next, NEW o \in Orders, Settled(o) PROVE Kept(o)
        BY <1>1, <2>2, SettledStep, SettledOthers, Zenon DEF Next, Dealing
    <2> QED BY <1>1, <2>1, <2>2, Zenon DEF Kept
<1> QED BY <1>1, AccountInitial, AccountNext, PTL DEF Spec, SentIsAccounted
=============================================================================
