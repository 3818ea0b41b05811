------------------------------- MODULE Agent -------------------------------
(***************************************************************************)
(* The REST side of a gateway: PrivateAPIAgent (agent.go) and its          *)
(* rateLimiter (rate_limiter.go), for CoinEx and for Bybit.  An endpoint   *)
(* takes quota from its group before it builds the request; a goroutine    *)
(* sleeps for a second and gives the quota back.  Time passes in ticks; a  *)
(* sleeping goroutine may wake up late, never early.  The number of a call *)
(* tells apart the goroutines and the requests that calls leave behind.    *)
(* The names of the specification say whose it is: the proofs extend this  *)
(* module together with Channel and Dedup.                                 *)
(* Definitions whose name starts with Bad are faulty variants.             *)
(***************************************************************************)
EXTENDS Naturals, FiniteSets

CONSTANTS
    Orders,     \* orders the dealer passes to the agent
    Limits,     \* capacity of each group of each exchange, per second
    Second,     \* ticks in a second
    MaxCalls    \* bound: calls in a behaviour

Exchanges == {"coinex", "bybit"}

ASSUME AgentAssumption ==
    /\ IsFiniteSet(Orders)
    /\ Limits \in [coinex : [{"order", "cancel"} -> Nat \ {0}],
                   bybit  : [{"create", "amend", "cancel"} -> Nat \ {0}]]
    /\ Second \in Nat \ {0} /\ MaxCalls \in Nat

VARIABLES
    exchange,   \* whose agent it is
    quotas,     \* rateLimiter.quotas
    sleeping,   \* the goroutines that will return quota: call, group, units, ticks left
    recent,     \* history: units let through in the last second and ticks since then
    publicIDs,  \* orders with a public ID
    calls,      \* calls made, refused or not
    requests    \* requests whose handler has not been called

rateVars == <<exchange, quotas, sleeping, recent>>
agentVars == <<exchange, quotas, sleeping, recent, publicIDs, calls, requests>>

Groups == DOMAIN Limits[exchange]
Limit == Limits[exchange]

(* The endpoints that are implemented, and the quota group of each. *)
Group == [coinex |-> [SendOrder |-> "order", SendOrders |-> "order", AmendOrder |-> "order",
                      CancelOrder |-> "cancel", CancelOrders |-> "cancel"],
          bybit  |-> [SendOrder |-> "create", AmendOrder |-> "amend", CancelOrder |-> "cancel"]][exchange]

Endpoints == DOMAIN Group

(* CoinEx addresses an order by the public ID that the answer to its       *)
(* create carries, Bybit by the client's own ID.                           *)
ByPublicID == IF exchange = "coinex" THEN {"CancelOrder", "CancelOrders", "AmendOrder"} ELSE {}
GivesPublicID == exchange = "coinex"

Sleeper == [id : 1 .. calls, g : Groups, n : Nat, left : 0 .. Second]
Spent   == [id : 1 .. calls, g : Groups, n : Nat, age : 0 .. Second - 1]
Request == [id : 1 .. calls, op : Endpoints, orders : SUBSET Orders]

AgentInit ==
    /\ exchange \in Exchanges
    /\ quotas = Limit
    /\ sleeping = {}
    /\ recent = {}
    /\ publicIDs = {}
    /\ calls = 0
    /\ requests = {}
-----------------------------------------------------------------------------
(* rateLimiter. *)

BadConsume(g, n) ==   \* the boundary: one unit too many
    /\ quotas[g] + 1 >= n
    /\ quotas' = [quotas EXCEPT ![g] = IF n > @ THEN 0 ELSE @ - n]
    /\ sleeping' = sleeping \union {[id |-> calls + 1, g |-> g, n |-> n, left |-> Second]}
    /\ recent' = recent \union {[id |-> calls + 1, g |-> g, n |-> n, age |-> 0]}

consume(g, n) ==
    /\ quotas[g] >= n
    /\ quotas' = [quotas EXCEPT ![g] = @ - n]
    /\ sleeping' = sleeping \union {[id |-> calls + 1, g |-> g, n |-> n, left |-> Second]}
    /\ recent' = recent \union {[id |-> calls + 1, g |-> g, n |-> n, age |-> 0]}

BadRefillOne(r) ==   \* one unit, whatever was consumed
    /\ r.left = 0
    /\ quotas' = [quotas EXCEPT ![r.g] = IF @ + 1 >= Limit[r.g] THEN @ ELSE @ + 1]
    /\ sleeping' = sleeping \ {r}
    /\ UNCHANGED <<exchange, recent, publicIDs, calls, requests>>

Refill(r) ==
    /\ r.left = 0
    /\ quotas' = [quotas EXCEPT ![r.g] = IF @ + r.n > Limit[r.g] THEN Limit[r.g] ELSE @ + r.n]
    /\ sleeping' = sleeping \ {r}
    /\ UNCHANGED <<exchange, recent, publicIDs, calls, requests>>

ClockTick ==
    /\ sleeping # {} \/ recent # {}
    /\ sleeping' = {[r EXCEPT !.left = IF @ = 0 THEN 0 ELSE @ - 1] : r \in sleeping}
    /\ recent' = {[r EXCEPT !.age = @ + 1] : r \in {x \in recent : x.age + 1 < Second}}
    /\ UNCHANGED <<exchange, quotas, publicIDs, calls, requests>>
-----------------------------------------------------------------------------
(* The endpoints: consume, build the request (an order without a public ID *)
(* cannot be addressed by it), then a goroutine for the HTTP round trip.   *)
(* The handler is called when the goroutine ends, with or without error.   *)

Call(op, S) ==
    /\ calls < MaxCalls
    /\ calls' = calls + 1
    /\ \/ /\ op \in Endpoints
          /\ consume(Group[op], Cardinality(S))
          /\ IF op \in ByPublicID /\ ~(S \subseteq publicIDs)
             THEN UNCHANGED requests
             ELSE requests' = requests \union {[id |-> calls + 1, op |-> op, orders |-> S]}
       \/ /\ op \in Endpoints => quotas[Group[op]] < Cardinality(S)
          /\ UNCHANGED <<rateVars, requests>>
    /\ UNCHANGED <<exchange, publicIDs>>

SendOrder(o) == Call("SendOrder", {o})
SendOrders(S) == Call("SendOrders", S)
CancelOrder(o) == Call("CancelOrder", {o})
CancelOrders(S) == Call("CancelOrders", S)
AmendOrder(o) == Call("AmendOrder", {o})

(* accepted: the orders of a create that the exchange has taken.           *)
Created(r, accepted) ==
    /\ r.op \in {"SendOrder", "SendOrders"}
    /\ publicIDs' = IF GivesPublicID THEN publicIDs \union accepted ELSE publicIDs
    /\ requests' = requests \ {r}
    /\ UNCHANGED <<rateVars, calls>>

Answered(r) ==
    /\ r.op \in {"CancelOrder", "CancelOrders", "AmendOrder"}
    /\ requests' = requests \ {r}
    /\ UNCHANGED <<rateVars, publicIDs, calls>>
-----------------------------------------------------------------------------
AgentNext ==
    \/ \E o \in Orders : SendOrder(o) \/ CancelOrder(o) \/ AmendOrder(o)
    \/ \E S \in SUBSET Orders \ {{}} : SendOrders(S) \/ CancelOrders(S)
    \/ \E r \in requests :
          Answered(r) \/ \E accepted \in SUBSET r.orders : Created(r, accepted)
    \/ \E r \in sleeping : Refill(r)
    \/ ClockTick

AgentSpec == AgentInit /\ [][AgentNext]_agentVars

(* Time passes and goroutines wake up. *)
AgentFairSpec ==
    /\ AgentSpec
    /\ WF_agentVars(ClockTick)
    /\ WF_agentVars(\E r \in sleeping : Refill(r))
-----------------------------------------------------------------------------
(* Type invariant of the limiter, its goroutines and the requests. *)
AgentTypeOK ==
    /\ exchange \in Exchanges
    /\ quotas \in [Groups -> Nat]
    /\ sleeping \subseteq Sleeper
    /\ recent \subseteq Spent
    /\ publicIDs \subseteq Orders
    /\ calls \in 0 .. MaxCalls
    /\ requests \subseteq Request

(* The units of a group that the records of R stand for. *)
UnitsOf(R, g) == UNION {{r.id} \X (1 .. r.n) : r \in {x \in R : x.g = g}}

(* README: quota is checked before dispatch, against the exchange's limit  *)
(* per second: in no window of one second, wherever it starts, are more    *)
(* units of a group let through than its capacity, whatever the batch      *)
(* sizes and however late the goroutines wake up.                          *)
WindowLimit == \A g \in Groups : Cardinality(UnitsOf(recent, g)) <= Limit[g]

(* Once the calls cease, all the quota comes back (the goroutines started  *)
(* by consume, including those of calls that failed).                      *)
QuotaRecovers == <>[](quotas = Limit)
=============================================================================
