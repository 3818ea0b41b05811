------------------------------ MODULE OpLocks ------------------------------
(***************************************************************************)
(* The operation locks of orders (Order.muOpe in order.go).  WithOpLock    *)
(* runs a section under the lock of one order, WithOpeLocks under those of *)
(* several: it takes them one by one, in the order a Go map is ranged      *)
(* over, which differs from call to call, and releases them in that order. *)
(* The names of the specification say whose it is: the proofs extend this  *)
(* module together with Quote.                                             *)
(* Definitions whose name starts with Bad are faulty variants.             *)
(***************************************************************************)
EXTENDS Naturals, Sequences, FiniteSets

CONSTANTS
    Threads,    \* goroutines that operate on orders
    Orders,
    Batches,    \* sets of orders a section may be run on
    MayBatch,   \* threads that call WithOpeLocks; the others call WithOpLock
    NoThread    \* the owner of a free lock

ASSUME OpLocksAssumption ==
    /\ NoThread \notin Threads
    /\ MayBatch \subseteq Threads
    /\ \A S \in Batches : S \subseteq Orders /\ S # {} /\ IsFiniteSet(S)

VARIABLES
    owner,    \* who holds the muOpe of each order
    pc,       \* where each thread is
    orders,   \* the slice it ranges over (result of Orders.Unique)
    idx       \* the index in that slice, from 1

locksVars == <<owner, pc, orders, idx>>

LocksInit ==
    /\ owner = [o \in Orders |-> NoThread]
    /\ pc = [t \in Threads |-> "idle"]
    /\ orders = [t \in Threads |-> <<>>]
    /\ idx = [t \in Threads |-> 1]

elems(q) == {q[k] : k \in 1 .. Len(q)}

(* Every order of S once; the map that removes duplicates is ranged over   *)
(* in any order.                                                           *)
Unique(S) ==
    {q \in [1 .. Cardinality(S) -> S] :
        /\ \A k, l \in 1 .. Cardinality(S) : q[k] = q[l] => k = l
        /\ elems(q) = S}

begin(t, q) ==
    /\ pc[t] = "idle"
    /\ pc' = [pc EXCEPT ![t] = "lock"]
    /\ orders' = [orders EXCEPT ![t] = q]
    /\ idx' = [idx EXCEPT ![t] = 1]
    /\ UNCHANGED owner

WithOpLock(t, o) == t \notin MayBatch /\ {o} \in Batches /\ begin(t, <<o>>)

WithOpeLocks(t, S) == t \in MayBatch /\ S \in Batches /\ \E q \in Unique(S) : begin(t, q)

BadAcquire(t) ==   \* the section starts before the last lock is taken
    /\ pc[t] = "lock"
    /\ owner[orders[t][idx[t]]] = NoThread
    /\ owner' = [owner EXCEPT ![orders[t][idx[t]]] = t]
    /\ idx' = [idx EXCEPT ![t] = @ + 1]
    /\ pc' = [pc EXCEPT ![t] = IF idx[t] + 1 >= Len(orders[t]) THEN "run" ELSE "lock"]
    /\ UNCHANGED orders

(* muOpe.Lock of the next order, which blocks while another thread has it; *)
(* after the last one the section runs.                                    *)
Acquire(t) ==
    /\ pc[t] = "lock"
    /\ owner[orders[t][idx[t]]] = NoThread
    /\ owner' = [owner EXCEPT ![orders[t][idx[t]]] = t]
    /\ idx' = [idx EXCEPT ![t] = @ + 1]
    /\ pc' = [pc EXCEPT ![t] = IF idx[t] = Len(orders[t]) THEN "run" ELSE "lock"]
    /\ UNCHANGED orders

(* f returns. *)
Return(t) ==
    /\ pc[t] = "run"
    /\ pc' = [pc EXCEPT ![t] = "unlock"]
    /\ idx' = [idx EXCEPT ![t] = 1]
    /\ UNCHANGED <<owner, orders>>

BadRelease(t) ==   \* the last lock of a batch is not released
    /\ pc[t] = "unlock"
    /\ owner' = [owner EXCEPT ![orders[t][idx[t]]] = NoThread]
    /\ idx' = [idx EXCEPT ![t] = @ + 1]
    /\ pc' = [pc EXCEPT ![t] = IF idx[t] + 1 >= Len(orders[t]) THEN "idle" ELSE "unlock"]
    /\ UNCHANGED orders

Release(t) ==
    /\ pc[t] = "unlock"
    /\ owner' = [owner EXCEPT ![orders[t][idx[t]]] = NoThread]
    /\ idx' = [idx EXCEPT ![t] = @ + 1]
    /\ pc' = [pc EXCEPT ![t] = IF idx[t] = Len(orders[t]) THEN "idle" ELSE "unlock"]
    /\ UNCHANGED orders

LocksStep(t) == Acquire(t) \/ Return(t) \/ Release(t)

LocksNext ==
    \E t \in Threads :
        \/ \E o \in Orders : WithOpLock(t, o)
        \/ \E S \in Batches : WithOpeLocks(t, S)
        \/ LocksStep(t)

LocksSpec == LocksInit /\ [][LocksNext]_locksVars

(* A goroutine that can run does, and sync.Mutex is starvation free: a     *)
(* goroutine that waits for a lock gets it if it is released again and     *)
(* again.  Nothing obliges a thread to call.                               *)
LocksFairSpec ==
    /\ LocksSpec
    /\ \A t \in Threads : SF_locksVars(Acquire(t)) /\ WF_locksVars(Return(t) \/ Release(t))
-----------------------------------------------------------------------------
(* Type invariant. *)
LocksTypeOK ==
    /\ owner \in [Orders -> Threads \union {NoThread}]
    /\ pc \in [Threads -> {"idle", "lock", "run", "unlock"}]
    /\ orders \in [Threads -> Seq(Orders)]
    /\ idx \in [Threads -> Nat \ {0}]
    /\ \A t \in Threads : pc[t] \in {"lock", "unlock"} => idx[t] <= Len(orders[t])

(* The locks implement atomic sections: although WithOpeLocks takes its    *)
(* locks one by one, a batch and a single operation on one of its orders   *)
(* never overlap.                                                          *)
running == [t \in Threads |-> IF pc[t] = "run" THEN elems(orders[t]) ELSE {}]

Atomic == INSTANCE Sections

ImplementsSections == Atomic!Spec

(* Every thread of S waits for a lock that another thread of S holds. *)
Deadlock(S) ==
    \A t \in S : pc[t] = "lock" /\ owner[orders[t][idx[t]]] \in S

(* Liveness: a goroutine that has called WithOpLock or WithOpeLocks gets   *)
(* to run its section, unless batches that took common locks in different  *)
(* orders hold each other up: this is the only way the locks get stuck,    *)
(* and no single operation is ever part of it.                             *)
SectionRuns ==
    LET stuck == \E S \in SUBSET MayBatch \ {{}} : Deadlock(S)
    IN  \A t \in Threads : pc[t] = "lock" ~> (pc[t] = "run" \/ stuck)
=============================================================================
