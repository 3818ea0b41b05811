------------------------------ MODULE Sections ------------------------------
(***************************************************************************)
(* What the operation locks of orders promise: the sections run under them *)
(* (a single amend or send, a batch cancel) are atomic.  A section starts  *)
(* in one step, with all of its orders, and while it runs no other section *)
(* on any of these orders does.                                            *)
(***************************************************************************)
CONSTANTS Threads, Orders, Batches

VARIABLE running   \* the orders of the section each thread runs, {} outside

Init == running = [t \in Threads |-> {}]

Enter(t, S) ==
    /\ running[t] = {}
    /\ \A u \in Threads : running[u] \intersect S = {}
    /\ running' = [running EXCEPT ![t] = S]

Leave(t) ==
    /\ running[t] # {}
    /\ running' = [running EXCEPT ![t] = {}]

Next == \E t \in Threads : Leave(t) \/ \E S \in Batches : Enter(t, S)

Spec == Init /\ [][Next]_running
=============================================================================
