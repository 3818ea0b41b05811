----------------------------- MODULE Multisets -----------------------------
(***************************************************************************)
(* Finite multisets as functions to positive counts: the few operators the *)
(* models need for goroutines and messages in flight, several of which may *)
(* be alike.  (The standard module Bags has them too, but brings a library *)
(* of theorems into every module that is proved about.)                    *)
(***************************************************************************)
EXTENDS Naturals

IsMultiset(M) == M \in [DOMAIN M -> Nat \ {0}]

Elements(M) == DOMAIN M

(* One copy of every element of the set S. *)
Each(S) == [e \in S |-> 1]

Nothing == Each({})

Copies(M, e) == IF e \in DOMAIN M THEN M[e] ELSE 0

M (+) N == [e \in DOMAIN M \union DOMAIN N |-> Copies(M, e) + Copies(N, e)]

(* M with one copy less of every element of the set S. *)
Less(M, S) ==
    [e \in {x \in DOMAIN M : x \notin S \/ M[x] > 1} |-> IF e \in S THEN M[e] - 1 ELSE M[e]]
=============================================================================
