----------------------------- MODULE MCAccount ------------------------------
(***************************************************************************)
(* The orders of others are interchangeable: nothing orders their IDs, and *)
(* the position sums over them.                                            *)
(***************************************************************************)
EXTENDS Account, TLC

Symmetry == Permutations(Others)
=============================================================================
