------------------------------ MODULE MCMemStore ------------------------------
(***************************************************************************)
(* A small instance of MemStore: the customers who only visit are alike.   *)
(***************************************************************************)
EXTENDS MemStore, TLC

UserSymmetry == Permutations(Visitors)
===============================================================================
