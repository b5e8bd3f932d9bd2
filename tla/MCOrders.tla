------------------------------ MODULE MCOrders ------------------------------
(***************************************************************************)
(* Small instances of Orders for TLC.                                      *)
(***************************************************************************)
EXTENDS Orders, TLC

CONSTANTS p1, p2, o1, o2

OneEach == p1 :> 1
NoneAndOne == p1 :> 0 @@ p2 :> 1
OrderSymmetry == Permutations(Order)
=============================================================================
