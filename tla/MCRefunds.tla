------------------------------ MODULE MCRefunds ------------------------------
(***************************************************************************)
(* Small instances of Refunds for TLC: one paid order of price 2, up to    *)
(* three refunds of it, two refund requests and two refund events at a     *)
(* time.                                                                   *)
(***************************************************************************)
EXTENDS Refunds, MCCardPayments

CONSTANTS k1, k2, k3, a1, a2, d1, d2

RefundSymmetry == Permutations(Key) \cup Permutations(Admin)
                      \cup Permutations(Delivery)
=============================================================================
