--------------------------- MODULE MCCardPayments ---------------------------
(***************************************************************************)
(* Small instances of CardPayments for TLC: one or two orders of one       *)
(* product, two or three Checkout Sessions, and up to two handlers,        *)
(* sweepers and admin requests.                                            *)
(***************************************************************************)
EXTENDS CardPayments, MCOrders

CONSTANTS h1, h2, w1, w2, s1, s2, s3

TaskSymmetry == Permutations(Handler) \cup Permutations(Sweeper)
                    \cup Permutations(Session)
=============================================================================
