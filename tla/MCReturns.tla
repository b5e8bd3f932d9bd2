----------------------------- MODULE MCReturns -----------------------------
(* A small instance of Returns, and so of Shipping, for TLC. *)
EXTENDS Returns
=============================================================================
