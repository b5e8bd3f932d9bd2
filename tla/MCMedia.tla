------------------------------ MODULE MCMedia ------------------------------
(* A small instance of Media for TLC. *)
EXTENDS Media
=============================================================================
