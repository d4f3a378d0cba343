------------------------------ MODULE MCBigInv ------------------------------
(* A small instance of BigInv for TLC. *)
EXTENDS BigInv

AllA == 0 .. 24
AllM == 1 .. 16
=============================================================================
