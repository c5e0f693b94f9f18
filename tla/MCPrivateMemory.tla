--------------------------- MODULE MCPrivateMemory ---------------------------
(* A small instance of PrivateMemory for TLC. *)
EXTENDS PrivateMemory, TLC
=============================================================================
