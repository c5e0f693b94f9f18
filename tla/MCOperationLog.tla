--------------------------- MODULE MCOperationLog ---------------------------
(* A small instance of OperationLog for TLC. *)
EXTENDS OperationLog, TLC
=============================================================================
