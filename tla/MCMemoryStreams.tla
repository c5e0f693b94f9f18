-------------------------- MODULE MCMemoryStreams --------------------------
(* A small instance of MemoryStreamSlots for TLC. *)
EXTENDS MemoryStreamSlots, TLC

Symmetric == Permutations(Stream)
=============================================================================
