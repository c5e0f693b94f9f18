----------------------------- MODULE MCRemember -----------------------------
(* Small instances of RememberIdempotency for TLC. *)
EXTENDS RememberIdempotency, TLC

\* Calls, replicas, keys and hashes are interchangeable: no definition names
\* one of them.
Symmetric == Permutations(Call) \cup Permutations(Proc)
             \cup Permutations(Key) \cup Permutations(Hash)
=============================================================================
