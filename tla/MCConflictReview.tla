--------------------------- MODULE MCConflictReview ---------------------------
(* One case of two positions, whose evidence is even, may become even      *)
(* otherwise, come to favour one of them, or leave no conflict.  The typed *)
(* decision provider is tried on the second day that the case is overdue.  *)
EXTENDS ConflictReview, TLC

CONSTANTS ai, typed, even, other, major, gone, p1, p2

MCMajority == even :> NoPosition @@ other :> NoPosition @@ major :> p1
MCLastWriter == even :> p1 @@ other :> p2 @@ major :> p2 @@ gone :> p1
MCConfigured == 0 :> {} @@ 1 :> {ai} @@ 2 :> {ai, typed} @@ 3 :> {ai}
Symmetric == Permutations(Worker)
=============================================================================
