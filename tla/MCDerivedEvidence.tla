--------------------------- MODULE MCDerivedEvidence ---------------------------
(* Two workers on the tasks of one team.                              *)
EXTENDS DerivedEvidence, TLC
=============================================================================
