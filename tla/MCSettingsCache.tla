--------------------------- MODULE MCSettingsCache ---------------------------
(* Small instances of SettingsCache for TLC. *)
EXTENDS SettingsCache, TLC

\* Callers are interchangeable: no definition names one of them.
Symmetric == Permutations(Caller)
=============================================================================
