--------------------------- MODULE MCSessionFiles ---------------------------
(* Small instances of SessionFiles for TLC. *)
EXTENDS SessionFiles, TLC

Symmetry == Permutations(Session) \cup Permutations(Path)
=============================================================================
