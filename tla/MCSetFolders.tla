----------------------------- MODULE MCSetFolders -----------------------------
(* Instances of SetFolders for TLC. *)
EXTENDS SetFolders, TLC

CONSTANTS d1, d2       \* documents
CONSTANTS n1, n2, n3   \* names of input files

MCSymmetry == Permutations({n1, n2, n3}) \cup Permutations({d1, d2})
=============================================================================
