--------------------------- MODULE MCModelRegistry ---------------------------
(***************************************************************************)
(* ModelRegistry on small instances.                                       *)
(***************************************************************************)
EXTENDS ModelRegistry, TLC

Symmetry == Permutations(Operators) \cup Permutations(Releases)
=============================================================================
