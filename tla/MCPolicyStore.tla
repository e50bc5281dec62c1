--------------------------- MODULE MCPolicyStore ---------------------------
(* Small instances of PolicyStore: interchangeable settings pages. *)
EXTENDS PolicyStore, TLC

Symmetry == Permutations(Tab)
===========================================================================
