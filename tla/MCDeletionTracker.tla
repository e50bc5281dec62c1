------------------------- MODULE MCDeletionTracker -------------------------
(* Small instances of DeletionTracker. *)
EXTENDS DeletionTracker, TLC

Symmetry == Permutations(Id)
===========================================================================
