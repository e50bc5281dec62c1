--------------------------- MODULE MCLiveUpdates ---------------------------
(* Small instances of LiveUpdates: interchangeable tabs. *)
EXTENDS LiveUpdates, TLC

Symmetry == Permutations(Tab)
===========================================================================
