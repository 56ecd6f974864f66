---------------------------- MODULE MC_StoreOpen -----------------------------
(***************************************************************************)
(* Instances of StoreOpen for TLC.                                          *)
(***************************************************************************)
EXTENDS StoreOpen, TLC

CONSTANTS i1, i2, p1, p2, p3

Symmetry == Permutations(Ids) \cup Permutations(Procs)
=============================================================================
