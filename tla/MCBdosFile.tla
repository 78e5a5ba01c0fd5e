----------------------------- MODULE MCBdosFile -----------------------------
(* Instances of BdosFile for TLC: the names, the FCBs and, but for Zero, the *)
(* values are interchangeable.                                              *)
EXTENDS BdosFileInv, TLC

Symmetry == Permutations(Name) \cup Permutations(Fcb)
=============================================================================
