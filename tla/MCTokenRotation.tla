-------------------------- MODULE MCTokenRotation --------------------------
(***************************************************************************)
(* Instances of TokenRotation for TLC.                                     *)
(***************************************************************************)
EXTENDS TokenRotation, TLC

TabSymmetry == Permutations(Tab)
=============================================================================
