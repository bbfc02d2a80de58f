---------------------------- MODULE MCHumanTask ----------------------------
(***************************************************************************)
(* Instances of HumanTask for TLC.                                         *)
(***************************************************************************)
EXTENDS HumanTask, TLC

\* Everyone is a tenant administrator and may do everything.
Admins == [m \in Member |-> Action]
MemberSymmetry == Permutations(Member)
=============================================================================
