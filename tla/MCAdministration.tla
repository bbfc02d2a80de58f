-------------------------- MODULE MCAdministration --------------------------
(***************************************************************************)
(* Instances of Administration for TLC: a tenant with the roles admin and  *)
(* member, and one member with the job title of each.                      *)
(***************************************************************************)
EXTENDS Administration, TLC

CONSTANTS ann, bob, admin, member, manage, approve

MCCatalogue == (admin :> {manage, approve}) @@ (member :> {approve})
MCTitleOf == (ann :> admin) @@ (bob :> member)
MCMaxRequest == [a \in Area |-> CASE a = "people" -> 2 [] a = "credentials" -> 4
                                  [] OTHER -> 3]
HandlerSymmetry == Permutations(Handler) \cup Permutations(Model)
=============================================================================
