---------------------------- MODULE Authorization ----------------------------
(***************************************************************************)
(* The decision of AuthorizationService on the policy that                 *)
(* SqlAuthorizationPolicyRepository reads: role permissions or, failing    *)
(* those, the catalogue entry of the member's job title.  Every grant of   *)
(* that repository covers the whole tenant and it supplies no workflow     *)
(* rule, so neither data scopes nor workflow states appear; nothing        *)
(* deactivates a tenant or an account.                                     *)
(***************************************************************************)
EXTENDS Naturals, Sequences, FiniteSetsExt

CONSTANTS
  Member,      \* tenant_membership rows, each with the account it belongs to
  Permission,  \* well-formed permission codes
  Approval,    \* the approval permissions of the separation of duties
  Title,       \* job titles
  Catalogue    \* Catalogue[t]: the permissions of the built-in role of a title

ASSUME ApprovalAssumption == Approval \subseteq Permission
ASSUME CatalogueAssumption == Catalogue \in [Title -> SUBSET Permission]

\* _resolve_codes: what the role gives, or the catalogue if it gives nothing.
Resolve(codes, t) == IF codes = {} THEN Catalogue[t] ELSE codes

\* AuthorizationPolicy; _grants drops malformed codes.
Policy(found, active, codes, t) ==
  [found |-> found, active |-> active, grants |-> Resolve(codes, t) \cap Permission]

\* What service.py:37 tests, in order: a reason for denial, and whether it applies to actor m asking
\* for p on a resource that creator made.
Denials(policy, m, p, creator) ==
  << <<"POLICY_NOT_FOUND", ~ policy.found>>,
     <<"ACTOR_INACTIVE", ~ policy.active>>,
     <<"PERMISSION_MISSING", p \notin policy.grants>>,
     <<"SEPARATION_OF_DUTIES", p \in Approval /\ creator = m>> >>

\* authorize: the first denial that applies.
Decision(policy, m, p, creator) ==
  LET d == Denials(policy, m, p, creator)
      applies == {i \in DOMAIN d : d[i][2]}
  IN IF applies = {} THEN "ALLOWED" ELSE d[Min(applies)][1]
Allowed(policy, m, p, creator) == Decision(policy, m, p, creator) = "ALLOWED"
=============================================================================
